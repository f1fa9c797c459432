-------------------------- MODULE Postings_proofs --------------------------
(***************************************************************************)
(* Every posting survives its encoding, and data that is read as a posting *)
(* holds exactly the ID and the positions returned, ascending; and the     *)
(* intersection and the union of any two posting lists are exact.          *)
(*                                                                         *)
(* The recursive functions of the models are brought in reach by two       *)
(* lemmas that are proved first: what is defined by recursion on a number  *)
(* exists and obeys its equation (Recursion), and what passes on from all  *)
(* smaller arguments holds for all (MeasureInduction). A varint is the     *)
(* digits of its number, of which the last is the first without the flag;  *)
(* so it is seen where a varint ends, whatever follows, and the varints of *)
(* a list of numbers are read back one after the other. The deltas of      *)
(* sorted positions sum up to the positions again. What is read of data    *)
(* depends only on where its varints end and on their values; with its end *)
(* cut off, the last of them ends no more. Merging is by induction over    *)
(* what is left of the two lists.                                          *)
(***************************************************************************)
EXTENDS Postings, NaturalsInduction, WellFoundedInduction, FiniteSetTheorems, TLAPS

-----------------------------------------------------------------------------
(* Induction and recursion.                                                *)

(* A set of natural numbers has a least element.                           *)
LEMMA Smallest ==
    ASSUME NEW S \in SUBSET Nat, S # {}
    PROVE  \E m \in S : \A k \in S : m <= k
<1>1. PICK m \in S : \A k \in S : ~(<<k, m>> \in OpToRel(<, Nat))
  BY WFMin, NatLessThanWellFounded, Zenon
<1>2. \A k \in S : ~(k < m)
  BY <1>1, Zenon DEF OpToRel
<1> QED BY <1>2

(* A set of natural numbers with a bound has a greatest element.           *)
LEMMA Greatest ==
    ASSUME NEW n \in Nat, NEW S \in SUBSET (0..n), S # {}
    PROVE  \E m \in S : \A k \in S : k <= m
<1> DEFINE T == {n - k : k \in S}
<1>1. T \in SUBSET Nat /\ T # {}
  OBVIOUS
<1>2. PICK t \in T : \A k \in T : t <= k
  BY <1>1, Smallest
<1>3. PICK m \in S : t = n - m
  OBVIOUS
<1>4. \A k \in S : n - m <= n - k
  BY <1>2, <1>3
<1> QED BY <1>4

(* Induction over the numbers, from the well-foundedness of their order.   *)
LEMMA NumberInduction ==
    ASSUME NEW S \in SUBSET Nat, 0 \in S, \A n \in S : n + 1 \in S
    PROVE  S = Nat
<1> SUFFICES ASSUME Nat \ S # {} PROVE FALSE
  OBVIOUS
<1> DEFINE R == OpToRel(<, Nat)
<1>1. IsWellFoundedOn(R, Nat)
  BY NatLessThanWellFounded, Zenon
<1> HIDE DEF R
<1>2. PICK x \in Nat \ S : \A y \in Nat \ S : ~ (<<y, x>> \in R)
  BY <1>1, WFMin
<1>3. x # 0 /\ x - 1 \in Nat \ S
  OBVIOUS
<1>4. <<x - 1, x>> \in R
  BY <1>3 DEF R, OpToRel
<1> QED BY <1>2, <1>3, <1>4

(* The rule G computes the value at d, in V, from the values at the         *)
(* arguments of a smaller measure m, which is below N.                     *)
Descends(G, D, V, m, N) ==
  /\ V # {}
  /\ N \in Nat
  /\ G \in [D -> [[D -> V] -> V]]
  /\ m \in [D -> Nat]
  /\ \A d \in D : m[d] < N
  /\ \A d \in D : \A f, g \in [D -> V] :
       (\A e \in D : m[e] < m[d] => f[e] = g[e]) => G[d][f] = G[d][g]

(* Recursion on a bounded measure defines a function.                      *)
LEMMA Recursion ==
    ASSUME NEW D, NEW V, NEW G, NEW m, NEW N, Descends(G, D, V, m, N)
    PROVE  \E f \in [D -> V] : \A d \in D : f[d] = G[d][f]
<1> DEFINE Upto(n, f) == \A d \in D : m[d] < n => f[d] = G[d][f]
           S == {n \in Nat : \E f \in [D -> V] : Upto(n, f)}
<1>0. /\ V # {}
      /\ N \in Nat
      /\ \A d \in D : m[d] < N
      /\ G \in [D -> [[D -> V] -> V]]
      /\ m \in [D -> Nat]
      /\ \A d \in D : \A f, g \in [D -> V] :
           (\A e \in D : m[e] < m[d] => f[e] = g[e]) => G[d][f] = G[d][g]
  BY DEF Descends
<1>1. 0 \in S
  <2>1. PICK v \in V : TRUE
    BY <1>0
  <2>2. [d \in D |-> v] \in [D -> V]
    BY <2>1
  <2>3. Upto(0, [d \in D |-> v])
    BY <1>0
  <2> QED BY <2>2, <2>3
<1>2. ASSUME NEW n \in S
      PROVE  n + 1 \in S
  <2>1. PICK f \in [D -> V] : Upto(n, f)
    OBVIOUS
  <2> DEFINE g == [d \in D |-> IF m[d] < n THEN f[d] ELSE G[d][f]]
  <2>2. g \in [D -> V]
    BY <1>0
  <2>3. ASSUME NEW d \in D, m[d] < n + 1
        PROVE  g[d] = G[d][g]
    <3>1. \A e \in D : m[e] < m[d] => f[e] = g[e]
      BY <1>0, <2>3
    <3>2. G[d][f] = G[d][g]
      <4> HIDE DEF g
      <4> QED BY <1>0, <2>2, <3>1
    <3>3. g[d] = G[d][f]
      BY <2>1, <1>0
    <3> QED BY <3>2, <3>3
  <2> HIDE DEF g
  <2>4. Upto(n + 1, g)
    BY <2>3
  <2> QED BY <2>2, <2>4
<1>3. S = Nat
  <2> HIDE DEF S
  <2>1. S \in SUBSET Nat
    BY DEF S
  <2> QED BY <1>1, <1>2, <2>1, NumberInduction
<1>4. PICK f \in [D -> V] : Upto(N, f)
  BY <1>0, <1>3
<1> QED BY <1>0, <1>4

(* What holds wherever it holds at all arguments of smaller measure holds   *)
(* everywhere.                                                             *)
LEMMA MeasureInduction ==
    ASSUME NEW D, NEW S, NEW m, \A d \in D : m[d] \in Nat,
           \A d \in D : (\A e \in D : m[e] < m[d] => e \in S) => d \in S
    PROVE  D \subseteq S
<1> DEFINE T == {n \in Nat : \A d \in D : m[d] < n => d \in S}
<1>1. 0 \in T
  OBVIOUS
<1>2. ASSUME NEW n \in T
      PROVE  n + 1 \in T
  <2>1. ASSUME NEW d \in D, m[d] < n + 1
        PROVE  d \in S
    <3>1. \A e \in D : m[e] < m[d] => e \in S
      BY <2>1
    <3> QED BY <3>1
  <2> QED BY <2>1
<1>3. T = Nat
  <2>1. T \in SUBSET Nat
    OBVIOUS
  <2> HIDE DEF T
  <2> QED BY <1>1, <1>2, <2>1, NumberInduction
<1>4. ASSUME NEW d \in D
      PROVE  d \in S
  <2>1. m[d] + 1 \in T
    BY <1>3
  <2> QED BY <2>1
<1> QED BY <1>4

(* How many numbers an interval has.                                       *)
LEMMA UpToNumber ==
    ASSUME NEW n \in Nat
    PROVE  IsFiniteSet(1..n) /\ Cardinality(1..n) = n
<1>1. 1 \in Int /\ n \in Int
  OBVIOUS
<1>2. IsFiniteSet(1..n) /\ Cardinality(1..n) = IF 1 > n THEN 0 ELSE n - 1 + 1
  BY <1>1, FS_Interval, Zenon
<1> QED BY <1>2

(* How many numbers are above a and up to b.                               *)
LEMMA IntervalCount ==
    ASSUME NEW a \in Nat, NEW b \in Nat, a <= b
    PROVE  IsFiniteSet(a + 1 .. b) /\ Cardinality(a + 1 .. b) = b - a
<1>1. a + 1 \in Int /\ b \in Int
  OBVIOUS
<1>2. IsFiniteSet(a + 1 .. b) /\ Cardinality(a + 1 .. b) = IF a + 1 > b THEN 0 ELSE b - (a + 1) + 1
  BY <1>1, FS_Interval, Zenon
<1> QED BY <1>2

(* The elements of two sequences joined.                                   *)
LEMMA Joined ==
    ASSUME NEW V, NEW a \in Seq(V), NEW b \in Seq(V)
    PROVE  /\ a \o b \in Seq(V)
           /\ Len(a \o b) = Len(a) + Len(b)
           /\ \A k \in 1..Len(a) + Len(b) : (a \o b)[k] = IF k <= Len(a) THEN a[k] ELSE b[k - Len(a)]
OBVIOUS

(* A function on 1..n is a sequence.                                        *)
LEMMA SequenceOf ==
    ASSUME NEW V, NEW n \in Nat, NEW d \in [1..n -> V]
    PROVE  d \in Seq(V) /\ Len(d) = n
OBVIOUS

Stepwise(n, V, v0, step) == n \in Nat /\ v0 \in V /\ step \in [1..n -> [V -> V]]

Follows(f, n, V, v0, step) ==
  f \in [0..n -> V] /\ f[0] = v0 /\ \A k \in 1..n : f[k] = step[k][f[k - 1]]

(* A function that is given at 0 and from each value to the next exists.   *)
LEMMA StepwiseFunction ==
    ASSUME NEW n, NEW V, NEW v0, NEW step, Stepwise(n, V, v0, step)
    PROVE  \E f : Follows(f, n, V, v0, step)
<1> DEFINE D == 0..n
           m == [d \in D |-> d]
           G == [d \in D |-> [f \in [D -> V] |-> IF d = 0 THEN v0 ELSE step[d][f[d - 1]]]]
<1> n \in Nat /\ v0 \in V /\ step \in [1..n -> [V -> V]]
  BY DEF Stepwise
<1>1. Descends(G, D, V, m, n + 1)
  <2>1. V # {} /\ n + 1 \in Nat /\ m \in [D -> Nat] /\ \A d \in D : m[d] < n + 1
    OBVIOUS
  <2>2. ASSUME NEW d \in D, d # 0
        PROVE  d \in 1..n /\ d - 1 \in D /\ m[d - 1] < m[d]
    BY <2>2
  <2>3. G \in [D -> [[D -> V] -> V]]
    BY <2>2
  <2>4. ASSUME NEW d \in D, NEW f \in [D -> V], NEW g \in [D -> V],
               \A e \in D : m[e] < m[d] => f[e] = g[e]
        PROVE  G[d][f] = G[d][g]
    BY <2>2, <2>4
  <2> HIDE DEF D, m, G
  <2> QED BY <2>1, <2>3, <2>4 DEF Descends
<1>2. PICK f \in [D -> V] : \A d \in D : f[d] = G[d][f]
  <2> HIDE DEF D, m, G
  <2> QED BY <1>1, Recursion
<1>3. 0 \in D /\ \A k \in 1..n : k \in D /\ k # 0
  OBVIOUS
<1>4. f[0] = v0 /\ \A k \in 1..n : f[k] = step[k][f[k - 1]]
  <2> HIDE DEF D
  <2> QED BY <1>2, <1>3
<1> QED BY <1>4 DEF Follows

(* A number below the modulus is its own remainder.                        *)
LEMMA SmallRemainder ==
    ASSUME NEW W \in Nat, NEW x \in 0..W - 1
    PROVE  x % W = x
OBVIOUS

Chains(n, V, v1, step) == n \in Nat \ {0} /\ v1 \in V /\ step \in [2..n -> [V -> V]]

ChainOf(f, n, V, v1, step) ==
  f \in [1..n -> V] /\ f[1] = v1 /\ \A k \in 2..n : f[k] = step[k][f[k - 1]]

(* A function that is given at 1 and from each value to the next exists.    *)
LEMMA ChainFunction ==
    ASSUME NEW n, NEW V, NEW v1, NEW step, Chains(n, V, v1, step)
    PROVE  \E f : ChainOf(f, n, V, v1, step)
<1>0. n \in Nat \ {0} /\ v1 \in V /\ step \in [2..n -> [V -> V]]
  BY DEF Chains
<1> DEFINE go == [k \in 1..n |-> [v \in V |-> IF k = 1 THEN v1 ELSE step[k][v]]]
<1>1. go \in [1..n -> [V -> V]]
  <2>1. ASSUME NEW k \in 1..n, NEW v \in V
        PROVE  (IF k = 1 THEN v1 ELSE step[k][v]) \in V
    <3>1. k # 1 => k \in 2..n
      BY <1>0
    <3> QED BY <3>1, <1>0
  <2> QED BY <2>1
<1>2. Stepwise(n, V, v1, go)
  <2> HIDE DEF go
  <2> QED BY <1>0, <1>1 DEF Stepwise
<1>3. PICK f : Follows(f, n, V, v1, go)
  <2> HIDE DEF go
  <2> QED BY <1>2, StepwiseFunction
<1>4. f \in [0..n -> V] /\ \A k \in 1..n : f[k] = go[k][f[k - 1]]
  BY <1>3 DEF Follows
<1>5. \A k \in 1..n : k - 1 \in 0..n /\ k \in 0..n
  BY <1>0
<1>6. \A k \in 2..n : k \in 1..n /\ k - 1 \in 1..n /\ k # 1
  BY <1>0
<1>7. 1 \in 1..n
  BY <1>0
<1> DEFINE g == [k \in 1..n |-> f[k]]
<1>8. g \in [1..n -> V]
  BY <1>4, <1>5
<1>9. \A k \in 1..n : f[k] = IF k = 1 THEN v1 ELSE step[k][f[k - 1]]
  BY <1>4, <1>5
<1>10. g[1] = v1
  BY <1>7, <1>9
<1>11. ASSUME NEW k \in 2..n
       PROVE  g[k] = step[k][g[k - 1]]
  BY <1>6, <1>9
<1>12. ChainOf(g, n, V, v1, step)
  <2> HIDE DEF g
  <2> QED BY <1>8, <1>10, <1>11 DEF ChainOf
<1> QED BY <1>12

-----------------------------------------------------------------------------
(* Sorting.                                                                *)

Under(s, v) == {j \in 1..Len(s) : s[j] < v}
UpTo(s, v) == {j \in 1..Len(s) : s[j] <= v}

(* Counting the numbers of a list by their size.                           *)
LEMMA Counts ==
    ASSUME NEW M \in Nat, NEW s \in Seq(0..M)
    PROVE  /\ \A v \in Int : Cardinality(Under(s, v)) \in Nat /\ Cardinality(UpTo(s, v)) \in Nat
           /\ \A v \in Int : Under(s, v) = UpTo(s, v - 1)
           /\ \A v, w \in Int : v < w => Cardinality(UpTo(s, v)) <= Cardinality(Under(s, w))
           /\ \A v \in Int : v < 0 => Cardinality(UpTo(s, v)) = 0
           /\ \A v \in Int : v >= M => Cardinality(UpTo(s, v)) = Len(s)
           /\ \A v \in Int : Cardinality({j \in 1..Len(s) : s[j] = v}) =
                               Cardinality(UpTo(s, v)) - Cardinality(Under(s, v))
           /\ \A v \in Int : Cardinality(UpTo(s, v)) > Cardinality(Under(s, v)) =>
                               \E j \in 1..Len(s) : s[j] = v
           /\ \A v \in Int : Cardinality(Under(s, v)) <= Cardinality(UpTo(s, v))
           /\ \A v \in Int : Cardinality(UpTo(s, v)) <= Len(s)
<1> DEFINE D == 1..Len(s)
<1>1. /\ Len(s) \in Nat
      /\ \A j \in D : s[j] \in 0..M
  OBVIOUS
<1>2. IsFiniteSet(D) /\ Cardinality(D) = Len(s)
  BY <1>1, UpToNumber
<1>3. \A S \in SUBSET D : IsFiniteSet(S) /\ Cardinality(S) \in Nat
  BY <1>2, FS_Subset, FS_CardinalityType
<1>4. \A S \in SUBSET D : \A T \in SUBSET D : S \subseteq T => Cardinality(S) <= Cardinality(T)
  BY <1>3, FS_Subset
<1>5. \A v \in Int : Under(s, v) \in SUBSET D /\ UpTo(s, v) \in SUBSET D
  BY DEF Under, UpTo
<1>6. \A v \in Int : Under(s, v) = UpTo(s, v - 1)
  BY <1>1 DEF Under, UpTo
<1>7. \A v, w \in Int : v < w => UpTo(s, v) \subseteq Under(s, w)
  BY <1>1 DEF Under, UpTo
<1>8. \A v \in Int : v < 0 => UpTo(s, v) = {}
  BY <1>1 DEF UpTo
<1>9. \A v \in Int : v >= M => UpTo(s, v) = D
  BY <1>1 DEF UpTo
<1>10. ASSUME NEW v \in Int
       PROVE  /\ Cardinality({j \in D : s[j] = v}) =
                   Cardinality(UpTo(s, v)) - Cardinality(Under(s, v))
              /\ Cardinality(UpTo(s, v)) > Cardinality(Under(s, v)) =>
                   \E j \in D : s[j] = v
  <2> DEFINE E == {j \in D : s[j] = v}
  <2>1. UpTo(s, v) = Under(s, v) \cup E /\ Under(s, v) \cap E = {}
    BY <1>1 DEF Under, UpTo
  <2>2. IsFiniteSet(E) /\ IsFiniteSet(Under(s, v)) /\ Cardinality(E) \in Nat /\ Cardinality(Under(s, v)) \in Nat
    BY <1>3, <1>5
  <2>3. Cardinality(UpTo(s, v)) = Cardinality(Under(s, v)) + Cardinality(E)
    <3> HIDE DEF E
    <3>1. Cardinality(Under(s, v) \cap E) = 0
      BY <2>1, FS_EmptySet
    <3>2. Cardinality(Under(s, v) \cup E) =
            Cardinality(Under(s, v)) + Cardinality(E) - Cardinality(Under(s, v) \cap E)
      BY <2>2, FS_Union, Zenon
    <3> QED BY <2>1, <2>2, <3>1, <3>2
  <2>4. E = {} => Cardinality(E) = 0
    BY FS_EmptySet
  <2> QED BY <2>2, <2>3, <2>4
<1>11. \A v \in Int : /\ Cardinality(Under(s, v)) <= Cardinality(UpTo(s, v))
                      /\ Cardinality(UpTo(s, v)) <= Len(s)
  <2> SUFFICES ASSUME NEW v \in Int
               PROVE  /\ Cardinality(Under(s, v)) <= Cardinality(UpTo(s, v))
                      /\ Cardinality(UpTo(s, v)) <= Len(s)
    OBVIOUS
  <2>1. Under(s, v) \subseteq UpTo(s, v) /\ UpTo(s, v) \subseteq D /\ D \in SUBSET D
    BY <1>1 DEF Under, UpTo
  <2> HIDE DEF D
  <2> QED BY <2>1, <1>2, <1>4, <1>5
<1> QED BY <1>2, <1>3, <1>4, <1>5, <1>6, <1>7, <1>8, <1>9, <1>10, <1>11, FS_EmptySet

(* The copy has at each place a number that is the right one in order.     *)
LEMMA SortedCopyRanks ==
    ASSUME NEW M \in Nat, NEW s \in Seq(0..M)
    PROVE  /\ SortedCopy(s) \in Seq(0..M)
           /\ Len(SortedCopy(s)) = Len(s)
           /\ \A k \in 1..Len(s) : /\ Cardinality(Under(s, SortedCopy(s)[k])) < k
                                   /\ k <= Cardinality(UpTo(s, SortedCopy(s)[k]))
<1> DEFINE n == Len(s)
           R == {s[j] : j \in 1..n}
           OK(k, v) == Cardinality(Under(s, v)) < k /\ k <= Cardinality(UpTo(s, v))
<1>1. SortedCopy(s) = [k \in 1..n |-> CHOOSE v \in R : OK(k, v)]
  BY DEF SortedCopy, Under, UpTo
<1>2. n \in Nat /\ R \subseteq 0..M
  OBVIOUS
<1>3. ASSUME NEW k \in 1..n
      PROVE  \E v \in R : OK(k, v)
  <2> DEFINE A == {v \in Nat : k <= Cardinality(UpTo(s, v))}
  <2>1. M \in A
    <3>1. M \in Int /\ M >= M /\ k <= Len(s)
      BY <1>2
    <3>2. Cardinality(UpTo(s, M)) = Len(s)
      BY <3>1, Counts
    <3> QED BY <3>1, <3>2
  <2>2. PICK v \in A : \A w \in A : v <= w
    BY <2>1, Smallest
  <2>3. v - 1 \in Int /\ v - 1 \notin A /\ Under(s, v) = UpTo(s, v - 1)
    BY <2>2, Counts
  <2>4. Cardinality(Under(s, v)) < k
    <3>1. CASE v = 0
      BY <3>1, <2>3, Counts
    <3>2. CASE v # 0
      <4>1. v - 1 \in Nat
        BY <3>2
      <4>2. Cardinality(UpTo(s, v - 1)) \in Nat /\ ~(k <= Cardinality(UpTo(s, v - 1)))
        BY <4>1, <2>3, Counts
      <4> QED BY <4>2, <2>3
    <3> QED BY <3>1, <3>2
  <2>5. k <= Cardinality(UpTo(s, v))
    OBVIOUS
  <2>6. Cardinality(UpTo(s, v)) > Cardinality(Under(s, v))
    <3>1. Cardinality(UpTo(s, v)) \in Nat /\ Cardinality(Under(s, v)) \in Nat
      BY Counts
    <3> QED BY <2>4, <2>5, <3>1
  <2>7. v \in R
    <3>1. v \in Int
      OBVIOUS
    <3>2. \E j \in 1..Len(s) : s[j] = v
      BY <3>1, <2>6, Counts
    <3> QED BY <3>2
  <2> QED BY <2>4, <2>5, <2>7
<1>4. \A k \in 1..n : SortedCopy(s)[k] \in R /\ OK(k, SortedCopy(s)[k])
  <2> HIDE DEF OK, R, n
  <2> QED BY <1>1, <1>3
<1>5. SortedCopy(s) \in Seq(0..M) /\ Len(SortedCopy(s)) = n
  <2> HIDE DEF OK, R, n
  <2>1. SortedCopy(s) \in [1..n -> 0..M]
    BY <1>1, <1>2, <1>4
  <2> QED BY <2>1, <1>2
<1> QED BY <1>4, <1>5

(* The copy is in order and holds each number as often as the list does    *)
(* (NewPosting in posting.go).                                             *)
LEMMA SortedCopySorts ==
    ASSUME NEW M \in Nat, NEW s \in Seq(0..M)
    PROVE  /\ \A k, l \in 1..Len(s) : k < l => SortedCopy(s)[k] <= SortedCopy(s)[l]
           /\ \A v \in 0..M : Cardinality({k \in 1..Len(s) : SortedCopy(s)[k] = v}) =
                                Cardinality({k \in 1..Len(s) : s[k] = v})
<1> DEFINE t == SortedCopy(s)
           n == Len(s)
           under(v) == Cardinality(Under(s, v))
           upTo(v) == Cardinality(UpTo(s, v))
<1>1. n \in Nat /\ \A k \in 1..n : t[k] \in 0..M /\ under(t[k]) < k /\ k <= upTo(t[k])
  BY SortedCopyRanks
<1>2. /\ \A v \in Int : under(v) \in Nat /\ upTo(v) \in Nat
      /\ \A v, w \in Int : v < w => upTo(v) <= under(w)
      /\ \A v \in Int : Cardinality({j \in 1..n : s[j] = v}) = upTo(v) - under(v)
      /\ \A v \in Int : upTo(v) <= n /\ under(v) <= upTo(v)
  BY Counts
<1> HIDE DEF t, under, upTo, n
<1>3. ASSUME NEW k \in 1..n, NEW l \in 1..n, k < l
      PROVE  t[k] <= t[l]
  <2> SUFFICES ASSUME t[l] < t[k] PROVE FALSE
    BY <1>1
  <2>1. t[k] \in Int /\ t[l] \in Int /\ under(t[k]) < k /\ l <= upTo(t[l])
    BY <1>1
  <2>2. upTo(t[l]) <= under(t[k]) /\ upTo(t[l]) \in Nat /\ under(t[k]) \in Nat
    BY <1>2, <2>1
  <2> QED BY <2>1, <2>2, <1>1, <1>3
<1>4. ASSUME NEW v \in 0..M
      PROVE  Cardinality({k \in 1..n : t[k] = v}) = upTo(v) - under(v)
  <2>1. {k \in 1..n : t[k] = v} = under(v) + 1 .. upTo(v)
    <3>1. under(v) \in Nat /\ upTo(v) \in Nat /\ upTo(v) <= n /\ v \in Int /\ n \in Nat
      <4>1. v \in Int
        OBVIOUS
      <4> QED BY <4>1, <1>1, <1>2
    <3>2. ASSUME NEW k \in 1..n, t[k] = v
          PROVE  k \in under(v) + 1 .. upTo(v)
      <4>1. under(v) < k /\ k <= upTo(v) /\ k \in Int
        BY <1>1, <3>2
      <4> QED BY <4>1, <3>1
    <3>3. ASSUME NEW k \in under(v) + 1 .. upTo(v)
          PROVE  k \in 1..n /\ t[k] = v
      <4>1. k \in 1..n /\ under(v) < k /\ k <= upTo(v)
        BY <3>1
      <4>2. t[k] \in Int /\ v \in Int /\ under(t[k]) < k /\ k <= upTo(t[k])
        BY <1>1, <4>1
      <4>3. under(t[k]) \in Nat /\ upTo(t[k]) \in Nat
        BY <1>2, <4>2
      <4>4. ~(t[k] < v)
        <5> SUFFICES ASSUME t[k] < v PROVE FALSE
          OBVIOUS
        <5>1. upTo(t[k]) <= under(v)
          BY <1>2, <4>2
        <5> QED BY <5>1, <4>1, <4>2, <4>3, <3>1
      <4>5. ~(v < t[k])
        <5> SUFFICES ASSUME v < t[k] PROVE FALSE
          OBVIOUS
        <5>1. upTo(v) <= under(t[k])
          BY <1>2, <4>2
        <5> QED BY <5>1, <4>1, <4>2, <4>3, <3>1
      <4> QED BY <4>1, <4>2, <4>4, <4>5
    <3> QED BY <3>2, <3>3
  <2>2. v \in Int /\ under(v) \in Nat /\ upTo(v) \in Nat /\ under(v) <= upTo(v)
    <3>1. v \in Int
      OBVIOUS
    <3> QED BY <1>2, <3>1
  <2>3. Cardinality(under(v) + 1 .. upTo(v)) = upTo(v) - under(v)
    BY <2>2, IntervalCount
  <2> QED BY <2>1, <2>3
<1>5. ASSUME NEW v \in 0..M
      PROVE  Cardinality({k \in 1..n : t[k] = v}) = Cardinality({k \in 1..n : s[k] = v})
  <2>1. v \in Int
    OBVIOUS
  <2> QED BY <2>1, <1>2, <1>4
<1> QED BY <1>3, <1>5 DEF t, n
-----------------------------------------------------------------------------
(* Sums.                                                                   *)

SumsTo(sum, d) == sum = [k \in 0..Len(d) |-> IF k = 0 THEN 0 ELSE (sum[k - 1] + d[k]) % W64]

(* The running sum of numbers, modulo W64, exists.                         *)
LEMMA SumIsRecursive ==
    ASSUME NEW d \in Seq(Int)
    PROVE  /\ SumsTo(SumTo(d), d)
           /\ SumTo(d)[0] = 0
           /\ \A k \in 1..Len(d) : SumTo(d)[k] = (SumTo(d)[k - 1] + d[k]) % W64
           /\ \A k \in 0..Len(d) : SumTo(d)[k] \in 0..W64 - 1
<1> DEFINE n == Len(d)
           V == 0..W64 - 1
           step == [k \in 1..n |-> [v \in V |-> (v + d[k]) % W64]]
<1>1. n \in Nat /\ W64 \in Nat /\ W64 > 0 /\ \A k \in 1..n : d[k] \in Int
  BY WidthsAssumption
<1>2. \A x \in Int : x % W64 \in V
  BY <1>1
<1>3. 0 \in V /\ step \in [1..n -> [V -> V]]
  <2>1. ASSUME NEW k \in 1..n, NEW v \in V
        PROVE  (v + d[k]) % W64 \in V
    <3>1. v + d[k] \in Int
      BY <1>1
    <3> HIDE DEF V
    <3> QED BY <3>1, <1>2
  <2>2. 0 \in V
    BY <1>1
  <2> HIDE DEF V, n
  <2> QED BY <2>1, <2>2
<1>4. PICK f \in [0..n -> V] : f[0] = 0 /\ \A k \in 1..n : f[k] = step[k][f[k - 1]]
  <2>1. Stepwise(n, V, 0, step)
    BY <1>1, <1>3 DEF Stepwise
  <2> HIDE DEF V, step, n
  <2>2. \E f : Follows(f, n, V, 0, step)
    BY <2>1, StepwiseFunction
  <2> QED BY <2>2 DEF Follows
<1>5. SumsTo(f, d)
  <2>1. ASSUME NEW k \in 0..n
        PROVE  f[k] = IF k = 0 THEN 0 ELSE (f[k - 1] + d[k]) % W64
    <3>1. CASE k = 0
      BY <3>1, <1>4
    <3>2. CASE k # 0
      <4>1. k \in 1..n /\ k - 1 \in 0..n
        BY <3>2, <1>1
      <4> HIDE DEF n, V
      <4>2. f[k - 1] \in V
        BY <4>1
      <4> QED BY <3>2, <4>1, <4>2, <1>4
    <3> QED BY <3>1, <3>2
  <2> HIDE DEF V
  <2> QED BY <2>1 DEF SumsTo
<1>6. SumsTo(SumTo(d), d)
  <2>1. SumTo(d) = CHOOSE sum : SumsTo(sum, d)
    BY DEF SumTo, SumsTo
  <2> QED BY <2>1, <1>5
<1> DEFINE g == SumTo(d)
<1>7. \A k \in 0..n : g[k] = IF k = 0 THEN 0 ELSE (g[k - 1] + d[k]) % W64
  <2> HIDE DEF g
  <2> QED BY <1>6 DEF SumsTo, g
<1>8. g[0] = 0 /\ \A k \in 1..n : g[k] = (g[k - 1] + d[k]) % W64
  <2> HIDE DEF g, n
  <2>1. 0 \in 0..n /\ \A k \in 1..n : k \in 0..n /\ k # 0
    BY <1>1
  <2> QED BY <2>1, <1>7
<1>9. \A k \in 0..n : g[k] \in V
  <2> DEFINE S == {k \in Nat : k <= n => g[k] \in V}
  <2>1. 0 \in S
    BY <1>3, <1>8
  <2>2. ASSUME NEW k \in S
        PROVE  k + 1 \in S
    <3>1. CASE k + 1 <= n
      <4>1. k \in Nat /\ g[k] \in V /\ k + 1 \in 1..n /\ (k + 1) - 1 = k
        BY <3>1, <1>1
      <4>2. g[k + 1] = (g[k] + d[k + 1]) % W64
        <5> HIDE DEF g, n
        <5> QED BY <4>1, <1>8
      <4>3. g[k] + d[k + 1] \in Int
        BY <4>1, <1>1
      <4>4. g[k + 1] \in V
        <5> HIDE DEF g, n, V
        <5> QED BY <4>2, <4>3, <1>2
      <4> HIDE DEF V, g, n
      <4> QED BY <4>1, <4>4, <1>1
    <3>2. CASE ~(k + 1 <= n)
      <4> HIDE DEF V, g
      <4> QED BY <3>2
    <3> QED BY <3>1, <3>2
  <2>3. S = Nat
    <3> HIDE DEF V, g, n
    <3>1. S \in SUBSET Nat
      OBVIOUS
    <3> HIDE DEF S
    <3> QED BY <2>1, <2>2, <3>1, NumberInduction
  <2> HIDE DEF V, g
  <2> QED BY <2>3, <1>1
<1> QED BY <1>1, <1>6, <1>8, <1>9
-----------------------------------------------------------------------------
(* The codec.                                                              *)

Ordered(t) == \A k, l \in 1..Len(t) : k < l => t[k] <= t[l]

(* The deltas of positions are numbers below W32.                          *)
LEMMA DeltasAreNumbers ==
    ASSUME NEW t \in Seq(0..W32 - 1)
    PROVE  Deltas(t) \in Seq(0..W32 - 1) /\ Deltas(t) \in Seq(Int) /\ Len(Deltas(t)) = Len(t)
<1> DEFINE n == Len(t)
<1>1. n \in Nat /\ W32 \in Nat /\ W32 > 0 /\ \A k \in 1..n : t[k] \in 0..W32 - 1 /\ t[k] \in Int
  BY WidthsAssumption
<1>2. \A x \in Int : x % W32 \in 0..W32 - 1
  BY <1>1
<1>3. ASSUME NEW k \in 1..n
      PROVE  (IF k = 1 THEN t[1] ELSE (t[k] - t[k - 1]) % W32) \in 0..W32 - 1
  <2>1. CASE k = 1
    BY <2>1, <1>1
  <2>2. CASE k # 1
    <3>1. k - 1 \in 1..n
      BY <2>2, <1>1
    <3>2. t[k] \in Int /\ t[k - 1] \in Int
      BY <3>1, <1>1
    <3>3. t[k] - t[k - 1] \in Int
      BY <3>2
    <3>4. (t[k] - t[k - 1]) % W32 \in 0..W32 - 1
      BY <3>3, <1>2
    <3> QED BY <2>2, <3>4
  <2> QED BY <2>1, <2>2
<1>4. Deltas(t) \in [1..n -> 0..W32 - 1]
  BY <1>3 DEF Deltas
<1> DEFINE V == 0..W32 - 1
           d == Deltas(t)
<1>5. V \subseteq Int /\ d \in [1..n -> V] /\ n \in Nat
  BY <1>1, <1>4
<1>6. d \in Seq(V) /\ d \in Seq(Int) /\ Len(d) = n
  <2> HIDE DEF V, d, n
  <2>1. d \in Seq(V) /\ Len(d) = n
    BY <1>5, SequenceOf
  <2>2. \A k \in 1..n : d[k] \in Int
    BY <1>5
  <2>3. d \in [1..n -> Int]
    BY <1>5, <2>2
  <2> QED BY <2>1, <2>3, <1>5, SequenceOf
<1> QED BY <1>6

(* The deltas of positions in order are their differences, and their sums  *)
(* the positions.                                                          *)
LEMMA DeltasSumUp ==
    ASSUME NEW t \in Seq(0..W32 - 1), Ordered(t)
    PROVE  \A k \in 1..Len(t) : SumTo(Deltas(t))[k] = t[k]
<1> DEFINE d == Deltas(t)
           n == Len(t)
           g == SumTo(d)
           S == {k \in Nat : k \in 1..n => g[k] = t[k]}
<1>1. /\ n \in Nat /\ W32 \in Nat /\ W64 \in Nat /\ W32 > 0 /\ W64 >= W32
      /\ \A k \in 1..n : t[k] \in 0..W32 - 1
  BY WidthsAssumption
<1>2. g[0] = 0 /\ \A k \in 1..n : g[k] = (g[k - 1] + d[k]) % W64
  <2>1. d \in Seq(Int) /\ Len(d) = n
    BY DeltasAreNumbers
  <2> HIDE DEF d
  <2> QED BY <2>1, SumIsRecursive
<1>3. \A x \in 0..W32 - 1 : x % W32 = x /\ x % W64 = x
  BY <1>1
<1>0. /\ \A k \in 1..n : d[k] = IF k = 1 THEN t[1] ELSE (t[k] - t[k - 1]) % W32
      /\ \A k, l \in 1..n : k < l => t[k] <= t[l]
  BY DEF Deltas, Ordered
<1> HIDE DEF g, d
<1>4. 0 \in S
  OBVIOUS
<1>5. ASSUME NEW k \in S
      PROVE  k + 1 \in S
  <2> SUFFICES ASSUME k + 1 \in 1..n PROVE g[k + 1] = t[k + 1]
    BY DEF S
  <2>0. k \in Nat /\ (k + 1) - 1 = k /\ t[k + 1] \in 0..W32 - 1
    BY <1>1
  <2>1. g[k + 1] = (g[k] + d[k + 1]) % W64
    BY <1>2, <2>0
  <2>2. CASE k = 0
    <3>1. d[k + 1] = t[k + 1] /\ g[k] = 0 /\ t[k + 1] \in Int
      BY <2>2, <2>0, <1>0, <1>2
    <3> QED BY <3>1, <2>0, <2>1, <1>3
  <2>3. CASE k # 0
    <3>1. k \in 1..n /\ k < k + 1 /\ k + 1 # 1
      BY <2>0, <2>3, <1>1
    <3>2. g[k] = t[k] /\ t[k] \in 0..W32 - 1 /\ t[k] <= t[k + 1]
      BY <3>1, <1>0, <1>1 DEF S
    <3>3. d[k + 1] = (t[k + 1] - t[k]) % W32
      BY <3>1, <2>0, <1>0
    <3>4. t[k + 1] - t[k] \in 0..W32 - 1
      <4> DEFINE a == t[k]
                 b == t[k + 1]
      <4>1. a \in 0..W32 - 1 /\ b \in 0..W32 - 1 /\ a <= b
        BY <3>2, <2>0
      <4> HIDE DEF a, b
      <4>2. b - a \in 0..W32 - 1
        BY <4>1, <1>1
      <4> QED BY <4>2 DEF a, b
    <3>5. g[k] + d[k + 1] = t[k + 1]
      BY <3>2, <3>3, <3>4, <2>0, <1>3
    <3> QED BY <3>5, <2>0, <2>1, <1>3
  <2> QED BY <2>2, <2>3
<1>6. S = Nat
  <2>1. S \in SUBSET Nat
    OBVIOUS
  <2> HIDE DEF S
  <2> QED BY <1>4, <1>5, <2>1, NumberInduction
<1> QED BY <1>1, <1>6 DEF g, d

-----------------------------------------------------------------------------
(* Varints.                                                                *)

(* From each argument that is no leaf the rule goes on to the next one, of *)
(* a smaller measure m.                                                    *)
Walks(D, V, m, N, leaf, base, next, step) ==
  /\ V # {} /\ N \in Nat
  /\ m \in [D -> Nat]
  /\ \A d \in D : m[d] < N
  /\ base \in [D -> V]
  /\ step \in [D -> [V -> V]]
  /\ \A d \in D \ leaf : next[d] \in D /\ m[next[d]] < m[d]

(* Such a rule defines a function.                                         *)
LEMMA WalkFunction ==
    ASSUME NEW D, NEW V, NEW m, NEW N, NEW leaf, NEW base, NEW next, NEW step,
           Walks(D, V, m, N, leaf, base, next, step)
    PROVE  \E f \in [D -> V] :
             \A d \in D : f[d] = IF d \in leaf THEN base[d] ELSE step[d][f[next[d]]]
<1> DEFINE at(d, f) == IF d \in leaf THEN base[d] ELSE step[d][f[next[d]]]
           G == [d \in D |-> [f \in [D -> V] |-> at(d, f)]]
<1>1. ASSUME NEW d \in D, NEW f \in [D -> V]
      PROVE  at(d, f) \in V
  BY DEF Walks
<1>2. ASSUME NEW d \in D, NEW f \in [D -> V], NEW g \in [D -> V],
             \A e \in D : m[e] < m[d] => f[e] = g[e]
      PROVE  at(d, f) = at(d, g)
  BY <1>2 DEF Walks
<1>3. /\ G \in [D -> [[D -> V] -> V]]
      /\ \A d \in D : \A f \in [D -> V] : G[d][f] = at(d, f)
  <2> HIDE DEF at
  <2> QED BY <1>1
<1>4. Descends(G, D, V, m, N)
  <2> HIDE DEF at, G
  <2>1. ASSUME NEW d \in D, NEW f \in [D -> V], NEW g \in [D -> V],
               \A e \in D : m[e] < m[d] => f[e] = g[e]
        PROVE  G[d][f] = G[d][g]
    <3>1. at(d, f) = at(d, g)
      BY <1>2, <2>1
    <3> QED BY <1>3, <3>1
  <2> QED BY <1>3, <2>1 DEF Descends, Walks
<1>5. PICK f \in [D -> V] : \A d \in D : f[d] = G[d][f]
  <2> HIDE DEF at, G
  <2> QED BY <1>4, Recursion
<1> QED BY <1>3, <1>5

(* Division with remainder by the base of varints.                         *)
LEMMA DigitsOf ==
    ASSUME NEW v \in Nat
    PROVE  /\ v \div VarintBase \in Nat /\ (v % VarintBase) \in 0..VarintBase - 1
           /\ v = VarintBase * (v \div VarintBase) + (v % VarintBase)
           /\ v >= VarintBase => v \div VarintBase < v /\ v \div VarintBase > 0
<1> DEFINE B == VarintBase
           q == v \div B
           r == v % B
<1>1. B \in Nat /\ B >= 2
  BY VarintsAssumption
<1>2. q \in Int /\ r \in 0..B - 1
  <2> HIDE DEF B
  <2> QED BY <1>1
<1>3. v = B * q + r
  <2> HIDE DEF B
  <2> QED BY <1>1
<1> HIDE DEF B, q, r
<1>4. q >= 0
  <2> SUFFICES ASSUME q <= -1 PROVE FALSE
    BY <1>2
  <2>1. B * q <= -B
    BY <1>1, <1>2
  <2> QED BY <2>1, <1>1, <1>2, <1>3
<1>5. ASSUME v >= B
      PROVE  q > 0 /\ q < v
  <2>1. q # 0
    BY <1>1, <1>2, <1>3, <1>5
  <2>2. B * q >= 2 * q /\ B * q \in Int
    BY <1>1, <1>2, <1>4
  <2>3. v >= 2 * q
    BY <2>2, <1>2, <1>3
  <2> QED BY <2>1, <2>3, <1>2, <1>4
<1> QED BY <1>1, <1>2, <1>3, <1>4, <1>5 DEF B, q, r

(* A number is recovered from its quotient and its remainder.              *)
LEMMA DigitsBack ==
    ASSUME NEW d \in 0..VarintBase - 1, NEW w \in Nat
    PROVE  /\ (d + VarintBase * w) % VarintBase = d
           /\ (d + VarintBase * w) \div VarintBase = w
           /\ d + VarintBase * w \in Nat
<1> DEFINE B == VarintBase
           v == d + B * w
           q == v \div B
           r == v % B
<1>1. B \in Nat /\ B >= 2
  BY VarintsAssumption
<1>2. v \in Nat
  <2>1. B * w \in Nat
    BY <1>1
  <2> QED BY <2>1, <1>1
<1>3. q \in Nat /\ r \in 0..B - 1 /\ v = B * q + r
  <2> HIDE DEF v
  <2> QED BY <1>2, DigitsOf DEF B
<1>4. v = B * w + d /\ d \in 0..B - 1 /\ w \in Nat
  <2>1. B * w \in Nat
    BY <1>1
  <2> QED BY <2>1, <1>1
<1> HIDE DEF B, q, r, v
<1>5. q = w
  <2>1. B * q + r = B * w + d
    BY <1>3, <1>4
  <2>2. ASSUME NEW a \in Nat, NEW b \in Nat, a < b
        PROVE  B * a + B <= B * b
    <3>1. B * (b - a) >= B
      BY <1>1, <2>2
    <3>2. B * (b - a) = B * b - B * a
      BY <1>1
    <3>3. B * a \in Int /\ B * b \in Int
      BY <1>1
    <3> QED BY <3>1, <3>2, <3>3, <1>1
  <2>3. B * q \in Int /\ B * w \in Int
    BY <1>1, <1>3, <1>4
  <2>4. ~(q < w)
    <3> SUFFICES ASSUME q < w PROVE FALSE
      OBVIOUS
    <3>1. B * q + B <= B * w
      BY <2>2, <1>3, <1>4
    <3> DEFINE x == B * q
               y == B * w
    <3> HIDE DEF x, y
    <3> QED BY <3>1, <2>1, <2>3, <1>1, <1>3, <1>4 DEF x, y
  <2>5. ~(w < q)
    <3> SUFFICES ASSUME w < q PROVE FALSE
      OBVIOUS
    <3>1. B * w + B <= B * q
      BY <2>2, <1>3, <1>4
    <3> QED BY <3>1, <2>1, <2>3, <1>1, <1>3, <1>4
  <2> QED BY <2>4, <2>5, <1>3, <1>4
<1>6. r = d
  BY <1>1, <1>3, <1>4, <1>5
<1> QED BY <1>2, <1>5, <1>6 DEF B, q, r, v

-----------------------------------------------------------------------------
(* Writing a number.                                                       *)

PutsNumbers(put) ==
  put = [v \in 0..W64 - 1 |->
           IF v < VarintBase THEN <<v>>
           ELSE <<VarintBase + (v % VarintBase)>> \o put[v \div VarintBase]]

(* The varint of a number is its only byte, or its lowest digit before the *)
(* varint of the other digits.                                             *)
LEMMA UvarintIs ==
  /\ Uvarint \in [0..W64 - 1 -> Seq(ByteValues)]
  /\ \A v \in 0..W64 - 1 :
       /\ v < VarintBase => Uvarint[v] = <<v>>
       /\ v >= VarintBase =>
            /\ v \div VarintBase \in 0..W64 - 1
            /\ Uvarint[v] = <<VarintBase + (v % VarintBase)>> \o Uvarint[v \div VarintBase]
<1> DEFINE B == VarintBase
           D == 0..W64 - 1
           V == Seq(ByteValues)
           m == [v \in D |-> v]
           leaf == {v \in D : v < B}
           base == [v \in D |-> IF v < B THEN <<v>> ELSE <<>>]
           next == [v \in D |-> v \div B]
           step == [v \in D |-> [s \in V |-> <<B + (v % B)>> \o s]]
<1>1. B \in Nat /\ B >= 2 /\ W64 \in Nat /\ W64 > 0
  BY WidthsAssumption, VarintsAssumption
<1>2. ByteValues = 0..2 * B - 1
  BY DEF ByteValues
<1>3. base \in [D -> V]
  <2>1. ASSUME NEW v \in D, v < B
        PROVE  <<v>> \in V
    <3>1. v \in ByteValues
      BY <2>1, <1>1, <1>2
    <3> HIDE DEF D
    <3> QED BY <3>1
  <2>2. <<>> \in V
    OBVIOUS
  <2> HIDE DEF V, D
  <2> QED BY <2>1, <2>2
<1>4. step \in [D -> [V -> V]]
  <2>1. ASSUME NEW v \in D, NEW s \in V
        PROVE  <<B + (v % B)>> \o s \in V
    <3>1. v \in Nat
      BY <1>1
    <3>2. (v % B) \in 0..B - 1
      BY <3>1, DigitsOf
    <3>3. B + (v % B) \in ByteValues
      <4> DEFINE r == v % B
      <4>1. r \in 0..B - 1
        BY <3>2
      <4> HIDE DEF r
      <4>2. B + r \in 0..2 * B - 1
        BY <4>1, <1>1
      <4> QED BY <4>2, <1>2 DEF r
    <3> DEFINE b == B + (v % B)
    <3> HIDE DEF b, D
    <3> QED BY <3>3 DEF b
  <2> HIDE DEF V, D
  <2> QED BY <2>1
<1>5. ASSUME NEW v \in D, ~(v < B)
      PROVE  v \div B \in D /\ v \div B < v
  <2>0. v >= B
    BY <1>1, <1>5
  <2>1. v \in Nat /\ v \div B \in Nat /\ v \div B < v
    <3>1. v \in Nat
      BY <1>1
    <3> QED BY <2>0, <3>1, DigitsOf
  <2> DEFINE q == v \div B
  <2> HIDE DEF q
  <2> QED BY <2>1, <1>1 DEF q
<1>6. Walks(D, V, m, W64, leaf, base, next, step)
  <2>1. \A v \in D \ leaf : next[v] \in D /\ m[next[v]] < m[v]
    <3> SUFFICES ASSUME NEW v \in D, ~(v < B) PROVE next[v] \in D /\ m[next[v]] < m[v]
      OBVIOUS
    <3>1. v \div B \in D /\ v \div B < v
      BY <1>5
    <3> HIDE DEF D
    <3> QED BY <3>1
  <2>2. m \in [D -> Nat] /\ \A d \in D : m[d] < W64
    BY <1>1
  <2>3. V # {}
    <3>1. <<>> \in V
      OBVIOUS
    <3> HIDE DEF V
    <3> QED BY <3>1
  <2> HIDE DEF D, V, m, leaf, base, next, step
  <2> QED BY <2>1, <2>2, <2>3, <1>1, <1>3, <1>4 DEF Walks
<1>7. PICK f \in [D -> V] : \A d \in D : f[d] = IF d \in leaf THEN base[d] ELSE step[d][f[next[d]]]
  <2> HIDE DEF D, V, m, leaf, base, next, step
  <2> QED BY <1>6, WalkFunction
<1>8. PutsNumbers(f)
  <2>1. ASSUME NEW v \in D
        PROVE  f[v] = IF v < B THEN <<v>> ELSE <<B + (v % B)>> \o f[v \div B]
    <3>1. CASE v < B
      <4> HIDE DEF D, V
      <4> QED BY <3>1, <1>7
    <3>2. CASE ~(v < B)
      <4>1. v \div B \in D
        BY <3>2, <1>5
      <4>2. f[v \div B] \in V
        <5> HIDE DEF D, V
        <5> QED BY <4>1, <1>7
      <4> HIDE DEF D, V
      <4> QED BY <3>2, <4>2, <1>7
    <3> QED BY <3>1, <3>2
  <2> HIDE DEF V
  <2> QED BY <2>1 DEF PutsNumbers
<1>9. PutsNumbers(Uvarint)
  <2>1. Uvarint = CHOOSE put : PutsNumbers(put)
    BY DEF Uvarint, PutsNumbers
  <2> QED BY <2>1, <1>8
<1>10. /\ DOMAIN Uvarint = D
       /\ \A v \in D : Uvarint[v] = IF v < B THEN <<v>> ELSE <<B + (v % B)>> \o Uvarint[v \div B]
  <2> DEFINE put == Uvarint
  <2>1. PutsNumbers(put)
    BY <1>9
  <2> HIDE DEF put
  <2>2. /\ DOMAIN put = D
        /\ \A v \in D : put[v] = IF v < B THEN <<v>> ELSE <<B + (v % B)>> \o put[v \div B]
    <3> DEFINE F(v) == IF v < B THEN <<v>> ELSE <<B + (v % B)>> \o put[v \div B]
    <3>1. put = [v \in D |-> F(v)]
      BY <2>1 DEF PutsNumbers
    <3> HIDE DEF F
    <3>2. DOMAIN put = D /\ \A v \in D : put[v] = F(v)
      BY <3>1
    <3> QED BY <3>2 DEF F
  <2> QED BY <2>2 DEF put
<1> DEFINE S == {v \in D : Uvarint[v] \in V}
<1>11. ASSUME NEW d \in D, \A e \in D : m[e] < m[d] => e \in S
       PROVE  d \in S
  <2>1. CASE d < B
    <3>1. Uvarint[d] = base[d]
      <4> HIDE DEF D, V
      <4> QED BY <2>1, <1>10
    <3>2. base[d] \in V
      <4> HIDE DEF D, V, base
      <4> QED BY <1>3
    <3> HIDE DEF D, V
    <3> QED BY <3>1, <3>2
  <2>2. CASE ~(d < B)
    <3>1. d \div B \in D /\ d \div B < d
      BY <2>2, <1>5
    <3> DEFINE q == d \div B
               s == Uvarint[q]
    <3>2. s \in V
      <4> HIDE DEF D, V
      <4> QED BY <3>1, <1>11
    <3>3. Uvarint[d] = step[d][s]
      <4> HIDE DEF D, V
      <4> QED BY <3>2, <2>2, <1>10
    <3>4. step[d][s] \in V
      <4> HIDE DEF D, V, step, s
      <4> QED BY <3>2, <1>4
    <3> HIDE DEF D, V, step
    <3> QED BY <3>3, <3>4
  <2> QED BY <2>1, <2>2
<1>12. D \subseteq S
  <2>1. \A d \in D : m[d] \in Nat
    BY <1>1
  <2> HIDE DEF D, S, m
  <2> QED BY <2>1, <1>11, MeasureInduction
<1>13. Uvarint \in [D -> V]
  <2> DEFINE put == Uvarint
  <2>1. DOMAIN put = D /\ \A d \in D : put[d] \in V
    <3> HIDE DEF D, V
    <3> QED BY <1>10, <1>12
  <2>2. PutsNumbers(put)
    BY <1>9
  <2>3. put = [d \in D |-> put[d]]
    <3> HIDE DEF V, put
    <3> QED BY <2>1, <2>2 DEF PutsNumbers
  <2> HIDE DEF put, D, V
  <2>4. put \in [D -> V]
    BY <2>1, <2>3
  <2> QED BY <2>4 DEF put
<1> QED
  <2>1. ASSUME NEW v \in D
        PROVE  /\ v < B => Uvarint[v] = <<v>>
               /\ v >= B =>
                    /\ v \div B \in D
                    /\ Uvarint[v] = <<B + (v % B)>> \o Uvarint[v \div B]
    <3>1. v >= B => ~(v < B)
      BY <1>1
    <3>2. ~(v < B) => v \div B \in D
      BY <1>5
    <3> HIDE DEF D, V
    <3> QED BY <3>1, <3>2, <1>10
  <2> QED BY <2>1, <1>13

-----------------------------------------------------------------------------
(* How long a varint is.                                                   *)

IsPowers(power) ==
  power = [n \in 0..MaxVarintLen |-> IF n = 0 THEN 1 ELSE VarintBase * power[n - 1]]

(* The powers of the base are positive and grow.                           *)
LEMMA PowersAre ==
  /\ Power[0] = 1
  /\ \A n \in 0..MaxVarintLen - 1 : Power[n + 1] = VarintBase * Power[n]
  /\ \A n \in 0..MaxVarintLen : Power[n] \in Nat /\ Power[n] >= 1
  /\ \A k, n \in 0..MaxVarintLen : k <= n => Power[k] <= Power[n]
<1> DEFINE B == VarintBase
           M == MaxVarintLen
           D == 0..M
           leaf == {0}
           m == [n \in D |-> n]
           base == [n \in D |-> 1]
           next == [n \in D |-> n - 1]
           step == [n \in D |-> [w \in Nat |-> B * w]]
<1>1. B \in Nat /\ B >= 2 /\ M \in Nat /\ M >= 2
  BY VarintsAssumption
<1>2. Walks(D, Nat, m, M + 1, leaf, base, next, step)
  <2>1. \A n \in D \ leaf : next[n] \in D /\ m[next[n]] < m[n]
    BY <1>1
  <2>2. m \in [D -> Nat] /\ \A n \in D : m[n] < M + 1
    BY <1>1
  <2>3. step \in [D -> [Nat -> Nat]]
    <3>1. \A w \in Nat : B * w \in Nat
      BY <1>1
    <3> HIDE DEF B, D
    <3> QED BY <3>1
  <2>4. base \in [D -> Nat] /\ Nat # {} /\ M + 1 \in Nat
    BY <1>1
  <2> HIDE DEF D, m, leaf, base, next, step
  <2> QED BY <2>1, <2>2, <2>3, <2>4 DEF Walks
<1>3. PICK f \in [D -> Nat] : \A n \in D : f[n] = IF n \in leaf THEN base[n] ELSE step[n][f[next[n]]]
  <2> HIDE DEF D, m, leaf, base, next, step
  <2> QED BY <1>2, WalkFunction
<1>4. IsPowers(f)
  <2>1. ASSUME NEW n \in D
        PROVE  f[n] = IF n = 0 THEN 1 ELSE B * f[n - 1]
    <3>1. n # 0 => n - 1 \in D
      BY <1>1
    <3> HIDE DEF D, B
    <3> QED BY <3>1, <1>3
  <2> QED BY <2>1 DEF IsPowers
<1>5. IsPowers(Power)
  <2>1. Power = CHOOSE power : IsPowers(power)
    BY DEF Power, IsPowers
  <2> QED BY <2>1, <1>4
<1>6. \A n \in D : Power[n] = IF n = 0 THEN 1 ELSE B * Power[n - 1]
  <2> DEFINE p == Power
  <2>1. IsPowers(p)
    BY <1>5
  <2> HIDE DEF p
  <2>2. \A n \in D : p[n] = IF n = 0 THEN 1 ELSE B * p[n - 1]
    <3> DEFINE F(n) == IF n = 0 THEN 1 ELSE B * p[n - 1]
    <3>1. p = [n \in D |-> F(n)]
      BY <2>1 DEF IsPowers
    <3> HIDE DEF F
    <3>2. \A n \in D : p[n] = F(n)
      BY <3>1
    <3> QED BY <3>2 DEF F
  <2> QED BY <2>2 DEF p
<1>7. Power[0] = 1
  BY <1>1, <1>6
<1>8. ASSUME NEW n \in 0..M - 1
      PROVE  Power[n + 1] = B * Power[n]
  <2>1. n + 1 \in D /\ n + 1 # 0 /\ (n + 1) - 1 = n
    BY <1>1
  <2> QED BY <2>1, <1>6
<1> DEFINE S == {n \in Nat : n <= M => /\ Power[n] \in Nat /\ Power[n] >= 1
                                       /\ \A k \in 0..n : Power[k] \in Nat /\ Power[k] <= Power[n]}
<1>9. 0 \in S
  BY <1>7
<1>10. ASSUME NEW n \in S
       PROVE  n + 1 \in S
  <2> SUFFICES ASSUME n + 1 <= M
               PROVE  /\ Power[n + 1] \in Nat /\ Power[n + 1] >= 1
                      /\ \A k \in 0..n + 1 : Power[k] \in Nat /\ Power[k] <= Power[n + 1]
    OBVIOUS
  <2>1. n \in 0..M - 1 /\ n \in Nat
    BY <1>1
  <2> DEFINE w == Power[n]
             x == Power[n + 1]
  <2>2. w \in Nat /\ w >= 1 /\ \A k \in 0..n : Power[k] \in Nat /\ Power[k] <= w
    BY <2>1, <1>1
  <2>3. x = B * w
    BY <2>1, <1>8
  <2> HIDE DEF w, x, B
  <2>4. x \in Nat /\ x >= w
    BY <2>2, <2>3, <1>1
  <2>5. ASSUME NEW k \in 0..n + 1
        PROVE  Power[k] \in Nat /\ Power[k] <= x
    <3>1. CASE k = n + 1
      BY <3>1, <2>4 DEF x
    <3>2. CASE k # n + 1
      <4>1. k \in 0..n
        BY <3>2, <2>1
      <4>2. Power[k] \in Nat /\ Power[k] <= w
        BY <4>1, <2>2
      <4> QED BY <4>1, <4>2, <2>2, <2>4
    <3> QED BY <3>1, <3>2
  <2> QED BY <2>2, <2>4, <2>5 DEF x
<1>11. S = Nat
  <2>1. S \in SUBSET Nat
    OBVIOUS
  <2> HIDE DEF S
  <2> QED BY <2>1, <1>9, <1>10, NumberInduction
<1>12. \A n \in D : n \in S /\ n <= M
  BY <1>1, <1>11
<1>13. \A n \in D : Power[n] \in Nat /\ Power[n] >= 1 /\ \A k \in 0..n : Power[k] <= Power[n]
  BY <1>12
<1>14. \A k, n \in D : k <= n => k \in 0..n
  BY <1>1
<1> QED BY <1>7, <1>8, <1>13, <1>14

(* The order of factors.                                                   *)
LEMMA FactorsSwap ==
    ASSUME NEW a \in Nat, NEW b \in Nat, NEW c \in Nat
    PROVE  a * b \in Nat /\ a * (b * c) = b * (a * c)
OBVIOUS

(* A sequence with an element put in front.                                *)
LEMMA PutInFront ==
    ASSUME NEW V, NEW b \in V, NEW s \in Seq(V)
    PROVE  /\ <<b>> \o s \in Seq(V)
           /\ Len(<<b>> \o s) = Len(s) + 1
           /\ (<<b>> \o s)[1] = b
           /\ \A k \in 1..Len(s) : (<<b>> \o s)[k + 1] = s[k]
           /\ Len(s) \in Nat
OBVIOUS

(* A number below c times the n-th power has at most n + 1 digits, and in  *)
(* the n + 1st place one below c; so every uint64 has a varint that fits.  *)
LEMMA DigitsFit ==
    ASSUME NEW c \in 1..VarintBase, NEW n \in 0..MaxVarintLen - 1, NEW v \in 0..W64 - 1,
           v < c * Power[n]
    PROVE  /\ Len(Uvarint[v]) <= n + 1
           /\ Len(Uvarint[v]) = n + 1 => Uvarint[v][n + 1] < c
<1> DEFINE B == VarintBase
           U(x) == Uvarint[x]
           Fits(k, x) == Len(U(x)) <= k + 1 /\ (Len(U(x)) = k + 1 => U(x)[k + 1] < c)
           S == {k \in Nat : k <= MaxVarintLen - 1 =>
                   \A x \in 0..W64 - 1 : x < c * Power[k] => Fits(k, x)}
<1>1. B \in Nat /\ B >= 2 /\ MaxVarintLen \in Nat /\ MaxVarintLen >= 2 /\ W64 \in Nat
  BY VarintsAssumption, WidthsAssumption
<1>2. c \in Nat /\ c >= 1 /\ c <= B
  BY <1>1
<1>3. 0 \in S
  <2> SUFFICES ASSUME NEW x \in 0..W64 - 1, x < c * Power[0] PROVE Fits(0, x)
    OBVIOUS
  <2>1. c * Power[0] = c
    BY <1>2, PowersAre
  <2>2. x < B /\ x < c
    BY <2>1, <1>2, <1>1
  <2>3. U(x) = <<x>>
    BY <2>2, UvarintIs
  <2> HIDE DEF U
  <2> QED BY <2>2, <2>3
<1>4. ASSUME NEW k \in S
      PROVE  k + 1 \in S
  <2> SUFFICES ASSUME k + 1 <= MaxVarintLen - 1,
                      NEW x \in 0..W64 - 1, x < c * Power[k + 1]
               PROVE  Fits(k + 1, x)
    OBVIOUS
  <2>0. k \in Nat /\ k <= MaxVarintLen - 1 /\ k \in 0..MaxVarintLen - 1 /\ k \in 0..MaxVarintLen
    BY <1>1
  <2>1. \A y \in 0..W64 - 1 : y < c * Power[k] => Fits(k, y)
    BY <2>0
  <2>2. CASE x < B
    <3>1. U(x) = <<x>>
      BY <2>2, UvarintIs
    <3>2. Len(U(x)) = 1
      BY <3>1
    <3> HIDE DEF U
    <3> QED BY <3>2, <2>0
  <2>3. CASE ~(x < B)
    <3> DEFINE q == x \div B
               r == x % B
               P == Power[k]
    <3>1. x >= B /\ x \in Nat
      BY <2>3, <1>1
    <3>2. q \in 0..W64 - 1 /\ U(x) = <<B + r>> \o U(q)
      BY <3>1, UvarintIs
    <3>3. q \in Nat /\ r \in 0..B - 1 /\ x = B * q + r
      <4> HIDE DEF U
      <4> QED BY <3>1, DigitsOf
    <3>4. P \in Nat /\ Power[k + 1] = B * P
      BY <2>0, <1>1, PowersAre
    <3>5. q < c * P
      <4>1. x < c * (B * P)
        BY <3>4
      <4>2. c * P \in Nat /\ c * (B * P) = B * (c * P)
        <5> HIDE DEF B, P
        <5> QED BY <1>1, <1>2, <3>4, FactorsSwap
      <4> DEFINE y == c * P
      <4>3. y \in Nat /\ B * q + r < B * y
        BY <4>1, <4>2, <3>3
      <4> HIDE DEF y, B, q, r, P, U
      <4>4. ~(y <= q)
        <5> SUFFICES ASSUME y <= q PROVE FALSE
          OBVIOUS
        <5>1. B * y <= B * q /\ B * y \in Nat /\ B * q \in Nat
          BY <1>1, <3>3, <4>3
        <5> QED BY <5>1, <4>3, <3>3, <1>1
      <4> QED BY <4>3, <4>4, <3>3 DEF y
    <3>6. Fits(k, q)
      <4> HIDE DEF q, P, U, Fits
      <4> QED BY <3>2, <3>5, <2>1 DEF P
    <3>7. U(q) \in Seq(ByteValues)
      <4> HIDE DEF q
      <4> QED BY <3>2, UvarintIs
    <3> HIDE DEF q, r, U, P
    <3>8. Len(U(x)) = Len(U(q)) + 1 /\ \A l \in 1..Len(U(q)) : U(x)[l + 1] = U(q)[l]
      <4>1. B + r \in ByteValues
        BY <3>3, <1>1 DEF ByteValues
      <4> HIDE DEF B
      <4> QED BY <3>2, <3>7, <4>1, PutInFront
    <3>9. Len(U(q)) \in Nat
      BY <3>7
    <3>10. CASE Len(U(q)) = k + 1
      <4>1. U(x)[k + 2] = U(q)[k + 1] /\ U(q)[k + 1] < c
        <5>1. k + 1 \in 1..Len(U(q)) /\ (k + 1) + 1 = k + 2
          BY <3>10, <2>0
        <5> QED BY <5>1, <3>8, <3>6, <3>10
      <4> QED BY <4>1, <3>8, <3>10, <2>0
    <3>11. CASE Len(U(q)) # k + 1
      BY <3>11, <3>6, <3>8, <3>9, <2>0
    <3> QED BY <3>10, <3>11
  <2> QED BY <2>2, <2>3
<1>5. S = Nat
  <2>1. S \in SUBSET Nat
    OBVIOUS
  <2> HIDE DEF S
  <2> QED BY <2>1, <1>3, <1>4, NumberInduction
<1>6. n \in S /\ n <= MaxVarintLen - 1
  BY <1>1, <1>5
<1> QED BY <1>6

-----------------------------------------------------------------------------
(* Reading a number.                                                       *)

DigitsFrom(data, last, value, j) ==
  IF j = last THEN data[j] ELSE data[j] - VarintBase + VarintBase * value[j + 1]
IsValues(value, data, last) == value = [j \in 1..last |-> DigitsFrom(data, last, value, j)]
ValuesOf(data, last) == CHOOSE value : IsValues(value, data, last)

(* The value of a varint is the one of its bytes from the last one back.   *)
LEMMA ValueOfVarint ==
    ASSUME NEW data, NEW i
    PROVE  VarintValue(data, i) = ValuesOf(data, i + VarintLength(data, i) - 1)[i]
BY DEF VarintValue, ValuesOf, IsValues, DigitsFrom

(* The numbers that the bytes up to a last one stand for.                  *)
LEMMA ValuesAre ==
    ASSUME NEW data \in Seq(ByteValues), NEW last \in 1..Len(data)
    PROVE  /\ \A j \in 1..last : ValuesOf(data, last)[j] \in Int
           /\ ValuesOf(data, last)[last] = data[last]
           /\ \A j \in 1..last - 1 : ValuesOf(data, last)[j] =
                data[j] - VarintBase + VarintBase * ValuesOf(data, last)[j + 1]
<1> DEFINE B == VarintBase
           D == 1..last
           leaf == {last}
           m == [j \in D |-> last - j]
           base == [j \in D |-> data[j]]
           next == [j \in D |-> j + 1]
           step == [j \in D |-> [w \in Int |-> data[j] - B + B * w]]
<1>1. B \in Nat /\ B >= 2 /\ last \in Nat /\ last >= 1
  BY VarintsAssumption
<1>2. \A j \in D : data[j] \in Int
  <2>1. D \subseteq 1..Len(data)
    BY <1>1
  <2>2. ByteValues \subseteq Int
    BY <1>1 DEF ByteValues
  <2>3. \A j \in 1..Len(data) : data[j] \in ByteValues
    OBVIOUS
  <2> HIDE DEF D
  <2> QED BY <2>1, <2>2, <2>3
<1>3. Walks(D, Int, m, last, leaf, base, next, step)
  <2>1. \A j \in D \ leaf : next[j] \in D /\ m[next[j]] < m[j]
    BY <1>1
  <2>2. m \in [D -> Nat] /\ \A d \in D : m[d] < last
    BY <1>1
  <2>3. step \in [D -> [Int -> Int]]
    <3>1. ASSUME NEW a \in Int, NEW w \in Int
          PROVE  a - B + B * w \in Int
      BY <1>1
    <3> HIDE DEF B, D
    <3> QED BY <1>2, <3>1
  <2>4. base \in [D -> Int]
    <3> HIDE DEF D
    <3> QED BY <1>2
  <2> HIDE DEF D, m, leaf, base, next, step
  <2>5. Int # {}
    <3>1. 0 \in Int
      OBVIOUS
    <3> QED BY <3>1, Zenon
  <2> QED BY <2>1, <2>2, <2>3, <2>4, <2>5, <1>1 DEF Walks
<1>4. PICK f \in [D -> Int] : \A j \in D : f[j] = IF j \in leaf THEN base[j] ELSE step[j][f[next[j]]]
  <2> HIDE DEF D, m, leaf, base, next, step
  <2> QED BY <1>3, WalkFunction
<1>5. IsValues(f, data, last)
  <2>1. ASSUME NEW j \in D
        PROVE  f[j] = DigitsFrom(data, last, f, j)
    <3>1. j # last => j + 1 \in D
      BY <1>1
    <3> HIDE DEF D, B
    <3> QED BY <3>1, <1>4 DEF DigitsFrom, B
  <2> QED BY <2>1 DEF IsValues
<1> DEFINE g == ValuesOf(data, last)
<1>6. IsValues(g, data, last)
  BY <1>5 DEF ValuesOf
<1>7. \A j \in D : g[j] = DigitsFrom(data, last, g, j)
  <2> HIDE DEF g
  <2> QED BY <1>6 DEF IsValues
<1> HIDE DEF g
<1>8. g[last] = data[last]
  BY <1>1, <1>7 DEF DigitsFrom
<1>9. \A j \in 1..last - 1 : j \in D /\ j # last /\ g[j] = data[j] - B + B * g[j + 1]
  BY <1>1, <1>7 DEF DigitsFrom
<1> DEFINE S == {k \in Nat : k < last => g[last - k] \in Int}
<1>10. 0 \in S
  BY <1>1, <1>2, <1>8
<1>11. ASSUME NEW k \in S
       PROVE  k + 1 \in S
  <2> SUFFICES ASSUME k + 1 < last PROVE g[last - (k + 1)] \in Int
    OBVIOUS
  <2> DEFINE j == last - (k + 1)
  <2>1. j \in 1..last - 1 /\ j + 1 = last - k /\ k < last
    BY <1>1
  <2>2. g[j + 1] \in Int /\ data[j] \in Int
    BY <2>1, <1>2, <1>9
  <2> HIDE DEF j
  <2>3. g[j] = data[j] - B + B * g[j + 1]
    BY <2>1, <1>9
  <2> DEFINE x == g[j + 1]
             y == data[j]
  <2>4. y - B + B * x \in Int
    <3>1. x \in Int /\ y \in Int
      BY <2>2
    <3>2. B * x \in Int
      <4> HIDE DEF x, B
      <4> QED BY <3>1, <1>1
    <3> DEFINE z == B * x
    <3> HIDE DEF z, y, B
    <3> QED BY <3>1, <3>2, <1>1 DEF z
  <2> HIDE DEF x, y, B
  <2> QED BY <2>3, <2>4 DEF x, y, j
<1>12. S = Nat
  <2>1. S \in SUBSET Nat
    OBVIOUS
  <2> HIDE DEF S
  <2> QED BY <2>1, <1>10, <1>11, NumberInduction
<1>13. ASSUME NEW j \in D
       PROVE  g[j] \in Int
  <2>1. last - j \in Nat /\ last - j < last /\ last - (last - j) = j
    BY <1>1
  <2>2. last - j \in S
    <3> HIDE DEF S
    <3> QED BY <2>1, <1>12
  <2> QED BY <2>1, <2>2
<1> QED BY <1>8, <1>9, <1>13 DEF g

(* A varint has one length.                                                *)
LEMMA LengthIs ==
    ASSUME NEW data \in Seq(ByteValues), NEW i \in Nat \ {0}, NEW n \in 1..MaxVarintLen,
           IsVarint(data, i, n)
    PROVE  VarintLength(data, i) = n
<1>1. MaxVarintLen \in Nat /\ VarintBase \in Nat
  BY VarintsAssumption
<1>2. \A j \in 1..Len(data) : data[j] \in Nat
  BY <1>1 DEF ByteValues
<1>3. ASSUME NEW k \in 1..MaxVarintLen, NEW l \in 1..MaxVarintLen, k < l,
             IsVarint(data, i, k), IsVarint(data, i, l)
      PROVE  FALSE
  <2>1. i + k - 1 \in i..i + l - 2 /\ i + k - 1 \in 1..Len(data)
    BY <1>1, <1>3 DEF IsVarint
  <2>2. data[i + k - 1] < VarintBase /\ data[i + k - 1] >= VarintBase
    BY <2>1, <1>3 DEF IsVarint
  <2> DEFINE x == data[i + k - 1]
  <2>3. x \in Nat /\ x < VarintBase /\ x >= VarintBase
    BY <2>1, <2>2, <1>2
  <2> HIDE DEF x
  <2> QED BY <2>3, <1>1
<1>4. ASSUME NEW k \in 1..MaxVarintLen, IsVarint(data, i, k)
      PROVE  k = n
  <2>1. ~(k < n)
    BY <1>3, <1>4
  <2>2. ~(n < k)
    BY <1>3, <1>4
  <2> QED BY <2>1, <2>2, <1>1
<1> DEFINE c == CHOOSE k \in 1..MaxVarintLen : IsVarint(data, i, k)
<1>5. c \in 1..MaxVarintLen /\ IsVarint(data, i, c)
  OBVIOUS
<1>6. VarintLength(data, i) = c
  BY DEF VarintLength
<1> HIDE DEF c
<1> QED BY <1>4, <1>5, <1>6

(* VarintLength is 0, or the length of a varint.                           *)
LEMMA LengthMeans ==
    ASSUME NEW data, NEW i
    PROVE  \/ VarintLength(data, i) = 0 /\ \A n \in 1..MaxVarintLen : ~IsVarint(data, i, n)
           \/ /\ VarintLength(data, i) \in 1..MaxVarintLen
              /\ IsVarint(data, i, VarintLength(data, i))
BY DEF VarintLength

(* A varint stands for a uint64, and no varint of that number is shorter   *)
(* than the one that is written.                                           *)
LEMMA VarintsAreNumbers ==
    ASSUME NEW data \in Seq(ByteValues), NEW i \in Nat \ {0}, NEW n \in 1..MaxVarintLen,
           IsVarint(data, i, n)
    PROVE  LET u == Uvarint[VarintValue(data, i)]
           IN  /\ VarintValue(data, i) \in 0..W64 - 1
               /\ Len(u) \in Nat
               /\ Len(u) <= n
               /\ Len(u) = n => \A k \in 1..n : data[i + k - 1] = u[k]
<1> DEFINE B == VarintBase
           M == MaxVarintLen
           last == i + n - 1
           g == ValuesOf(data, last)
           c == data[last] + 1
           U(x) == Uvarint[x]
           Short(k) ==
             LET j == last - k
             IN  /\ g[j] \in Nat
                 /\ g[j] < c * Power[k]
                 /\ Len(U(g[j])) <= k + 1
                 /\ Len(U(g[j])) = k + 1 => \A l \in 1..k + 1 : data[j + l - 1] = U(g[j])[l]
           S == {k \in Nat : k < n => Short(k)}
<1>1. B \in Nat /\ B >= 2 /\ M \in Nat /\ M >= 2 /\ W64 \in Nat /\ W64 > 0 /\ W64 = 2 * Power[M - 1]
  BY VarintsAssumption, WidthsAssumption
<1>2. /\ last \in 1..Len(data) /\ i \in 1..last /\ last = i + n - 1 /\ n \in Nat /\ n >= 1 /\ n <= M
      /\ Len(data) \in Nat
      /\ data[last] < B
      /\ (n = M => data[last] <= 1)
      /\ \A j \in i..last - 1 : data[j] >= B
  <2>1. i + n - 2 = last - 1
    BY <1>1
  <2> QED BY <2>1, <1>1 DEF IsVarint
<1>3. ASSUME NEW j \in 1..Len(data)
      PROVE  data[j] \in Nat /\ data[j] < 2 * B
  <2> DEFINE x == data[j]
  <2>1. x \in ByteValues
    OBVIOUS
  <2> HIDE DEF x
  <2>2. x \in Nat /\ x < 2 * B
    BY <2>1, <1>1 DEF ByteValues
  <2> QED BY <2>2 DEF x
<1>4. /\ \A j \in 1..last : g[j] \in Int
      /\ g[last] = data[last]
      /\ \A j \in 1..last - 1 : g[j] = data[j] - B + B * g[j + 1]
  <2> HIDE DEF last
  <2> QED BY <1>2, ValuesAre
<1> HIDE DEF last, g
<1>5. c \in Nat /\ c >= 1 /\ c <= B /\ (n = M => c <= 2)
  <2> DEFINE x == data[last]
  <2>1. x \in Nat /\ x < B /\ (n = M => x <= 1)
    BY <1>2, <1>3
  <2> HIDE DEF x
  <2>2. x + 1 \in Nat /\ x + 1 >= 1 /\ x + 1 <= B /\ (n = M => x + 1 <= 2)
    BY <2>1, <1>1
  <2> QED BY <2>2 DEF x
<1> HIDE DEF c
<1>6. ASSUME NEW k \in Nat, k < n
      PROVE  c * Power[k] <= W64 /\ c * Power[k] \in Nat
  <2>1. k \in 0..M /\ k \in 0..M - 1 /\ k <= M - 1 /\ M - 1 \in 0..M
    BY <1>1, <1>2, <1>6
  <2> DEFINE P == Power[k]
             Q == Power[M - 1]
  <2>2. P \in Nat /\ Q \in Nat /\ P <= Q /\ P >= 1
    BY <2>1, PowersAre
  <2>3. CASE n = M
    <3> HIDE DEF P, Q, M
    <3>1. c = 1 \/ c = 2
      BY <2>3, <1>5
    <3>2. c * P \in Nat /\ c * P <= 2 * P
      BY <3>1, <2>2
    <3>3. W64 = 2 * Q
      BY <1>1 DEF Q, M
    <3> QED BY <3>2, <3>3, <2>2 DEF P
  <2>4. CASE n # M
    <3>1. k + 1 \in 0..M /\ k + 1 <= M - 1
      BY <2>4, <1>1, <1>2, <1>6
    <3> DEFINE R == Power[k + 1]
    <3>2. R = B * P /\ R <= Q /\ R \in Nat
      BY <3>1, <2>1, PowersAre
    <3> HIDE DEF P, Q, R, B
    <3>3. c * P <= B * P /\ c * P \in Nat
      BY <2>2, <1>1, <1>5
    <3>4. W64 = 2 * Q
      BY <1>1 DEF Q
    <3> QED BY <3>2, <3>3, <3>4, <2>2 DEF P
  <2> QED BY <2>3, <2>4
<1>7. 0 \in S
  <2> SUFFICES Short(0)
    OBVIOUS
  <2>0. last - 0 = last /\ last \in Int
    BY <1>2
  <2>1. g[last] = data[last] /\ data[last] \in Nat /\ data[last] < B
    BY <1>2, <1>3, <1>4
  <2>2. Power[0] = 1 /\ c * 1 = c
    BY <1>5, PowersAre
  <2>3. data[last] < c /\ data[last] \in 0..W64 - 1
    <3>1. c <= W64
      <4>1. c * Power[0] <= W64
        BY <1>2, <1>6
      <4> QED BY <4>1, <2>2
    <3> DEFINE x == data[last]
    <3>2. c = x + 1 /\ x \in Nat
      BY <2>1 DEF c
    <3> HIDE DEF x
    <3>3. x < c /\ x \in 0..W64 - 1
      BY <3>1, <3>2, <1>1, <1>5
    <3> QED BY <3>3 DEF x
  <2>4. U(data[last]) = <<data[last]>>
    BY <2>1, <2>3, UvarintIs
  <2> DEFINE u == U(data[last])
  <2>5. Len(u) = 1 /\ u[1] = data[last]
    BY <2>4
  <2> HIDE DEF U, u
  <2>6. \A l \in 1..0 + 1 : last + l - 1 = last /\ l = 1
    BY <1>2
  <2>7. g[last] \in Nat /\ g[last] < c * Power[0]
    BY <2>1, <2>2, <2>3
  <2>8. Len(U(g[last])) <= 0 + 1
    BY <2>1, <2>5 DEF u
  <2>9. \A l \in 1..0 + 1 : data[last + l - 1] = U(g[last])[l]
    BY <2>1, <2>5, <2>6 DEF u
  <2> QED BY <2>0, <2>7, <2>8, <2>9
<1>8. ASSUME NEW k \in S
      PROVE  k + 1 \in S
  <2> SUFFICES ASSUME k + 1 < n PROVE Short(k + 1)
    OBVIOUS
  <2> DEFINE j == last - (k + 1)
             x == g[j]
             w == g[j + 1]
             d == data[j] - B
  <2>1. k \in Nat /\ k < n /\ j \in 1..last - 1 /\ j \in i..last - 1 /\ j + 1 = last - k /\ j \in 1..Len(data)
    BY <1>2
  <2>2. Short(k)
    BY <2>1
  <2>3. w \in Nat /\ w < c * Power[k] /\ Len(U(w)) <= k + 1
        /\ (Len(U(w)) = k + 1 => \A l \in 1..k + 1 : data[j + 1 + l - 1] = U(w)[l])
    BY <2>1, <2>2
  <2>4. d \in 0..B - 1
    <3> DEFINE y == data[j]
    <3>1. y >= B /\ y \in Nat /\ y < 2 * B
      BY <2>1, <1>2, <1>3
    <3> HIDE DEF y
    <3>2. y - B \in 0..B - 1
      BY <3>1, <1>1
    <3> QED BY <3>2 DEF y
  <2>5. x = d + B * w
    BY <2>1, <1>4
  <2>6. x \in Nat /\ (x % B) = d /\ x \div B = w
    <3> HIDE DEF d, w, x, j
    <3> QED BY <2>3, <2>4, <2>5, DigitsBack
  <2>7. x < c * Power[k + 1]
    <3> DEFINE P == Power[k]
    <3>1. P \in Nat /\ Power[k + 1] = B * P
      <4>1. k \in 0..M /\ k \in 0..M - 1
        BY <2>1, <1>1, <1>2
      <4> QED BY <4>1, PowersAre
    <3> HIDE DEF P, B, x, d, w, j
    <3>2. c * P \in Nat /\ c * (B * P) = B * (c * P)
      BY <3>1, <1>1, <1>5, FactorsSwap
    <3> DEFINE y == c * P
    <3>3. y \in Nat /\ w <= y - 1
      BY <2>3, <3>2 DEF P
    <3> HIDE DEF y
    <3>4. B * w <= B * (y - 1) /\ B * (y - 1) = B * y - B /\ B * y \in Nat /\ B * w \in Nat
      BY <3>3, <2>3, <1>1
    <3>5. x < B * y
      <4> DEFINE a == B * w
                 b == B * y
      <4>1. a \in Nat /\ b \in Nat /\ a <= b - B /\ x = d + a
        BY <3>4, <2>5
      <4> HIDE DEF a, b
      <4>2. x < b
        BY <4>1, <2>4, <1>1
      <4> QED BY <4>2 DEF b
    <3> QED BY <3>1, <3>2, <3>5 DEF y, P
  <2>8. x \in 0..W64 - 1 /\ w \in 0..W64 - 1
    <3>1. c * Power[k + 1] <= W64 /\ c * Power[k + 1] \in Nat /\ c * Power[k] <= W64 /\ c * Power[k] \in Nat
      BY <2>1, <1>6
    <3> DEFINE y == c * Power[k + 1]
               z == c * Power[k]
    <3>2. /\ y <= W64 /\ y \in Nat /\ z <= W64 /\ z \in Nat
          /\ x \in Nat /\ w \in Nat /\ x < y /\ w < z
      BY <3>1, <2>3, <2>6, <2>7
    <3>3. W64 \in Nat
      BY <1>1
    <3> HIDE DEF x, w, y, z
    <3>4. x < W64 /\ w < W64 /\ x >= 0 /\ w >= 0 /\ x \in Int /\ w \in Int
      BY <3>2, <3>3
    <3> QED BY <3>3, <3>4
  <2> HIDE DEF d, w, x, j
  <2>9. Len(U(x)) <= k + 2 /\ (Len(U(x)) = k + 2 => \A l \in 1..k + 2 : data[j + l - 1] = U(x)[l])
    <3>1. CASE x < B
      <4>1. U(x) = <<x>>
        BY <3>1, <2>8, UvarintIs
      <4>2. Len(U(x)) = 1
        BY <4>1
      <4> HIDE DEF U
      <4> QED BY <4>2, <2>1
    <3>2. CASE ~(x < B)
      <4>0. x >= B
        BY <3>2, <2>6, <1>1
      <4>1. U(x) = <<B + d>> \o U(w) /\ U(w) \in Seq(ByteValues)
        BY <4>0, <2>6, <2>8, UvarintIs
      <4>2. B + d = data[j] /\ B + d \in ByteValues
        <5>1. data[j] \in Nat
          BY <2>1, <1>3
        <5>2. B + d = data[j]
          BY <5>1, <1>1 DEF d
        <5> QED BY <5>2, <2>4, <1>1 DEF ByteValues
      <4> HIDE DEF U, B
      <4>3. /\ Len(U(x)) = Len(U(w)) + 1 /\ U(x)[1] = data[j] /\ Len(U(w)) \in Nat
            /\ \A l \in 1..Len(U(w)) : U(x)[l + 1] = U(w)[l]
        BY <4>1, <4>2, PutInFront
      <4>4. ASSUME Len(U(x)) = k + 2, NEW l \in 1..k + 2
            PROVE  data[j + l - 1] = U(x)[l]
        <5>1. Len(U(w)) = k + 1
          BY <4>3, <4>4, <2>1
        <5>2. CASE l = 1
          <6>1. j + l - 1 = j
            BY <5>2, <2>1, <1>2
          <6> QED BY <6>1, <5>2, <4>3
        <5>3. CASE l # 1
          <6>1. l - 1 \in 1..k + 1 /\ (l - 1) + 1 = l /\ j + 1 + (l - 1) - 1 = j + l - 1
            BY <5>3, <2>1, <1>2
          <6>2. U(x)[l] = U(w)[l - 1]
            BY <6>1, <5>1, <4>3
          <6>3. data[j + 1 + (l - 1) - 1] = U(w)[l - 1]
            BY <6>1, <5>1, <2>3
          <6> QED BY <6>1, <6>2, <6>3
        <5> QED BY <5>2, <5>3
      <4> QED BY <4>3, <4>4, <2>1, <2>3
    <3> QED BY <3>1, <3>2
  <2>10. (k + 1) + 1 = k + 2
    BY <2>1
  <2> QED BY <2>6, <2>7, <2>9, <2>10 DEF x, j
<1>9. S = Nat
  <2>1. S \in SUBSET Nat
    OBVIOUS
  <2> HIDE DEF S
  <2> QED BY <2>1, <1>7, <1>8, NumberInduction
<1>10. Short(n - 1)
  <2>1. n - 1 \in Nat /\ n - 1 < n
    BY <1>2
  <2>2. n - 1 \in S
    <3> HIDE DEF S
    <3> QED BY <2>1, <1>9
  <2> QED BY <2>1, <2>2
<1>11. last - (n - 1) = i /\ (n - 1) + 1 = n /\ n - 1 \in Nat /\ n - 1 < n
  BY <1>2
<1>12. VarintValue(data, i) = g[i]
  <2>1. VarintLength(data, i) = n
    BY LengthIs
  <2>2. last = i + VarintLength(data, i) - 1
    BY <2>1 DEF last
  <2> QED BY <2>2, ValueOfVarint DEF g
<1>13. /\ g[i] \in Nat /\ g[i] < c * Power[n - 1] /\ Len(U(g[i])) <= n
       /\ Len(U(g[i])) = n => \A l \in 1..n : data[i + l - 1] = U(g[i])[l]
  <2> HIDE DEF U
  <2> QED BY <1>10, <1>11
<1>14. g[i] \in 0..W64 - 1
  <2>1. c * Power[n - 1] <= W64 /\ c * Power[n - 1] \in Nat
    BY <1>6, <1>11
  <2> DEFINE y == c * Power[n - 1]
  <2> HIDE DEF y
  <2> QED BY <2>1, <1>1, <1>13 DEF y
<1>15. Len(U(g[i])) \in Nat
  <2>1. U(g[i]) \in Seq(ByteValues)
    BY <1>14, UvarintIs
  <2> HIDE DEF U
  <2> QED BY <2>1
<1> QED BY <1>12, <1>13, <1>14, <1>15

-----------------------------------------------------------------------------
(* Reading what was written.                                               *)

(* What is written for a number is a varint: all bytes but the last have   *)
(* the high bit, and it fits 64 bits.                                      *)
LEMMA WrittenShape ==
    ASSUME NEW v \in 0..W64 - 1
    PROVE  /\ Uvarint[v] \in Seq(ByteValues)
           /\ Len(Uvarint[v]) \in 1..MaxVarintLen
           /\ Uvarint[v][Len(Uvarint[v])] < VarintBase
           /\ \A k \in 1..Len(Uvarint[v]) - 1 : Uvarint[v][k] >= VarintBase
           /\ Len(Uvarint[v]) = MaxVarintLen => Uvarint[v][MaxVarintLen] <= 1
<1> DEFINE B == VarintBase
           M == MaxVarintLen
           D == 0..W64 - 1
           U(x) == Uvarint[x]
           Shaped(u) == /\ Len(u) \in Nat /\ Len(u) >= 1
                        /\ u[Len(u)] < B
                        /\ \A k \in 1..Len(u) - 1 : u[k] >= B
           S == {x \in D : Shaped(U(x))}
           m == [x \in D |-> x]
<1>1. B \in Nat /\ B >= 2 /\ M \in Nat /\ M >= 2 /\ W64 \in Nat /\ W64 > 0 /\ W64 = 2 * Power[M - 1]
  BY VarintsAssumption, WidthsAssumption
<1>2. ASSUME NEW x \in D, \A e \in D : m[e] < m[x] => e \in S
      PROVE  x \in S
  <2>1. CASE x < B
    <3>1. U(x) = <<x>>
      BY <2>1, UvarintIs
    <3>2. Len(U(x)) = 1 /\ U(x)[1] = x
      BY <3>1
    <3> HIDE DEF U
    <3>3. Shaped(U(x))
      BY <3>2, <2>1
    <3> HIDE DEF Shaped, D
    <3> QED BY <3>3
  <2>2. CASE ~(x < B)
    <3> DEFINE q == x \div B
               r == x % B
               u == U(q)
    <3>1. x >= B /\ x \in Nat
      BY <2>2, <1>1
    <3>2. q \in D /\ U(x) = <<B + r>> \o u
      BY <3>1, UvarintIs
    <3>3. q < x /\ r \in 0..B - 1
      <4> HIDE DEF u
      <4> QED BY <3>1, DigitsOf
    <3>4. Shaped(u)
      <4>1. q \in S
        <5> HIDE DEF q, S
        <5> QED BY <3>2, <3>3, <1>2
      <4> HIDE DEF q, Shaped, D
      <4> QED BY <4>1
    <3>5. u \in Seq(ByteValues)
      <4> HIDE DEF q
      <4> QED BY <3>2, UvarintIs
    <3> DEFINE b == B + r
               w == U(x)
    <3>6. b \in ByteValues /\ b >= B /\ w = <<b>> \o u
      <4> HIDE DEF r, u
      <4> QED BY <3>2, <3>3, <1>1 DEF ByteValues
    <3> HIDE DEF b, u, w
    <3>7. Len(w) = Len(u) + 1 /\ w[1] = b /\ Len(u) \in Nat /\ \A k \in 1..Len(u) : w[k + 1] = u[k]
      BY <3>5, <3>6, PutInFront
    <3>8. Shaped(w)
      <4>1. Len(u) \in 1..Len(u) /\ Len(w) = Len(u) + 1
        BY <3>4, <3>7
      <4>2. w[Len(w)] < B
        BY <4>1, <3>4, <3>7
      <4>3. ASSUME NEW k \in 1..Len(w) - 1
            PROVE  w[k] >= B
        <5>1. CASE k = 1
          BY <5>1, <3>6, <3>7
        <5>2. CASE k # 1
          <6>1. k - 1 \in 1..Len(u) - 1 /\ k - 1 \in 1..Len(u) /\ (k - 1) + 1 = k
            BY <5>2, <3>7
          <6> QED BY <6>1, <3>4, <3>7
        <5> QED BY <5>1, <5>2
      <4> QED BY <4>2, <4>3, <3>7
    <3> HIDE DEF Shaped, D, U
    <3> QED BY <3>8 DEF w
  <2> QED BY <2>1, <2>2
<1>3. D \subseteq S
  <2>1. \A x \in D : m[x] \in Nat
    BY <1>1
  <2> HIDE DEF D, S, m
  <2> QED BY <2>1, <1>2, MeasureInduction
<1>4. Shaped(U(v))
  <2> HIDE DEF Shaped, U
  <2> QED BY <1>3
<1>5. Len(U(v)) <= M /\ (Len(U(v)) = M => U(v)[M] < 2)
  <2>1. 2 \in 1..B /\ M - 1 \in 0..M - 1 /\ v < 2 * Power[M - 1] /\ (M - 1) + 1 = M
    BY <1>1
  <2> DEFINE c == 2
             n == M - 1
  <2> HIDE DEF c, n
  <2>2. c \in 1..B /\ n \in 0..M - 1 /\ v < c * Power[n] /\ n + 1 = M
    BY <2>1 DEF c, n
  <2>3. Len(U(v)) <= n + 1 /\ (Len(U(v)) = n + 1 => U(v)[n + 1] < c)
    BY <2>2, DigitsFit
  <2> HIDE DEF U, M
  <2> QED BY <2>2, <2>3 DEF c
<1>6. U(v) \in Seq(ByteValues)
  BY UvarintIs
<1>7. Len(U(v)) = M => U(v)[M] <= 1
  <2> SUFFICES ASSUME Len(U(v)) = M PROVE U(v)[M] <= 1
    OBVIOUS
  <2> DEFINE y == U(v)[M]
  <2>1. y \in ByteValues
    <3> HIDE DEF U
    <3> QED BY <1>1, <1>6
  <2>2. y < 2
    BY <1>5
  <2> HIDE DEF y
  <2>3. y <= 1
    BY <2>1, <2>2, <1>1 DEF ByteValues
  <2> QED BY <2>3 DEF y
<1>8. Len(U(v)) \in 1..M
  <2> HIDE DEF U
  <2> QED BY <1>1, <1>4, <1>5
<1> HIDE DEF U, M
<1> QED BY <1>4, <1>6, <1>7, <1>8 DEF U, M

(* The varint u is in the data from place i on.                            *)
StandsAt(u, data, i) ==
  i + Len(u) - 1 <= Len(data) /\ \A k \in 1..Len(u) : data[i + k - 1] = u[k]

(* The varint that was written for a number is read back, to its last      *)
(* byte.                                                                   *)
LEMMA ReadsWritten ==
    ASSUME NEW data \in Seq(ByteValues), NEW i \in Nat \ {0}, NEW v \in 0..W64 - 1,
           StandsAt(Uvarint[v], data, i)
    PROVE  /\ VarintLength(data, i) = Len(Uvarint[v])
           /\ VarintValue(data, i) = v
<1> DEFINE B == VarintBase
           D == 0..W64 - 1
           U(x) == Uvarint[x]
           n == Len(U(v))
           last == i + n - 1
           g == ValuesOf(data, last)
           m == [x \in D |-> x]
           Ends(x, p) == p + Len(U(x)) - 1 = last /\ \A k \in 1..Len(U(x)) : data[p + k - 1] = U(x)[k]
           S == {x \in D : \A p \in 1..last : Ends(x, p) => g[p] = x}
<1>1. B \in Nat /\ B >= 2 /\ W64 \in Nat /\ W64 > 0 /\ MaxVarintLen \in Nat
  BY VarintsAssumption, WidthsAssumption
<1>2. /\ n \in 1..MaxVarintLen
      /\ U(v)[n] < B
      /\ \A k \in 1..n - 1 : U(v)[k] >= B
      /\ n = MaxVarintLen => U(v)[MaxVarintLen] <= 1
  BY WrittenShape
<1>3. last \in 1..Len(data) /\ last <= Len(data) /\ \A k \in 1..n : data[i + k - 1] = U(v)[k]
  <2>1. last <= Len(data) /\ \A k \in 1..n : data[i + k - 1] = U(v)[k]
    BY DEF StandsAt
  <2> HIDE DEF U
  <2> QED BY <2>1, <1>1, <1>2
<1>4. n \in Nat /\ n >= 1 /\ i \in 1..last /\ last = i + n - 1 /\ n \in 1..n
  <2> HIDE DEF U
  <2> QED BY <1>1, <1>2
<1>5. VarintLength(data, i) = n
  <2>1. ASSUME NEW j \in i..i + n - 2
        PROVE  data[j] >= B
    <3>1. j - i + 1 \in 1..n - 1 /\ j - i + 1 \in 1..n /\ i + (j - i + 1) - 1 = j
      <4> HIDE DEF n
      <4> QED BY <1>4
    <3> HIDE DEF n, U
    <3> QED BY <3>1, <1>2, <1>3
  <2>2. data[i + n - 1] = U(v)[n]
    <3> HIDE DEF n, U
    <3> QED BY <1>3, <1>4
  <2>3. IsVarint(data, i, n)
    <3> HIDE DEF n, U
    <3> QED BY <2>1, <2>2, <1>2, <1>3 DEF IsVarint, last
  <2> HIDE DEF n
  <2> QED BY <2>3, <1>2, LengthIs
<1>6. /\ \A j \in 1..last : g[j] \in Int
      /\ g[last] = data[last]
      /\ \A j \in 1..last - 1 : g[j] = data[j] - B + B * g[j + 1]
  <2> HIDE DEF last
  <2> QED BY <1>3, ValuesAre
<1> HIDE DEF n, last, g
<1>7. ASSUME NEW x \in D, \A e \in D : m[e] < m[x] => e \in S
      PROVE  x \in S
  <2> SUFFICES ASSUME NEW p \in 1..last, Ends(x, p) PROVE g[p] = x
    OBVIOUS
  <2>0. last \in Nat /\ p \in Nat /\ p >= 1
    BY <1>3
  <2>1. CASE x < B
    <3>1. U(x) = <<x>>
      BY <2>1, UvarintIs
    <3>2. Len(U(x)) = 1 /\ U(x)[1] = x
      BY <3>1
    <3>3. p + 1 - 1 = last /\ \A k \in 1..1 : data[p + k - 1] = U(x)[k]
      <4> HIDE DEF U
      <4> QED BY <3>2
    <3>4. p = last /\ data[p + 1 - 1] = x /\ p + 1 - 1 = p
      <4>1. 1 \in 1..1
        OBVIOUS
      <4> HIDE DEF U
      <4> QED BY <4>1, <3>2, <3>3, <2>0
    <3> QED BY <3>4, <1>6
  <2>2. CASE ~(x < B)
    <3> DEFINE q == x \div B
               r == x % B
               u == U(q)
               w == U(x)
               b == B + r
    <3>1. x >= B /\ x \in Nat
      BY <2>2, <1>1
    <3>2. q \in D /\ w = <<b>> \o u
      BY <3>1, UvarintIs
    <3>3. q < x /\ q \in Nat /\ r \in 0..B - 1 /\ x = B * q + r
      <4> HIDE DEF u
      <4> QED BY <3>1, DigitsOf
    <3>4. u \in Seq(ByteValues) /\ Len(u) \in 1..MaxVarintLen
      <4> HIDE DEF q
      <4> QED BY <3>2, WrittenShape
    <3>5. b \in ByteValues
      <4> HIDE DEF r
      <4> QED BY <3>3, <1>1 DEF ByteValues
    <3>6. p + Len(w) - 1 = last /\ \A k \in 1..Len(w) : data[p + k - 1] = w[k]
      OBVIOUS
    <3> HIDE DEF b, u, w
    <3>7. Len(w) = Len(u) + 1 /\ w[1] = b /\ Len(u) \in Nat /\ \A k \in 1..Len(u) : w[k + 1] = u[k]
      BY <3>2, <3>4, <3>5, PutInFront
    <3>8. p + 1 \in 1..last /\ p \in 1..last - 1 /\ (p + 1) + Len(u) - 1 = last /\ Len(u) >= 1
      <4> DEFINE l == Len(u)
      <4>1. l \in Nat /\ l >= 1 /\ p + (l + 1) - 1 = last
        <5>1. Len(u) >= 1
          BY <3>4, <1>1
        <5> QED BY <5>1, <3>6, <3>7
      <4> HIDE DEF l
      <4>2. p + 1 \in 1..last /\ p \in 1..last - 1 /\ (p + 1) + l - 1 = last
        BY <4>1, <2>0
      <4> QED BY <4>1, <4>2 DEF l
    <3>9. ASSUME NEW k \in 1..Len(u)
          PROVE  data[(p + 1) + k - 1] = u[k]
      <4>1. k + 1 \in 1..Len(w) /\ p + (k + 1) - 1 = (p + 1) + k - 1
        <5> DEFINE l == Len(u)
        <5>1. l \in Nat /\ k \in 1..l /\ Len(w) = l + 1
          BY <3>7
        <5> HIDE DEF l
        <5> QED BY <5>1, <2>0
      <4> QED BY <4>1, <3>6, <3>7
    <3>10. g[p + 1] = q
      <4>1. q \in S
        <5> HIDE DEF q, S
        <5> QED BY <3>2, <3>3, <1>7
      <4>2. Ends(q, p + 1)
        <5> HIDE DEF q
        <5> QED BY <3>8, <3>9 DEF u
      <4> HIDE DEF Ends, q, D
      <4> QED BY <4>1, <4>2, <3>8
    <3>11. data[p] = b
      <4>1. 1 \in 1..Len(w) /\ p + 1 - 1 = p
        BY <3>7, <3>8, <2>0
      <4> QED BY <4>1, <3>6, <3>7
    <3>12. g[p] = b - B + B * q
      <4> HIDE DEF q
      <4> QED BY <3>8, <3>10, <3>11, <1>6
    <3>13. b - B + B * q = x
      <4> DEFINE z == B * q
      <4>1. z \in Int
        <5> HIDE DEF q
        <5> QED BY <3>3, <1>1
      <4>2. x = z + r
        BY <3>3
      <4> HIDE DEF z, r
      <4> QED BY <4>1, <4>2, <3>3, <1>1 DEF b
    <3> QED BY <3>12, <3>13
  <2> QED BY <2>1, <2>2
<1>8. D \subseteq S
  <2>1. \A x \in D : m[x] \in Nat
    BY <1>1
  <2> HIDE DEF D, S, m
  <2> QED BY <2>1, <1>7, MeasureInduction
<1>9. g[i] = v
  <2>1. Ends(v, i)
    BY <1>3, <1>4 DEF n
  <2>2. v \in S
    <3> HIDE DEF S
    <3> QED BY <1>8
  <2> HIDE DEF Ends
  <2> QED BY <2>1, <2>2, <1>4
<1>10. VarintValue(data, i) = g[i]
  <2>1. last = i + VarintLength(data, i) - 1
    BY <1>5 DEF last
  <2> QED BY <2>1, ValueOfVarint DEF g
<1> QED BY <1>5, <1>9, <1>10 DEF n

-----------------------------------------------------------------------------
(* Sequences of varints.                                                   *)

PutAt(s, from, k) == IF k > Len(s) THEN <<>> ELSE Uvarint[s[k]] \o from[k + 1]
IsPuts(from, s) == from = [k \in 1..Len(s) + 1 |-> PutAt(s, from, k)]
PutsOf(s) == CHOOSE from : IsPuts(from, s)

(* W[k] is written for the numbers from the k-th on.                       *)
WritesFrom(W, s) ==
  /\ W \in [1..Len(s) + 1 -> Seq(ByteValues)]
  /\ W[Len(s) + 1] = <<>>
  /\ \A k \in 1..Len(s) : W[k] = Uvarint[s[k]] \o W[k + 1]

(* Numbers are written one after the other.                                *)
LEMMA UvarintsAre ==
    ASSUME NEW s \in Seq(0..W64 - 1)
    PROVE  WritesFrom(PutsOf(s), s) /\ Uvarints(s) = PutsOf(s)[1]
<1> DEFINE n == Len(s)
           N == n + 1
           D == 1..N
           V == Seq(ByteValues)
           leaf == {N}
           m == [k \in D |-> N - k]
           base == [k \in D |-> <<>>]
           next == [k \in D |-> k + 1]
           u == [k \in D |-> IF k = N THEN <<>> ELSE Uvarint[s[k]]]
           step == [k \in D |-> [w \in V |-> u[k] \o w]]
<1>1. n \in Nat /\ N \in Nat /\ N >= 1 /\ N \in D /\ \A k \in 1..n : k \in D /\ k # N /\ k + 1 \in D /\ ~(k > n)
  OBVIOUS
<1>2. \A k \in D : k # N => k \in 1..n
  BY <1>1
<1>3. <<>> \in V
  OBVIOUS
<1>4. \A k \in 1..n : Uvarint[s[k]] \in V
  <2>1. \A k \in 1..n : s[k] \in 0..W64 - 1
    <3> DEFINE Y == 0..W64 - 1
    <3>1. s \in Seq(Y)
      OBVIOUS
    <3> HIDE DEF Y
    <3>2. \A k \in 1..n : s[k] \in Y
      BY <3>1
    <3> QED BY <3>2 DEF Y
  <2> QED BY <2>1, UvarintIs
<1>5. u \in [D -> V] /\ \A k \in 1..n : u[k] = Uvarint[s[k]]
  <2> HIDE DEF D, V, N, n
  <2> QED BY <1>1, <1>2, <1>3, <1>4
<1>6. step \in [D -> [V -> V]]
  <2>1. \A a, b \in V : a \o b \in V
    OBVIOUS
  <2> HIDE DEF D, V, u
  <2> QED BY <1>5, <2>1
<1>7. Walks(D, V, m, N, leaf, base, next, step)
  <2>1. \A k \in D \ leaf : next[k] \in D /\ m[next[k]] < m[k]
    <3> HIDE DEF n
    <3> QED BY <1>1
  <2>2. m \in [D -> Nat] /\ \A d \in D : m[d] < N
    <3> HIDE DEF n
    <3> QED BY <1>1
  <2>3. V # {}
    <3> HIDE DEF V
    <3> QED BY <1>3
  <2>4. base \in [D -> V]
    <3> HIDE DEF V, D
    <3> QED BY <1>3
  <2> HIDE DEF D, V, N, m, leaf, base, next, step
  <2> QED BY <1>1, <1>6, <2>1, <2>2, <2>3, <2>4 DEF Walks
<1>8. PICK f \in [D -> V] : \A k \in D : f[k] = IF k \in leaf THEN base[k] ELSE step[k][f[next[k]]]
  <2> HIDE DEF D, V, N, m, leaf, base, next, step
  <2> QED BY <1>7, WalkFunction
<1>9. f[N] = <<>> /\ \A k \in 1..n : f[k] = Uvarint[s[k]] \o f[k + 1]
  <2>1. f[N] = <<>>
    <3> HIDE DEF D, V, n, N, u
    <3> QED BY <1>1, <1>8
  <2>2. ASSUME NEW k \in 1..n
        PROVE  f[k] = Uvarint[s[k]] \o f[k + 1]
    <3>1. k \in D /\ k \notin leaf /\ k + 1 \in D
      BY <1>1
    <3>2. f[k + 1] \in V /\ u[k] = Uvarint[s[k]]
      <4> HIDE DEF D, V, u
      <4> QED BY <3>1, <1>5
    <3> HIDE DEF D, V, u, leaf
    <3> QED BY <3>1, <3>2, <1>8
  <2> QED BY <2>1, <2>2
<1>10. IsPuts(f, s)
  <2>1. ASSUME NEW k \in D
        PROVE  f[k] = PutAt(s, f, k)
    <3>1. CASE k = N
      <4>1. k > n
        BY <3>1, <1>1
      <4> QED BY <4>1, <3>1, <1>9 DEF PutAt
    <3>2. CASE k # N
      <4>1. k \in 1..n
        BY <3>2, <1>2
      <4> QED BY <4>1, <1>1, <1>9 DEF PutAt
    <3> QED BY <3>1, <3>2
  <2>2. f = [k \in D |-> PutAt(s, f, k)]
    <3> HIDE DEF D, V
    <3> QED BY <2>1, <1>8
  <2> QED BY <2>2 DEF IsPuts
<1> DEFINE g == PutsOf(s)
<1>11. IsPuts(g, s)
  BY <1>10 DEF PutsOf
<1>12. DOMAIN g = D /\ \A k \in D : g[k] = PutAt(s, g, k)
  <2> HIDE DEF g
  <2> QED BY <1>11 DEF IsPuts
<1>13. Uvarints(s) = g[1]
  BY DEF Uvarints, PutsOf, IsPuts, PutAt
<1>14. g = [k \in D |-> g[k]]
  <2> HIDE DEF g
  <2> QED BY <1>11, <1>12 DEF IsPuts
<1> HIDE DEF g
<1>15. g[N] = <<>> /\ \A k \in 1..n : g[k] = Uvarint[s[k]] \o g[k + 1]
  <2>1. N > n
    BY <1>1
  <2>2. g[N] = <<>>
    BY <2>1, <1>1, <1>12 DEF PutAt
  <2>3. ASSUME NEW k \in 1..n
        PROVE  g[k] = Uvarint[s[k]] \o g[k + 1]
    BY <1>1, <1>12 DEF PutAt
  <2> QED BY <2>2, <2>3
<1> DEFINE S == {k \in D : g[k] \in V}
<1>16. ASSUME NEW d \in D, \A e \in D : m[e] < m[d] => e \in S
       PROVE  d \in S
  <2>1. CASE d = N
    <3> HIDE DEF D, V, N
    <3> QED BY <2>1, <1>3, <1>15
  <2>2. CASE d # N
    <3>1. d \in 1..n /\ d + 1 \in D
      BY <2>2, <1>1, <1>2
    <3>2. m[d + 1] < m[d]
      <4> HIDE DEF n
      <4> QED BY <3>1, <1>1
    <3>3. g[d + 1] \in V /\ Uvarint[s[d]] \in V
      <4> HIDE DEF D, V, m, n
      <4> QED BY <3>1, <3>2, <1>4, <1>16
    <3>4. Uvarint[s[d]] \o g[d + 1] \in V
      <4> DEFINE a == Uvarint[s[d]]
                 b == g[d + 1]
      <4>1. a \in V /\ b \in V
        BY <3>3
      <4> HIDE DEF a, b
      <4>2. a \o b \in V
        BY <4>1
      <4> QED BY <4>2 DEF a, b
    <3> HIDE DEF D, V, n
    <3> QED BY <3>1, <3>4, <1>15
  <2> QED BY <2>1, <2>2
<1>17. D \subseteq S
  <2>1. \A d \in D : m[d] \in Nat
    BY <1>1
  <2> HIDE DEF D, S, m
  <2> QED BY <2>1, <1>16, MeasureInduction
<1>18. g \in [D -> V]
  <2>1. \A k \in D : g[k] \in V
    <3> HIDE DEF D, V
    <3> QED BY <1>17
  <2> HIDE DEF D, V
  <2> QED BY <2>1, <1>14
<1> QED BY <1>13, <1>15, <1>18 DEF WritesFrom, g

NumberRead(data, from, i) ==
  IF i > Len(data) THEN <<>>
  ELSE IF VarintLength(data, i) = 0 THEN <<Broken>>
  ELSE <<VarintValue(data, i)>> \o from[i + VarintLength(data, i)]
IsReads(from, data, first) == from = [i \in first..Len(data) + 1 |-> NumberRead(data, from, i)]
NumbersRead(data, first) == CHOOSE from : IsReads(from, data, first)

(* f[i] are the numbers that are read from place i on.                     *)
NumbersReadFrom(f, data, first) ==
  /\ \A i \in first..Len(data) + 1 : f[i] \in Seq(Int)
  /\ f[Len(data) + 1] = <<>>
  /\ \A i \in first..Len(data) :
       \/ VarintLength(data, i) = 0 /\ f[i] = <<Broken>>
       \/ /\ VarintLength(data, i) \in 1..MaxVarintLen
          /\ IsVarint(data, i, VarintLength(data, i))
          /\ i + VarintLength(data, i) \in i + 1..Len(data) + 1
          /\ VarintValue(data, i) \in 0..W64 - 1
          /\ f[i] = <<VarintValue(data, i)>> \o f[i + VarintLength(data, i)]

(* Varints are read one after the other.                                   *)
LEMMA VarintsAre ==
    ASSUME NEW data \in Seq(ByteValues), NEW first \in 1..Len(data) + 1
    PROVE  NumbersReadFrom(NumbersRead(data, first), data, first) /\ Varints(data, first) = NumbersRead(data, first)[first]
<1> DEFINE n == Len(data)
           N == n + 1
           D == first..N
           V == Seq(Int)
           L(i) == VarintLength(data, i)
           X(i) == VarintValue(data, i)
           leaf == {i \in D : i = N \/ L(i) = 0}
           m == [i \in D |-> N - i]
           base == [i \in D |-> IF i = N THEN <<>> ELSE <<Broken>>]
           next == [i \in D |-> i + L(i)]
           u == [i \in D |-> IF i \in leaf THEN <<>> ELSE <<X(i)>>]
           step == [i \in D |-> [w \in V |-> u[i] \o w]]
<1>1. /\ n \in Nat /\ N \in Nat /\ N = n + 1 /\ first \in Nat /\ first >= 1 /\ first <= N /\ N \in D
      /\ \A i \in first..n : i \in D /\ i # N /\ ~(i > n) /\ i \in Nat \ {0}
      /\ \A i \in D : i # N => i \in first..n
  <2>1. n \in Nat /\ first \in 1..n + 1
    OBVIOUS
  <2> HIDE DEF n
  <2> QED BY <2>1
<1>2. ASSUME NEW i \in first..n, L(i) # 0
      PROVE  /\ L(i) \in 1..MaxVarintLen /\ IsVarint(data, i, L(i))
             /\ i + L(i) \in i + 1..N /\ i + L(i) \in D
             /\ X(i) \in 0..W64 - 1
  <2>1. L(i) \in 1..MaxVarintLen /\ IsVarint(data, i, L(i))
    BY <1>2, LengthMeans
  <2> DEFINE l == L(i)
  <2>2. i + l - 1 <= n
    BY <2>1 DEF IsVarint
  <2>3. X(i) \in 0..W64 - 1
    <3>1. i \in Nat \ {0}
      BY <1>1
    <3> HIDE DEF X, L
    <3>2. l \in 1..MaxVarintLen /\ IsVarint(data, i, l)
      BY <2>1
    <3> HIDE DEF l
    <3> QED BY <3>1, <3>2, VarintsAreNumbers DEF X
  <2>4. MaxVarintLen \in Nat
    BY VarintsAssumption
  <2> HIDE DEF l, L, X, n, N
  <2>5. i + l \in i + 1..N /\ i + l \in D
    BY <2>1, <2>2, <2>4, <1>1 DEF l
  <2> QED BY <2>1, <2>3, <2>5 DEF l
<1>3. <<>> \in V /\ <<Broken>> \in V
  BY DEF Broken
<1> HIDE DEF n, N, L, X
<1>4. \A i \in D : i \notin leaf => i \in first..n /\ L(i) # 0
  BY <1>1
<1>5. ASSUME NEW i \in D, i \notin leaf
      PROVE  <<X(i)>> \in V /\ u[i] = <<X(i)>>
  <2>1. X(i) \in Int
    <3>1. W64 \in Nat
      BY WidthsAssumption
    <3>2. X(i) \in 0..W64 - 1
      BY <1>2, <1>4, <1>5
    <3> QED BY <3>1, <3>2
  <2>2. <<X(i)>> \in V
    BY <2>1
  <2> HIDE DEF D, V, leaf
  <2> QED BY <2>2, <1>5
<1>6. u \in [D -> V]
  <2>1. ASSUME NEW i \in D
        PROVE  (IF i \in leaf THEN <<>> ELSE <<X(i)>>) \in V
    <3> HIDE DEF D, V, leaf
    <3> QED BY <1>3, <1>5
  <2> HIDE DEF D, V, leaf
  <2> QED BY <2>1
<1>7. step \in [D -> [V -> V]]
  <2>1. \A a, b \in V : a \o b \in V
    OBVIOUS
  <2> HIDE DEF D, V, u
  <2> QED BY <1>6, <2>1
<1>8. base \in [D -> V]
  <2> HIDE DEF D, V
  <2> QED BY <1>3
<1>9. ASSUME NEW i \in D \ leaf
      PROVE  next[i] \in D /\ m[next[i]] < m[i] /\ next[i] = i + L(i)
  <2>1. i \in first..n /\ L(i) # 0
    BY <1>4
  <2>2. i + L(i) \in i + 1..N /\ i + L(i) \in D
    BY <1>2, <2>1
  <2> DEFINE e == i + L(i)
  <2>3. e \in i + 1..N /\ e \in D /\ next[i] = e
    <3> HIDE DEF D
    <3> QED BY <2>2
  <2> HIDE DEF e
  <2>4. m[e] = N - e /\ m[i] = N - i
    <3> HIDE DEF D
    <3> QED BY <2>3
  <2>5. N - e < N - i
    BY <2>3, <2>1, <1>1
  <2> QED BY <2>3, <2>4, <2>5 DEF e
<1>10. Walks(D, V, m, N, leaf, base, next, step)
  <2>1. m \in [D -> Nat] /\ \A d \in D : m[d] < N
    BY <1>1
  <2>2. V # {}
    <3> HIDE DEF V
    <3> QED BY <1>3
  <2> HIDE DEF D, V, m, leaf, base, next, step
  <2> QED BY <1>1, <1>7, <1>8, <1>9, <2>1, <2>2 DEF Walks
<1>11. PICK f \in [D -> V] : \A i \in D : f[i] = IF i \in leaf THEN base[i] ELSE step[i][f[next[i]]]
  <2> HIDE DEF D, V, m, leaf, base, next, step
  <2> QED BY <1>10, WalkFunction
<1>12. ASSUME NEW i \in D
       PROVE  f[i] = NumberRead(data, f, i)
  <2>1. CASE i = N
    <3>1. i > Len(data)
      BY <2>1, <1>1 DEF n
    <3>2. f[i] = <<>>
      <4> HIDE DEF D, V, u
      <4> QED BY <2>1, <1>11
    <3> QED BY <3>1, <3>2 DEF NumberRead
  <2>2. CASE i # N /\ L(i) = 0
    <3>1. ~(i > Len(data))
      BY <2>2, <1>1 DEF n
    <3>2. f[i] = <<Broken>>
      <4> HIDE DEF D, V, u
      <4> QED BY <2>2, <1>11
    <3> QED BY <2>2, <3>1, <3>2 DEF NumberRead, L
  <2>3. CASE i # N /\ L(i) # 0
    <3>1. ~(i > Len(data))
      BY <2>3, <1>1 DEF n
    <3>2. i \in D \ leaf
      BY <2>3
    <3>3. u[i] = <<X(i)>> /\ next[i] \in D /\ next[i] = i + L(i)
      <4> HIDE DEF D, V, u, leaf, next, m
      <4> QED BY <3>2, <1>5, <1>9
    <3>4. f[next[i]] \in V
      <4> HIDE DEF D, V, next
      <4> QED BY <3>3
    <3>5. f[i] = u[i] \o f[next[i]]
      <4> HIDE DEF D, V, leaf, next, u
      <4> QED BY <3>2, <3>4, <1>11
    <3>6. f[i] = <<X(i)>> \o f[i + L(i)]
      BY <3>3, <3>5
    <3> QED BY <2>3, <3>1, <3>6 DEF NumberRead, L, X
  <2> QED BY <2>1, <2>2, <2>3
<1>13. IsReads(f, data, first)
  <2>1. f = [i \in D |-> NumberRead(data, f, i)]
    <3> HIDE DEF D, V
    <3> QED BY <1>12, <1>11
  <2> QED BY <2>1 DEF IsReads, N, n
<1> DEFINE g == NumbersRead(data, first)
<1>14. IsReads(g, data, first)
  BY <1>13 DEF NumbersRead
<1>15. \A i \in D : g[i] = NumberRead(data, g, i)
  <2> HIDE DEF g
  <2> QED BY <1>14 DEF IsReads, N, n
<1>16. Varints(data, first) = g[first]
  BY DEF Varints, NumbersRead, IsReads, NumberRead
<1> HIDE DEF g
<1>17. g[N] = <<>>
  <2>1. N > Len(data) /\ N \in D
    BY <1>1 DEF n
  <2> HIDE DEF D
  <2> QED BY <2>1, <1>15 DEF NumberRead
<1>18. ASSUME NEW i \in first..n, L(i) = 0
       PROVE  g[i] = <<Broken>>
  <2>1. ~(i > Len(data)) /\ i \in D
    BY <1>1 DEF n
  <2> HIDE DEF D
  <2> QED BY <2>1, <1>15, <1>18 DEF NumberRead, L
<1>19. ASSUME NEW i \in first..n, L(i) # 0
       PROVE  g[i] = <<X(i)>> \o g[i + L(i)]
  <2>1. ~(i > Len(data)) /\ i \in D
    BY <1>1 DEF n
  <2> HIDE DEF D
  <2> QED BY <2>1, <1>15, <1>19 DEF NumberRead, L, X
<1> DEFINE S == {i \in D : g[i] \in V}
<1>20. ASSUME NEW d \in D, \A e \in D : m[e] < m[d] => e \in S
       PROVE  d \in S
  <2>1. CASE d = N
    <3> HIDE DEF D, V
    <3> QED BY <2>1, <1>3, <1>17
  <2>2. CASE d # N /\ L(d) = 0
    <3>1. d \in first..n
      BY <2>2, <1>1
    <3> HIDE DEF D, V
    <3> QED BY <2>2, <3>1, <1>3, <1>18
  <2>3. CASE d # N /\ L(d) # 0
    <3>1. d \in first..n /\ d \in D \ leaf
      BY <2>3, <1>1
    <3> DEFINE a == <<X(d)>>
               b == g[d + L(d)]
    <3>2. a \in V /\ b \in V
      <4>1. next[d] \in D /\ m[next[d]] < m[d] /\ next[d] = d + L(d)
        <5> HIDE DEF D, leaf, next, m
        <5> QED BY <3>1, <1>9
      <4>2. b \in V
        <5> HIDE DEF D, m, V, next
        <5> QED BY <4>1, <1>20
      <4>3. a \in V
        <5> HIDE DEF D, leaf, V
        <5> QED BY <3>1, <1>5
      <4> QED BY <4>2, <4>3
    <3>3. g[d] = a \o b
      <4> HIDE DEF D
      <4> QED BY <2>3, <3>1, <1>19
    <3> HIDE DEF a, b
    <3>4. a \o b \in V
      BY <3>2
    <3> HIDE DEF D, V
    <3> QED BY <3>3, <3>4
  <2> QED BY <2>1, <2>2, <2>3
<1>21. D \subseteq S
  <2>1. \A d \in D : m[d] \in Nat
    BY <1>1
  <2> HIDE DEF D, S, m
  <2> QED BY <2>1, <1>20, MeasureInduction
<1>22. \A i \in D : g[i] \in V
  <2> HIDE DEF D, V
  <2> QED BY <1>21
<1>23. NumbersReadFrom(g, data, first)
  <2>1. ASSUME NEW i \in first..n
        PROVE  \/ L(i) = 0 /\ g[i] = <<Broken>>
               \/ /\ L(i) \in 1..MaxVarintLen /\ IsVarint(data, i, L(i))
                  /\ i + L(i) \in i + 1..N /\ X(i) \in 0..W64 - 1
                  /\ g[i] = <<X(i)>> \o g[i + L(i)]
    <3>1. CASE L(i) = 0
      BY <3>1, <1>18
    <3>2. CASE L(i) # 0
      BY <3>2, <1>2, <1>19
    <3> QED BY <3>1, <3>2
  <2>2. \A i \in first..Len(data) + 1 : g[i] \in V
    BY <1>22 DEF N, n
  <2>3. g[Len(data) + 1] = <<>>
    BY <1>17 DEF N, n
  <2>4. \A i \in first..Len(data) :
          \/ VarintLength(data, i) = 0 /\ g[i] = <<Broken>>
          \/ /\ VarintLength(data, i) \in 1..MaxVarintLen
             /\ IsVarint(data, i, VarintLength(data, i))
             /\ i + VarintLength(data, i) \in i + 1..Len(data) + 1
             /\ VarintValue(data, i) \in 0..W64 - 1
             /\ g[i] = <<VarintValue(data, i)>> \o g[i + VarintLength(data, i)]
    BY <2>1 DEF N, n, L, X
  <2> QED BY <2>2, <2>3, <2>4 DEF NumbersReadFrom
<1> QED BY <1>16, <1>23 DEF g

(* Numbers that were written are read back.                                *)
LEMMA ReadsBack ==
    ASSUME NEW data \in Seq(ByteValues), NEW p \in 1..Len(data) + 1, NEW s \in Seq(0..W64 - 1),
           p - 1 + Len(Uvarints(s)) = Len(data),
           \A j \in 1..Len(Uvarints(s)) : data[p + j - 1] = Uvarints(s)[j]
    PROVE  Varints(data, p) = s
<1> DEFINE n == Len(s)
           L == Len(data)
           W == PutsOf(s)
           f == NumbersRead(data, p)
           Y == 0..W64 - 1
           Left(w, i) == i - 1 + Len(w) = L /\ \A j \in 1..Len(w) : data[i + j - 1] = w[j]
           Got(i, r) == Len(f[i]) = r /\ \A l \in 1..r : f[i][l] = s[n - r + l]
           S == {r \in Nat : r <= n => \A i \in p..L + 1 : Left(W[n + 1 - r], i) => Got(i, r)}
<1>1. L \in Nat /\ n \in Nat /\ p \in Nat /\ p >= 1 /\ W64 \in Nat /\ \A k \in 1..n : s[k] \in Y
  <2>1. L \in Nat
    OBVIOUS
  <2>2. p \in 1..L + 1 /\ s \in Seq(Y)
    OBVIOUS
  <2> HIDE DEF L, Y
  <2> QED BY <2>1, <2>2, WidthsAssumption
<1>2. /\ \A k \in 1..n + 1 : W[k] \in Seq(ByteValues)
      /\ W[n + 1] = <<>>
      /\ \A k \in 1..n : W[k] = Uvarint[s[k]] \o W[k + 1]
      /\ Uvarints(s) = W[1]
  <2> HIDE DEF W
  <2> QED BY UvarintsAre DEF WritesFrom, W
<1>3. NumbersReadFrom(f, data, p) /\ Varints(data, p) = f[p]
  BY VarintsAre
<1>4. Left(W[1], p)
  BY <1>2
<1> HIDE DEF W, f, L, n
<1>5. /\ \A i \in p..L + 1 : f[i] \in Seq(Int)
      /\ f[L + 1] = <<>>
  BY <1>3 DEF NumbersReadFrom, L
<1>6. 0 \in S
  <2>1. ASSUME NEW i \in p..L + 1, Left(W[n + 1], i)
        PROVE  Got(i, 0)
    <3>1. Len(W[n + 1]) = 0
      BY <1>2
    <3>2. i = L + 1
      BY <2>1, <3>1, <1>1
    <3> QED BY <3>2, <1>5
  <2>2. n + 1 - 0 = n + 1
    BY <1>1
  <2> HIDE DEF Left, Got
  <2> QED BY <2>1, <2>2
<1>7. ASSUME NEW r \in S
      PROVE  r + 1 \in S
  <2> SUFFICES ASSUME r + 1 <= n, NEW i \in p..L + 1, Left(W[n + 1 - (r + 1)], i) PROVE Got(i, r + 1)
    <3> HIDE DEF Left, Got
    <3> QED OBVIOUS
  <2> DEFINE k == n - r
             a == Uvarint[s[k]]
             w == W[k + 1]
             e == i + Len(a)
  <2>1. r \in Nat /\ k \in 1..n /\ n + 1 - (r + 1) = k /\ n + 1 - r = k + 1 /\ k + 1 \in 1..n + 1 /\ i \in Nat /\ i >= 1
    BY <1>1
  <2>2. \A j \in p..L + 1 : Left(w, j) => Got(j, r)
    <3> HIDE DEF Left, Got
    <3>1. r <= n
      BY <2>1, <1>1
    <3>2. \A j \in p..L + 1 : Left(W[n + 1 - r], j) => Got(j, r)
      BY <3>1
    <3> QED BY <2>1, <3>2
  <2> HIDE DEF k
  <2>3. s[k] \in Y
    BY <2>1, <1>1
  <2>4. a \in Seq(ByteValues) /\ Len(a) \in 1..MaxVarintLen
    <3> DEFINE v == s[k]
    <3> HIDE DEF v
    <3>1. v \in 0..W64 - 1
      BY <2>3 DEF v
    <3> QED BY <3>1, WrittenShape DEF v
  <2>5. W[k] = a \o w /\ w \in Seq(ByteValues)
    BY <2>1, <1>2
  <2>6. Left(W[k], i)
    BY <2>1
  <2> HIDE DEF a, w
  <2>7. /\ Len(W[k]) = Len(a) + Len(w) /\ Len(a) \in Nat /\ Len(w) \in Nat /\ Len(a) >= 1
        /\ \A j \in 1..Len(a) + Len(w) : W[k][j] = IF j <= Len(a) THEN a[j] ELSE w[j - Len(a)]
    <3>1. Len(a) >= 1
      <4>1. MaxVarintLen \in Nat
        BY VarintsAssumption
      <4> QED BY <4>1, <2>4
    <3> QED BY <3>1, <2>4, <2>5, Joined
  <2>8. i - 1 + (Len(a) + Len(w)) = L /\ \A j \in 1..Len(a) + Len(w) : data[i + j - 1] = W[k][j]
    BY <2>6, <2>7
  <2>9. i + Len(a) - 1 <= L /\ e \in p..L + 1 /\ i \in p..L /\ i \in Nat \ {0} /\ e - 1 + Len(w) = L
    <3> DEFINE la == Len(a)
               lw == Len(w)
    <3>1. la \in Nat /\ lw \in Nat /\ la >= 1 /\ i - 1 + (la + lw) = L
      BY <2>7, <2>8
    <3> HIDE DEF la, lw
    <3>2. i + la - 1 <= L /\ i + la \in p..L + 1 /\ i \in p..L /\ i \in Nat \ {0} /\ (i + la) - 1 + lw = L
      BY <3>1, <2>1, <1>1
    <3> QED BY <3>2 DEF la, lw
  <2>10. StandsAt(a, data, i)
    <3>1. ASSUME NEW j \in 1..Len(a)
          PROVE  data[i + j - 1] = a[j]
      <4>1. j \in 1..Len(a) + Len(w) /\ j <= Len(a)
        <5> DEFINE la == Len(a)
                   lw == Len(w)
        <5>1. la \in Nat /\ lw \in Nat /\ j \in 1..la
          BY <2>7
        <5> HIDE DEF la, lw
        <5>2. j \in 1..la + lw /\ j <= la
          BY <5>1
        <5> QED BY <5>2 DEF la, lw
      <4> QED BY <4>1, <2>7, <2>8
    <3> QED BY <3>1, <2>9 DEF StandsAt, L
  <2>11. VarintLength(data, i) = Len(a) /\ VarintValue(data, i) = s[k]
    <3> DEFINE v == s[k]
    <3> HIDE DEF v
    <3>1. v \in 0..W64 - 1 /\ StandsAt(Uvarint[v], data, i)
      BY <2>3, <2>10 DEF v, a
    <3> QED BY <3>1, <2>9, ReadsWritten DEF v, a
  <2>12. Left(w, e)
    <3>1. ASSUME NEW j \in 1..Len(w)
          PROVE  data[e + j - 1] = w[j]
      <4> DEFINE la == Len(a)
                 lw == Len(w)
      <4>1. la + j \in 1..la + lw /\ ~(la + j <= la) /\ (la + j) - la = j /\ i + (la + j) - 1 = (i + la) + j - 1
        <5>1. la \in Nat /\ lw \in Nat /\ j \in Nat /\ j >= 1 /\ j <= lw /\ i \in Nat
          BY <2>1, <2>7
        <5> HIDE DEF la, lw
        <5> QED BY <5>1
      <4> DEFINE x == la + j
      <4>2. x \in 1..la + lw /\ ~(x <= la) /\ x - la = j /\ i + x - 1 = e + j - 1
        BY <4>1
      <4> HIDE DEF x, e
      <4>3. data[i + x - 1] = W[k][x] /\ W[k][x] = w[x - la]
        BY <4>2, <2>7, <2>8
      <4> QED BY <4>2, <4>3
    <3> QED BY <3>1, <2>9
  <2>13. Got(e, r)
    <3> HIDE DEF Left, Got, e
    <3> QED BY <2>2, <2>9, <2>12
  <2>14. f[i] = <<s[k]>> \o f[e]
    <3>1. VarintLength(data, i) # 0
      BY <2>7, <2>11
    <3> QED BY <3>1, <2>9, <2>11, <1>3 DEF NumbersReadFrom, L
  <2>15. f[e] \in Seq(Int) /\ s[k] \in Int
    <3>1. s[k] \in Int
      BY <2>3, <1>1
    <3> HIDE DEF e
    <3> QED BY <3>1, <2>9, <1>5
  <2> DEFINE h == f[e]
             z == s[k]
  <2>16. Len(h) = r /\ \A l \in 1..r : h[l] = s[n - r + l]
    BY <2>13
  <2>17. f[i] = <<z>> \o h /\ h \in Seq(Int) /\ z \in Int
    BY <2>14, <2>15
  <2> HIDE DEF h, z
  <2>18. Len(f[i]) = Len(h) + 1 /\ f[i][1] = z /\ \A l \in 1..Len(h) : f[i][l + 1] = h[l]
    BY <2>17, PutInFront
  <2>19. ASSUME NEW l \in 1..r + 1
         PROVE  f[i][l] = s[n - (r + 1) + l]
    <3>1. CASE l = 1
      <4>1. n - (r + 1) + l = k
        BY <3>1, <2>1, <1>1 DEF k
      <4> QED BY <4>1, <3>1, <2>18 DEF z
    <3>2. CASE l # 1
      <4>1. l - 1 \in 1..r /\ (l - 1) + 1 = l /\ n - r + (l - 1) = n - (r + 1) + l
        BY <3>2, <2>1, <1>1
      <4> QED BY <4>1, <2>16, <2>18
    <3> QED BY <3>1, <3>2
  <2> QED BY <2>16, <2>18, <2>19
<1>8. S = Nat
  <2>1. S \in SUBSET Nat
    OBVIOUS
  <2> HIDE DEF S
  <2> QED BY <2>1, <1>6, <1>7, NumberInduction
<1>9. Got(p, n)
  <2>1. n \in S /\ n + 1 - n = 1 /\ p \in p..L + 1 /\ n <= n
    <3>1. p \in 1..L + 1
      BY DEF L
    <3> HIDE DEF S
    <3> QED BY <3>1, <1>1, <1>8
  <2> HIDE DEF Got, Left
  <2> QED BY <2>1, <1>4
<1> DEFINE h == f[p]
<1>10. h \in Seq(Int) /\ Len(h) = n /\ \A l \in 1..n : h[l] = s[l]
  <2>1. p \in p..L + 1
    <3>1. p \in 1..L + 1
      BY DEF L
    <3> QED BY <3>1, <1>1
  <2>2. \A l \in 1..n : n - n + l = l
    BY <1>1
  <2> QED BY <2>1, <2>2, <1>5, <1>9
<1> HIDE DEF h
<1>11. h = s
  <2>1. s \in Seq(Y) /\ Len(s) = n
    BY DEF n
  <2> HIDE DEF Y, n
  <2>2. h = [l \in 1..n |-> h[l]] /\ s = [l \in 1..n |-> s[l]]
    BY <2>1, <1>10
  <2>3. [l \in 1..n |-> h[l]] = [l \in 1..n |-> s[l]]
    BY <1>10
  <2> QED BY <2>2, <2>3
<1> QED BY <1>3, <1>11 DEF h

(* What is read without a break are uint64 values.                         *)
LEMMA ReadsNumbers ==
    ASSUME NEW data \in Seq(ByteValues), NEW first \in 1..Len(data) + 1,
           \A k \in 1..Len(Varints(data, first)) : Varints(data, first)[k] # Broken
    PROVE  Varints(data, first) \in Seq(0..W64 - 1)
<1> DEFINE L == Len(data)
           N == L + 1
           D == first..N
           f == NumbersRead(data, first)
           Y == 0..W64 - 1
           Whole(t) == \A k \in 1..Len(t) : t[k] # Broken
           Fits(t) == \A k \in 1..Len(t) : t[k] \in Y
           S == {i \in D : Whole(f[i]) => Fits(f[i])}
           m == [i \in D |-> N - i]
<1>1. L \in Nat /\ N \in Nat /\ first \in D /\ first \in Nat /\ first >= 1 /\ \A i \in D : i # N => i \in first..L
  <2>1. L \in Nat /\ first \in 1..L + 1
    OBVIOUS
  <2> HIDE DEF L
  <2> QED BY <2>1
<1>2. NumbersReadFrom(f, data, first) /\ Varints(data, first) = f[first]
  BY VarintsAre
<1> HIDE DEF f
<1>3. /\ \A i \in D : f[i] \in Seq(Int)
      /\ f[N] = <<>>
      /\ \A i \in first..L :
           \/ f[i] = <<Broken>>
           \/ /\ i + VarintLength(data, i) \in i + 1..N
              /\ VarintValue(data, i) \in Y
              /\ f[i] = <<VarintValue(data, i)>> \o f[i + VarintLength(data, i)]
  BY <1>2 DEF NumbersReadFrom
<1> HIDE DEF L, N
<1>4. ASSUME NEW d \in D, \A e \in D : m[e] < m[d] => e \in S
      PROVE  d \in S
  <2> SUFFICES ASSUME Whole(f[d]) PROVE Fits(f[d])
    OBVIOUS
  <2>1. CASE d = N
    <3>1. f[d] = <<>>
      BY <2>1, <1>3
    <3> QED BY <3>1
  <2>2. CASE d # N
    <3>1. d \in first..L
      BY <2>2, <1>1
    <3>2. f[d] # <<Broken>>
      <4> SUFFICES ASSUME f[d] = <<Broken>> PROVE FALSE
        OBVIOUS
      <4>1. 1 \in 1..Len(f[d]) /\ f[d][1] = Broken
        OBVIOUS
      <4> QED BY <4>1
    <3> DEFINE e == d + VarintLength(data, d)
               z == VarintValue(data, d)
               h == f[e]
    <3>3. e \in d + 1..N /\ z \in Y /\ f[d] = <<z>> \o h
      BY <3>1, <3>2, <1>3
    <3> HIDE DEF e, z
    <3>4. e \in D /\ m[e] < m[d]
      BY <3>1, <3>3, <1>1
    <3>5. h \in Seq(Int) /\ e \in S
      <4> HIDE DEF S, D, m
      <4> QED BY <3>4, <1>3, <1>4
    <3>6. z \in Int
      <4>1. W64 \in Nat
        BY WidthsAssumption
      <4> QED BY <4>1, <3>3
    <3>7. Whole(h) => Fits(h)
      BY <3>5
    <3> HIDE DEF h, Y
    <3>8. Len(f[d]) = Len(h) + 1 /\ f[d][1] = z /\ Len(h) \in Nat /\ \A l \in 1..Len(h) : f[d][l + 1] = h[l]
      BY <3>3, <3>5, <3>6, PutInFront
    <3>9. ASSUME NEW l \in 1..Len(h)
          PROVE  h[l] # Broken
      <4>1. l + 1 \in 1..Len(f[d])
        BY <3>8
      <4> QED BY <4>1, <3>8
    <3>10. Fits(h)
      BY <3>7, <3>9
    <3>11. ASSUME NEW l \in 1..Len(f[d])
           PROVE  f[d][l] \in Y
      <4>1. CASE l = 1
        BY <4>1, <3>3, <3>8
      <4>2. CASE l # 1
        <5>1. l - 1 \in 1..Len(h) /\ (l - 1) + 1 = l
          BY <4>2, <3>8
        <5> QED BY <5>1, <3>8, <3>10
      <4> QED BY <4>1, <4>2
    <3> QED BY <3>11
  <2> QED BY <2>1, <2>2
<1>5. D \subseteq S
  <2>1. \A d \in D : m[d] \in Nat
    BY <1>1
  <2> HIDE DEF D, S, m
  <2> QED BY <2>1, <1>4, MeasureInduction
<1> DEFINE h == f[first]
<1>6. Whole(h) => Fits(h)
  <2>1. first \in S
    <3> HIDE DEF S, D
    <3> QED BY <1>1, <1>5
  <2> QED BY <2>1
<1>7. Whole(h) /\ h \in Seq(Int)
  BY <1>1, <1>2, <1>3
<1> HIDE DEF h
<1>8. h \in Seq(Y)
  <2> HIDE DEF Y
  <2>1. Len(h) \in Nat /\ h \in [1..Len(h) -> Y]
    BY <1>6, <1>7
  <2> QED BY <2>1, SequenceOf
<1> QED BY <1>2, <1>8 DEF h

(* What is written for the numbers that were read is not longer than what  *)
(* they were read from, and it is the same if it is as long.               *)
LEMMA WritesNoMore ==
    ASSUME NEW data \in Seq(ByteValues), NEW first \in 1..Len(data) + 1, NEW s \in Seq(0..W64 - 1),
           s = Varints(data, first)
    PROVE  /\ Uvarints(s) \in Seq(ByteValues)
           /\ Len(Uvarints(s)) <= Len(data) + 1 - first
           /\ Len(Uvarints(s)) = Len(data) + 1 - first =>
                \A j \in 1..Len(Uvarints(s)) : data[first + j - 1] = Uvarints(s)[j]
<1> DEFINE n == Len(s)
           L == Len(data)
           N == L + 1
           W == PutsOf(s)
           f == NumbersRead(data, first)
           Y == 0..W64 - 1
           Short(w, i) == /\ Len(w) <= N - i
                          /\ Len(w) = N - i => \A j \in 1..Len(w) : data[i + j - 1] = w[j]
           Got(i, r) == Len(f[i]) = r /\ \A l \in 1..r : f[i][l] = s[n - r + l]
           S == {r \in Nat : r <= n => \A i \in first..N : Got(i, r) => Short(W[n + 1 - r], i)}
<1>1. /\ L \in Nat /\ N \in Nat /\ N = L + 1 /\ n \in Nat /\ first \in Nat /\ first >= 1 /\ first \in first..N
      /\ W64 \in Nat /\ \A k \in 1..n : s[k] \in Y
  <2>1. L \in Nat
    OBVIOUS
  <2>2. first \in 1..L + 1 /\ s \in Seq(Y)
    OBVIOUS
  <2> HIDE DEF L, Y
  <2> QED BY <2>1, <2>2, WidthsAssumption
<1>2. /\ \A k \in 1..n + 1 : W[k] \in Seq(ByteValues)
      /\ W[n + 1] = <<>>
      /\ \A k \in 1..n : W[k] = Uvarint[s[k]] \o W[k + 1]
      /\ Uvarints(s) = W[1]
  <2> HIDE DEF W
  <2> QED BY UvarintsAre DEF WritesFrom, W
<1>3. NumbersReadFrom(f, data, first) /\ Varints(data, first) = f[first]
  BY VarintsAre
<1> HIDE DEF W, f, n
<1>4. /\ \A i \in first..N : f[i] \in Seq(Int)
      /\ f[N] = <<>>
      /\ \A i \in first..L :
           \/ f[i] = <<Broken>>
           \/ /\ VarintLength(data, i) \in 1..MaxVarintLen
              /\ IsVarint(data, i, VarintLength(data, i))
              /\ i + VarintLength(data, i) \in i + 1..N
              /\ VarintValue(data, i) \in Y
              /\ f[i] = <<VarintValue(data, i)>> \o f[i + VarintLength(data, i)]
  BY <1>3 DEF NumbersReadFrom
<1> HIDE DEF L, N
<1>5. 0 \in S
  <2>1. ASSUME NEW i \in first..N
        PROVE  Short(W[n + 1], i)
    <3>1. Len(W[n + 1]) = 0
      BY <1>2
    <3>2. N - i >= 0 /\ 1..0 = {}
      BY <1>1
    <3> QED BY <3>1, <3>2
  <2>2. n + 1 - 0 = n + 1
    BY <1>1
  <2> HIDE DEF Short, Got
  <2> QED BY <2>1, <2>2
<1>6. ASSUME NEW r \in S
      PROVE  r + 1 \in S
  <2> SUFFICES ASSUME r + 1 <= n, NEW i \in first..N, Got(i, r + 1) PROVE Short(W[n + 1 - (r + 1)], i)
    OBVIOUS
  <2> DEFINE k == n - r
             a == Uvarint[s[k]]
             w == W[k + 1]
             q == VarintLength(data, i)
             e == i + q
             h == f[e]
             z == VarintValue(data, i)
  <2>1. r \in Nat /\ k \in 1..n /\ n + 1 - (r + 1) = k /\ n + 1 - r = k + 1 /\ k + 1 \in 1..n + 1 /\ i \in Nat /\ i >= 1
    BY <1>1
  <2>2. \A j \in first..N : Got(j, r) => Short(w, j)
    <3> HIDE DEF Short, Got
    <3> QED BY <2>1, <1>1
  <2>3. Len(f[i]) = r + 1 /\ \A l \in 1..r + 1 : f[i][l] = s[n - (r + 1) + l]
    OBVIOUS
  <2>4. f[i][1] = s[k]
    <3>1. 1 \in 1..r + 1 /\ n - (r + 1) + 1 = k
      BY <2>1, <1>1
    <3> HIDE DEF k
    <3> QED BY <3>1, <2>3
  <2> HIDE DEF k
  <2>5. s[k] \in Y
    BY <2>1, <1>1
  <2>6. i \in first..L
    <3>1. i # N
      <4> SUFFICES ASSUME i = N PROVE FALSE
        OBVIOUS
      <4>1. Len(f[i]) = 0
        BY <1>4
      <4> QED BY <4>1, <2>1, <2>3
    <3> QED BY <3>1, <1>1
  <2>7. f[i] # <<Broken>>
    <3> SUFFICES ASSUME f[i] = <<Broken>> PROVE FALSE
      OBVIOUS
    <3>1. s[k] = Broken
      BY <2>4
    <3> QED BY <3>1, <2>5, <1>1 DEF Broken
  <2>8. q \in 1..MaxVarintLen /\ IsVarint(data, i, q) /\ e \in i + 1..N /\ z \in Y /\ f[i] = <<z>> \o h
    BY <2>6, <2>7, <1>4
  <2>9. LET u == Uvarint[z]
        IN  Len(u) \in Nat /\ Len(u) <= q /\ (Len(u) = q => \A l \in 1..q : data[i + l - 1] = u[l])
    <3>1. i \in Nat \ {0}
      BY <2>1
    <3>2. VarintValue(data, i) = z
      OBVIOUS
    <3> HIDE DEF q, z
    <3> QED BY <3>1, <3>2, <2>8, VarintsAreNumbers
  <2> HIDE DEF q, z
  <2>10. e \in first..N /\ h \in Seq(Int) /\ z \in Int /\ q \in Nat /\ q >= 1
    <3>1. MaxVarintLen \in Nat
      BY VarintsAssumption
    <3>2. e \in first..N /\ z \in Int /\ q \in Nat /\ q >= 1
      BY <3>1, <2>1, <2>8, <1>1
    <3> HIDE DEF e
    <3> QED BY <3>2, <1>4
  <2> HIDE DEF h
  <2>11. Len(f[i]) = Len(h) + 1 /\ f[i][1] = z /\ Len(h) \in Nat /\ \A l \in 1..Len(h) : f[i][l + 1] = h[l]
    BY <2>8, <2>10, PutInFront
  <2>12. z = s[k] /\ a = Uvarint[z]
    BY <2>4, <2>11
  <2>13. Len(h) = r
    BY <2>1, <2>3, <2>11
  <2>14. ASSUME NEW l \in 1..r
         PROVE  h[l] = s[n - r + l]
    <3>1. l + 1 \in 1..r + 1 /\ n - (r + 1) + (l + 1) = n - r + l
      BY <2>1, <1>1
    <3> QED BY <3>1, <2>3, <2>11, <2>13
  <2>15. Short(w, e)
    <3>1. Got(e, r)
      BY <2>13, <2>14 DEF h
    <3> HIDE DEF Got, Short, e
    <3> QED BY <3>1, <2>2, <2>10
  <2>16. W[k] = a \o w /\ w \in Seq(ByteValues) /\ a \in Seq(ByteValues)
    <3>1. a \in Seq(ByteValues)
      <4> HIDE DEF Y
      <4>1. z \in 0..W64 - 1
        BY <2>8 DEF Y
      <4> QED BY <4>1, <2>12, UvarintIs
    <3> QED BY <3>1, <2>1, <1>2
  <2> HIDE DEF a, w
  <2> DEFINE la == Len(a)
             lw == Len(w)
             b == W[k]
  <2>17. /\ Len(b) = la + lw /\ la \in Nat /\ lw \in Nat
         /\ \A j \in 1..la + lw : b[j] = IF j <= la THEN a[j] ELSE w[j - la]
    BY <2>16, Joined
  <2>18. la <= q /\ (la = q => \A l \in 1..q : data[i + l - 1] = a[l])
    BY <2>9, <2>12
  <2>19. lw <= N - e /\ (lw = N - e => \A j \in 1..lw : data[e + j - 1] = w[j])
    BY <2>15
  <2> HIDE DEF la, lw, b
  <2>20. la + lw <= N - i /\ (la + lw = N - i => la = q /\ lw = N - e)
    BY <2>10, <2>17, <2>18, <2>19, <2>1, <1>1 DEF e
  <2>21. ASSUME la + lw = N - i, NEW j \in 1..la + lw
         PROVE  data[i + j - 1] = b[j]
    <3>0. la = q /\ lw = N - e
      BY <2>20, <2>21
    <3>1. CASE j <= la
      <4>1. j \in 1..q
        BY <3>0, <3>1, <2>17
      <4> QED BY <4>1, <3>0, <3>1, <2>17, <2>18
    <3>2. CASE ~(j <= la)
      <4>1. j - la \in 1..lw /\ e + (j - la) - 1 = i + j - 1
        BY <3>0, <3>2, <2>1, <2>10, <2>17 DEF e
      <4> QED BY <4>1, <3>0, <3>2, <2>17, <2>19
    <3> QED BY <3>1, <3>2
  <2>22. Short(b, i)
    BY <2>17, <2>20, <2>21
  <2> HIDE DEF Short
  <2> QED BY <2>1, <2>22 DEF b
<1>7. S = Nat
  <2>1. S \in SUBSET Nat
    OBVIOUS
  <2> HIDE DEF S
  <2> QED BY <2>1, <1>5, <1>6, NumberInduction
<1>8. Got(first, n)
  <2>1. \A l \in 1..n : n - n + l = l
    BY <1>1
  <2>2. f[first] = s
    BY <1>3
  <2> QED BY <2>1, <2>2 DEF n
<1>9. Short(W[1], first)
  <2>1. n \in S /\ n + 1 - n = 1 /\ n <= n
    <3> HIDE DEF S
    <3> QED BY <1>1, <1>7
  <2> HIDE DEF Got, Short
  <2> QED BY <2>1, <1>1, <1>8
<1>10. W[1] \in Seq(ByteValues)
  BY <1>1, <1>2
<1> QED BY <1>2, <1>9, <1>10 DEF N, L

-----------------------------------------------------------------------------
(* Data with its end cut off.                                              *)

(* Where both data have the same bytes they have the same varints.         *)
LEMMA SameVarint ==
    ASSUME NEW data \in Seq(ByteValues), NEW cut \in Seq(ByteValues),
           NEW i \in Nat \ {0}, NEW n \in 1..MaxVarintLen,
           i + n - 1 <= Len(data), i + n - 1 <= Len(cut),
           \A j \in i..i + n - 1 : data[j] = cut[j]
    PROVE  IsVarint(data, i, n) <=> IsVarint(cut, i, n)
<1>1. MaxVarintLen \in Nat
  BY VarintsAssumption
<1>2. /\ \A j \in i..i + n - 2 : j \in i..i + n - 1
      /\ i + n - 1 \in i..i + n - 1
  BY <1>1
<1>3. /\ \A j \in i..i + n - 2 : data[j] = cut[j]
      /\ data[i + n - 1] = cut[i + n - 1]
  BY <1>2
<1> QED BY <1>3 DEF IsVarint

(* ... and the varints stand for the same number.                          *)
LEMMA SameValue ==
    ASSUME NEW data \in Seq(ByteValues), NEW cut \in Seq(ByteValues),
           NEW last \in 1..Len(data), last <= Len(cut),
           \A j \in 1..last : data[j] = cut[j]
    PROVE  \A j \in 1..last : ValuesOf(data, last)[j] = ValuesOf(cut, last)[j]
<1> DEFINE g == ValuesOf(data, last)
           h == ValuesOf(cut, last)
           S == {k \in Nat : k < last => g[last - k] = h[last - k]}
<1>1. last \in Nat /\ last >= 1 /\ last \in 1..last /\ last \in 1..Len(cut)
  <2>1. Len(data) \in Nat /\ Len(cut) \in Nat
    OBVIOUS
  <2> QED BY <2>1
<1>2. /\ g[last] = data[last]
      /\ \A j \in 1..last - 1 : g[j] = data[j] - VarintBase + VarintBase * g[j + 1]
  BY ValuesAre
<1>3. /\ h[last] = cut[last]
      /\ \A j \in 1..last - 1 : h[j] = cut[j] - VarintBase + VarintBase * h[j + 1]
  BY <1>1, ValuesAre
<1> HIDE DEF g, h
<1>4. 0 \in S
  <2>1. last - 0 = last /\ data[last] = cut[last]
    BY <1>1
  <2> QED BY <2>1, <1>2, <1>3
<1>5. ASSUME NEW k \in S
      PROVE  k + 1 \in S
  <2> SUFFICES ASSUME k + 1 < last PROVE g[last - (k + 1)] = h[last - (k + 1)]
    OBVIOUS
  <2> DEFINE j == last - (k + 1)
  <2>1. j \in 1..last - 1 /\ j \in 1..last /\ j + 1 = last - k /\ k < last
    BY <1>1
  <2>2. g[j + 1] = h[j + 1]
    BY <2>1
  <2> HIDE DEF j
  <2>3. data[j] = cut[j]
    BY <2>1
  <2>4. g[j] = h[j]
    BY <2>1, <2>2, <2>3, <1>2, <1>3
  <2> QED BY <2>4 DEF j
<1>6. S = Nat
  <2>1. S \in SUBSET Nat
    OBVIOUS
  <2> HIDE DEF S
  <2> QED BY <2>1, <1>4, <1>5, NumberInduction
<1>7. ASSUME NEW j \in 1..last
      PROVE  g[j] = h[j]
  <2>1. last - j \in Nat /\ last - j < last /\ last - (last - j) = j
    BY <1>1
  <2>2. last - j \in S
    <3> HIDE DEF S
    <3> QED BY <2>1, <1>6
  <2> QED BY <2>1, <2>2
<1> QED BY <1>7 DEF g, h

(* The first m bytes of the data.                                          *)
IsCut(cut, data, m) ==
  /\ m \in Nat /\ m < Len(data)
  /\ cut \in Seq(ByteValues) /\ Len(cut) = m
  /\ \A j \in 1..m : cut[j] = data[j]

(* A varint that ends before the cut is read as before, one that the cut   *)
(* goes through is refused.                                                *)
LEMMA CutVarint ==
    ASSUME NEW data \in Seq(ByteValues), NEW m, NEW cut, IsCut(cut, data, m),
           NEW i \in Nat \ {0}, NEW n, n = VarintLength(data, i), n # 0
    PROVE  /\ i + n - 1 <= m => VarintLength(cut, i) = n /\ VarintValue(cut, i) = VarintValue(data, i)
           /\ i + n - 1 > m  => VarintLength(cut, i) = 0
<1>1. /\ n \in 1..MaxVarintLen /\ IsVarint(data, i, n) /\ MaxVarintLen \in Nat
      /\ m \in Nat /\ m < Len(data) /\ cut \in Seq(ByteValues) /\ Len(cut) = m
      /\ \A j \in 1..m : cut[j] = data[j]
      /\ Len(data) \in Nat
  BY LengthMeans, VarintsAssumption DEF IsCut
<1>2. ASSUME i + n - 1 <= m
      PROVE  VarintLength(cut, i) = n /\ VarintValue(cut, i) = VarintValue(data, i)
  <2>1. i + n - 1 <= Len(data) /\ i + n - 1 <= Len(cut) /\ \A j \in i..i + n - 1 : data[j] = cut[j]
    BY <1>1, <1>2
  <2>2. IsVarint(cut, i, n)
    BY <2>1, <1>1, SameVarint
  <2>3. VarintLength(cut, i) = n
    BY <2>2, <1>1, LengthIs
  <2> DEFINE last == i + n - 1
  <2>4. last \in 1..Len(data) /\ last <= Len(cut) /\ (\A j \in 1..last : data[j] = cut[j]) /\ i \in 1..last
    BY <1>1, <1>2
  <2>5. VarintValue(data, i) = ValuesOf(data, last)[i]
    BY ValueOfVarint
  <2>6. VarintValue(cut, i) = ValuesOf(cut, last)[i]
    BY <2>3, ValueOfVarint
  <2> HIDE DEF last
  <2>7. ValuesOf(data, last)[i] = ValuesOf(cut, last)[i]
    BY <2>4, <1>1, SameValue
  <2> QED BY <2>3, <2>5, <2>6, <2>7
<1>3. ASSUME i + n - 1 > m
      PROVE  VarintLength(cut, i) = 0
  <2> SUFFICES ASSUME VarintLength(cut, i) # 0 PROVE FALSE
    OBVIOUS
  <2> DEFINE k == VarintLength(cut, i)
  <2>1. k \in 1..MaxVarintLen /\ IsVarint(cut, i, k)
    BY LengthMeans
  <2> HIDE DEF k
  <2>2. i + k - 1 <= m
    BY <2>1, <1>1 DEF IsVarint
  <2>3. i + k - 1 <= Len(data) /\ i + k - 1 <= Len(cut) /\ \A j \in i..i + k - 1 : data[j] = cut[j]
    BY <2>1, <2>2, <1>1
  <2>4. IsVarint(data, i, k)
    BY <2>1, <2>3, <1>1, SameVarint
  <2>5. k = n
    BY <2>1, <2>4, LengthIs
  <2> QED BY <2>2, <2>5, <1>1, <1>3
<1> QED BY <1>2, <1>3

(* What is left is fewer numbers, or its last one cannot be read.          *)
LEMMA CutNumbers ==
    ASSUME NEW data \in Seq(ByteValues), NEW m, NEW cut, IsCut(cut, data, m),
           NEW first \in 1..m + 1,
           \A k \in 1..Len(Varints(data, first)) : Varints(data, first)[k] # Broken
    PROVE  \/ \E k \in 1..Len(Varints(cut, first)) : Varints(cut, first)[k] = Broken
           \/ /\ Len(Varints(cut, first)) < Len(Varints(data, first))
              /\ \A k \in 1..Len(Varints(cut, first)) : Varints(cut, first)[k] = Varints(data, first)[k]
<1> DEFINE L == Len(data)
           D == first..m + 1
           f == NumbersRead(data, first)
           g == NumbersRead(cut, first)
           Whole(t) == \A k \in 1..Len(t) : t[k] # Broken
           Less(t, s) == \/ \E k \in 1..Len(t) : t[k] = Broken
                         \/ Len(t) < Len(s) /\ \A k \in 1..Len(t) : t[k] = s[k]
           S == {i \in D : Whole(f[i]) => Less(g[i], f[i])}
           w == [i \in D |-> m + 1 - i]
<1>1. /\ m \in Nat /\ L \in Nat /\ m < L /\ cut \in Seq(ByteValues) /\ Len(cut) = m
      /\ first \in 1..L + 1 /\ first \in Nat /\ first >= 1 /\ first \in D
  <2>1. /\ m \in Nat /\ L \in Nat /\ m < L /\ cut \in Seq(ByteValues) /\ Len(cut) = m
    BY DEF IsCut
  <2> HIDE DEF L
  <2> QED BY <2>1
<1>2. NumbersReadFrom(f, data, first) /\ Varints(data, first) = f[first]
  BY <1>1, VarintsAre
<1>3. NumbersReadFrom(g, cut, first) /\ Varints(cut, first) = g[first]
  <2>1. first \in 1..Len(cut) + 1
    BY <1>1
  <2> QED BY <2>1, <1>1, VarintsAre
<1> HIDE DEF f, g
<1>4. /\ \A i \in first..L + 1 : f[i] \in Seq(Int)
      /\ \A i \in first..L :
           \/ f[i] = <<Broken>>
           \/ /\ VarintLength(data, i) \in 1..MaxVarintLen
              /\ i + VarintLength(data, i) \in i + 1..L + 1
              /\ VarintValue(data, i) \in 0..W64 - 1
              /\ f[i] = <<VarintValue(data, i)>> \o f[i + VarintLength(data, i)]
  BY <1>2 DEF NumbersReadFrom
<1>5. /\ \A i \in first..m + 1 : g[i] \in Seq(Int)
      /\ g[m + 1] = <<>>
      /\ \A i \in first..m :
           \/ VarintLength(cut, i) = 0 /\ g[i] = <<Broken>>
           \/ g[i] = <<VarintValue(cut, i)>> \o g[i + VarintLength(cut, i)]
  BY <1>1, <1>3 DEF NumbersReadFrom
<1> HIDE DEF L
<1>6. ASSUME NEW d \in D, \A e \in D : w[e] < w[d] => e \in S
      PROVE  d \in S
  <2> SUFFICES ASSUME Whole(f[d]) PROVE Less(g[d], f[d])
    OBVIOUS
  <2> DEFINE n == VarintLength(data, d)
             z == VarintValue(data, d)
             e == d + n
             s == f[e]
             t == g[e]
  <2>1. d \in first..L /\ d \in Nat \ {0} /\ d \in Nat /\ d <= m + 1
    BY <1>1
  <2>2. f[d] # <<Broken>>
    <3> SUFFICES ASSUME f[d] = <<Broken>> PROVE FALSE
      OBVIOUS
    <3>1. 1 \in 1..Len(f[d]) /\ f[d][1] = Broken
      OBVIOUS
    <3> QED BY <3>1
  <2>3. n \in 1..MaxVarintLen /\ e \in d + 1..L + 1 /\ z \in 0..W64 - 1 /\ f[d] = <<z>> \o s
    BY <2>1, <2>2, <1>4
  <2>4. n \in Nat /\ n # 0 /\ z \in Int
    <3>1. MaxVarintLen \in Nat /\ W64 \in Nat
      BY VarintsAssumption, WidthsAssumption
    <3>2. n \in 1..MaxVarintLen /\ z \in 0..W64 - 1
      BY <2>3
    <3> HIDE DEF n, z
    <3> QED BY <3>1, <3>2
  <2>5. /\ d + n - 1 <= m => VarintLength(cut, d) = n /\ VarintValue(cut, d) = z
        /\ d + n - 1 > m  => VarintLength(cut, d) = 0
    <3> DEFINE l == n
    <3>1. l = VarintLength(data, d) /\ l # 0
      BY <2>4
    <3> HIDE DEF l
    <3>2. /\ d + l - 1 <= m => VarintLength(cut, d) = l /\ VarintValue(cut, d) = z
          /\ d + l - 1 > m  => VarintLength(cut, d) = 0
      BY <3>1, <2>1, CutVarint
    <3> QED BY <3>2 DEF l
  <2> HIDE DEF n, z
  <2>6. s \in Seq(Int)
    <3>1. e \in first..L + 1
      BY <2>1, <2>3, <2>4, <1>1
    <3> HIDE DEF e
    <3> QED BY <3>1, <1>4
  <2>7. Len(f[d]) = Len(s) + 1 /\ f[d][1] = z /\ Len(s) \in Nat /\ \A l \in 1..Len(s) : f[d][l + 1] = s[l]
    <3> HIDE DEF s
    <3> QED BY <2>3, <2>4, <2>6, PutInFront
  <2>8. CASE d = m + 1
    <3>1. Len(g[d]) = 0
      BY <2>8, <1>5
    <3> HIDE DEF s
    <3>2. Len(g[d]) < Len(f[d])
      BY <3>1, <2>7
    <3>3. \A k \in 1..Len(g[d]) : g[d][k] = f[d][k]
      BY <3>1
    <3> QED BY <3>2, <3>3
  <2>9. CASE d # m + 1 /\ d + n - 1 > m
    <3>1. d \in first..m
      BY <2>1, <2>9, <1>1
    <3>2. g[d] = <<Broken>>
      <4>1. VarintLength(cut, d) = 0
        BY <2>5, <2>9
      <4>2. CASE g[d] = <<Broken>>
        BY <4>2
      <4>3. CASE g[d] # <<Broken>>
        <5>1. VarintLength(cut, d) \in 1..MaxVarintLen
          BY <3>1, <4>3, <1>1, <1>3 DEF NumbersReadFrom
        <5>2. MaxVarintLen \in Nat
          BY VarintsAssumption
        <5> QED BY <5>1, <5>2, <4>1
      <4> QED BY <4>2, <4>3
    <3>3. 1 \in 1..Len(g[d]) /\ g[d][1] = Broken
      BY <3>2
    <3> QED BY <3>3
  <2>10. CASE d # m + 1 /\ d + n - 1 <= m
    <3>1. d \in first..m /\ e \in D /\ w[e] < w[d]
      <4>1. d \in first..m /\ e \in D
        BY <2>1, <2>3, <2>4, <2>10, <1>1
      <4>2. w[e] = m + 1 - e /\ w[d] = m + 1 - d
        <5> HIDE DEF e, D
        <5> QED BY <4>1
      <4>3. m + 1 - e < m + 1 - d
        BY <2>1, <2>3, <2>4, <1>1
      <4> QED BY <4>1, <4>2, <4>3
    <3>2. g[d] = <<z>> \o t
      <4>1. VarintLength(cut, d) = n /\ VarintValue(cut, d) = z
        BY <2>5, <2>10
      <4>2. VarintLength(cut, d) # 0
        BY <4>1, <2>4
      <4> QED BY <3>1, <4>1, <4>2, <1>5
    <3>3. t \in Seq(Int) /\ (Whole(s) => Less(t, s))
      <4>1. e \in S
        <5> HIDE DEF S, D, w, e
        <5> QED BY <3>1, <1>6
      <4> HIDE DEF Whole, Less, e
      <4> QED BY <3>1, <4>1, <1>5
    <3> HIDE DEF s, t
    <3>4. Len(g[d]) = Len(t) + 1 /\ g[d][1] = z /\ Len(t) \in Nat /\ \A l \in 1..Len(t) : g[d][l + 1] = t[l]
      BY <3>2, <3>3, <2>4, PutInFront
    <3>5. Whole(s)
      <4> SUFFICES ASSUME NEW l \in 1..Len(s) PROVE s[l] # Broken
        OBVIOUS
      <4>1. l + 1 \in 1..Len(f[d])
        BY <2>7
      <4> QED BY <4>1, <2>7
    <3>6. CASE \E k \in 1..Len(t) : t[k] = Broken
      <4>1. PICK k \in 1..Len(t) : t[k] = Broken
        BY <3>6
      <4>2. k + 1 \in 1..Len(g[d]) /\ g[d][k + 1] = Broken
        BY <4>1, <3>4
      <4> QED BY <4>2
    <3>7. CASE Len(t) < Len(s) /\ \A k \in 1..Len(t) : t[k] = s[k]
      <4>1. Len(g[d]) < Len(f[d])
        BY <3>4, <3>7, <2>7
      <4>2. ASSUME NEW k \in 1..Len(g[d])
            PROVE  g[d][k] = f[d][k]
        <5>1. CASE k = 1
          BY <5>1, <3>4, <2>7
        <5>2. CASE k # 1
          <6>1. k - 1 \in 1..Len(t) /\ k - 1 \in 1..Len(s) /\ (k - 1) + 1 = k
            BY <5>2, <3>4, <3>7, <2>7
          <6> QED BY <6>1, <3>4, <3>7, <2>7
        <5> QED BY <5>1, <5>2
      <4> QED BY <4>1, <4>2
    <3> QED BY <3>3, <3>5, <3>6, <3>7
  <2>11. d + n - 1 <= m \/ d + n - 1 > m
    BY <2>1, <2>4, <1>1
  <2> QED BY <2>8, <2>9, <2>10, <2>11
<1>7. D \subseteq S
  <2>1. \A i \in D : w[i] \in Nat
    BY <1>1
  <2> HIDE DEF D, S, w
  <2> QED BY <2>1, <1>6, MeasureInduction
<1>8. Whole(f[first]) => Less(g[first], f[first])
  <2>1. first \in S
    <3> HIDE DEF S, D
    <3> QED BY <1>1, <1>7
  <2> HIDE DEF Whole, Less
  <2> QED BY <2>1
<1> QED BY <1>2, <1>3, <1>8

-----------------------------------------------------------------------------
(* The codec.                                                              *)

(* The elements of three sequences joined.                                 *)
LEMMA JoinedThree ==
    ASSUME NEW V, NEW a \in Seq(V), NEW b \in Seq(V), NEW c \in Seq(V),
           NEW joined, joined = a \o b \o c
    PROVE  /\ joined \in Seq(V)
           /\ Len(a) \in Nat /\ Len(b) \in Nat /\ Len(c) \in Nat
           /\ Len(joined) = Len(a) + Len(b) + Len(c)
           /\ \A k \in 1..Len(a) : joined[k] = a[k]
           /\ \A k \in 1..Len(b) : joined[Len(a) + k] = b[k]
           /\ \A k \in 1..Len(c) : joined[Len(a) + Len(b) + k] = c[k]
<1> DEFINE x == a \o b
           y == x \o c
           i == Len(a)
           j == Len(b)
           l == Len(c)
<1>1. i \in Nat /\ j \in Nat /\ l \in Nat
  OBVIOUS
<1>2. x \in Seq(V) /\ Len(x) = i + j /\ \A k \in 1..i + j : x[k] = IF k <= i THEN a[k] ELSE b[k - i]
  BY Joined
<1> HIDE DEF x
<1>3. y \in Seq(V) /\ Len(y) = (i + j) + l /\ \A k \in 1..(i + j) + l : y[k] = IF k <= i + j THEN x[k] ELSE c[k - (i + j)]
  <2>1. y \in Seq(V) /\ Len(y) = Len(x) + l /\ \A k \in 1..Len(x) + l : y[k] = IF k <= Len(x) THEN x[k] ELSE c[k - Len(x)]
    <3>1. x \in Seq(V) /\ c \in Seq(V)
      BY <1>2
    <3> QED BY <3>1, Joined, Zenon
  <2> QED BY <2>1, <1>2
<1> HIDE DEF y, i, j, l
<1>4. ASSUME NEW k \in 1..i
      PROVE  y[k] = a[k]
  <2>1. k \in 1..i + j /\ k \in 1..(i + j) + l /\ k <= i + j /\ k <= i
    BY <1>1
  <2> QED BY <2>1, <1>2, <1>3
<1>5. ASSUME NEW k \in 1..j
      PROVE  y[i + k] = b[k]
  <2>1. i + k \in 1..i + j /\ i + k \in 1..(i + j) + l /\ i + k <= i + j /\ ~(i + k <= i) /\ (i + k) - i = k
    BY <1>1
  <2> QED BY <2>1, <1>2, <1>3
<1>6. ASSUME NEW k \in 1..l
      PROVE  y[i + j + k] = c[k]
  <2> DEFINE z == i + j + k
  <2>1. z \in 1..(i + j) + l /\ ~(z <= i + j) /\ z - (i + j) = k
    BY <1>1
  <2> HIDE DEF z
  <2>2. y[z] = c[k]
    BY <2>1, <1>3
  <2> QED BY <2>2 DEF z
<1>7. joined = y
  BY DEF x, y
<1> QED BY <1>1, <1>3, <1>4, <1>5, <1>6, <1>7 DEF i, j, l

(* Numbers are two and the rest of them.                                   *)
LEMMA TwoAndRest ==
    ASSUME NEW V, NEW s \in Seq(V), Len(s) >= 2
    PROVE  /\ Rest(s) \in Seq(V)
           /\ Len(Rest(s)) = Len(s) - 2
           /\ Len(Rest(s)) \in Nat
           /\ s = <<s[1], s[2]>> \o Rest(s)
           /\ s[1] \in V /\ s[2] \in V
<1> DEFINE L == Len(s)
           e == Rest(s)
           h == <<s[1], s[2]>>
<1>1. L \in Nat /\ s = [k \in 1..L |-> s[k]] /\ 1 \in 1..L /\ 2 \in 1..L /\ \A k \in 1..L : s[k] \in V
  OBVIOUS
<1>2. L - 2 \in Nat /\ \A k \in 1..L - 2 : k + 2 \in 1..L /\ s[k + 2] \in V
  BY <1>1
<1>3. e = [k \in 1..L - 2 |-> s[k + 2]]
  <2>1. e = [k \in 1..L - 3 + 1 |-> s[k + 3 - 1]]
    BY <1>1 DEF Rest
  <2>2. L - 3 + 1 = L - 2 /\ \A k \in 1..L - 2 : k + 3 - 1 = k + 2
    BY <1>1
  <2> HIDE DEF L, e
  <2> QED BY <2>1, <2>2
<1> HIDE DEF L, e
<1>4. e \in Seq(V) /\ Len(e) = L - 2 /\ \A k \in 1..L - 2 : e[k] = s[k + 2]
  <2>1. e \in [1..L - 2 -> V] /\ \A k \in 1..L - 2 : e[k] = s[k + 2]
    BY <1>2, <1>3
  <2> QED BY <2>1, <1>2, SequenceOf
<1>5. h \in Seq(V) /\ Len(h) = 2 /\ h[1] = s[1] /\ h[2] = s[2]
  BY <1>1
<1> HIDE DEF h
<1>6. h \o e = s
  <2> DEFINE r == L - 2
             c == h \o e
  <2>1. r \in Nat /\ Len(e) = r
    BY <1>2, <1>4
  <2> HIDE DEF r
  <2>2. c \in Seq(V) /\ Len(c) = 2 + r /\ \A k \in 1..2 + r : c[k] = IF k <= 2 THEN h[k] ELSE e[k - 2]
    <3>1. c \in Seq(V) /\ Len(c) = Len(h) + Len(e) /\ \A k \in 1..Len(h) + Len(e) : c[k] = IF k <= Len(h) THEN h[k] ELSE e[k - Len(h)]
      <4>1. h \in Seq(V) /\ e \in Seq(V)
        BY <1>4, <1>5
      <4> QED BY <4>1, Joined, Zenon
    <3> QED BY <3>1, <2>1, <1>5
  <2>3. 2 + r = L
    BY <1>1 DEF r
  <2>4. ASSUME NEW k \in 1..L
        PROVE  c[k] = s[k]
    <3>0. k \in 1..2 + r
      BY <2>3
    <3> HIDE DEF c
    <3>1. CASE k <= 2
      <4>1. k = 1 \/ k = 2
        BY <3>1, <1>1
      <4> QED BY <3>0, <4>1, <2>2, <1>5
    <3>2. CASE ~(k <= 2)
      <4>1. k - 2 \in 1..L - 2 /\ (k - 2) + 2 = k
        BY <3>2, <1>1
      <4> QED BY <3>0, <3>2, <4>1, <2>2, <1>4
    <3> QED BY <3>1, <3>2
  <2>5. c = [k \in 1..L |-> c[k]]
    <3> HIDE DEF c
    <3> QED BY <2>2, <2>3
  <2> HIDE DEF c
  <2>6. [k \in 1..L |-> c[k]] = [k \in 1..L |-> s[k]]
    BY <2>4
  <2> QED BY <2>5, <2>6, <1>1 DEF c
<1>7. /\ e \in Seq(V)
      /\ Len(e) = L - 2
      /\ Len(e) \in Nat
      /\ s[1] \in V /\ s[2] \in V
  BY <1>1, <1>2, <1>4
<1>8. s = h \o e
  BY <1>6
<1> QED BY <1>7, <1>8, Zenon DEF L, e, h

(* What an encoding says is read back from it.                             *)
LEMMA ReadsEncoding ==
    ASSUME NEW id \in Seq(ByteValues), Len(id) < W64,
           NEW t \in Seq(0..W32 - 1), Len(t) < W32, Ordered(t)
    PROVE  LET posting == [id |-> id, frequency |-> Len(t), positions |-> t]
           IN  DecodePosting(EncodePosting(posting)) = posting
<1> DEFINE n == Len(t)
           d == Deltas(t)
           l == Len(id)
           s == <<n, n>> \o d
           a == Uvarint[l]
           c == Uvarints(s)
           data == a \o id \o c
           Y == 0..W64 - 1
           posting == [id |-> id, frequency |-> n, positions |-> t]
<1>1. /\ n \in Nat /\ W32 \in Nat /\ W64 \in Nat /\ W32 > 0 /\ W64 >= W32 /\ W64 > 0 /\ n < W32 /\ l \in Nat /\ l < W64
      /\ \A k \in 1..n : t[k] \in 0..W32 - 1
  <2>1. n \in Nat /\ l \in Nat
    OBVIOUS
  <2>2. \A k \in 1..n : t[k] \in 0..W32 - 1
    <3> DEFINE V == 0..W32 - 1
    <3>1. t \in Seq(V)
      OBVIOUS
    <3> HIDE DEF V
    <3>2. \A k \in 1..n : t[k] \in V
      BY <3>1
    <3> QED BY <3>2 DEF V
  <2> HIDE DEF n, l
  <2>3. n < W32 /\ l < W64
    BY DEF n, l
  <2> QED BY <2>1, <2>2, <2>3, WidthsAssumption
<1>2. d \in Seq(Y) /\ d \in Seq(Int) /\ Len(d) = n
  <2>1. d \in Seq(0..W32 - 1) /\ d \in Seq(Int) /\ Len(d) = n
    BY DeltasAreNumbers
  <2>2. \A k \in 1..n : d[k] \in 0..W32 - 1
    <3> DEFINE V == 0..W32 - 1
    <3>1. d \in Seq(V)
      BY <2>1
    <3> HIDE DEF V, d, n
    <3>2. \A k \in 1..n : d[k] \in V
      BY <3>1, <2>1
    <3> QED BY <3>2 DEF V
  <2> HIDE DEF d, n
  <2>3. \A k \in 1..n : d[k] \in Y
    <3> SUFFICES ASSUME NEW k \in 1..n PROVE d[k] \in Y
      OBVIOUS
    <3> DEFINE x == d[k]
    <3>1. x \in 0..W32 - 1
      BY <2>2
    <3> HIDE DEF x
    <3>2. x \in Y
      BY <3>1, <1>1
    <3> QED BY <3>2 DEF x
  <2> HIDE DEF Y
  <2>4. d \in [1..n -> Y]
    BY <2>1, <2>3
  <2> QED BY <2>1, <2>4, <1>1, SequenceOf
<1>3. \A k \in 1..n : SumTo(d)[k] = t[k]
  BY DeltasSumUp
<1>4. n \in Y /\ l \in Y
  <2> HIDE DEF n, l
  <2> QED BY <1>1
<1>5. /\ s \in Seq(Y) /\ Len(s) = n + 2 /\ s[1] = n /\ s[2] = n
      /\ \A k \in 1..n : s[k + 2] = d[k]
  <2> DEFINE h == <<n, n>>
  <2>1. h \in Seq(Y) /\ Len(h) = 2 /\ h[1] = n /\ h[2] = n
    <3> HIDE DEF Y, n
    <3> QED BY <1>4
  <2> HIDE DEF h, d, n, Y
  <2>2. h \o d \in Seq(Y) /\ Len(h \o d) = 2 + n /\ \A k \in 1..2 + n : (h \o d)[k] = IF k <= 2 THEN h[k] ELSE d[k - 2]
    <3>1. h \o d \in Seq(Y) /\ Len(h \o d) = Len(h) + Len(d) /\ \A k \in 1..Len(h) + Len(d) : (h \o d)[k] = IF k <= Len(h) THEN h[k] ELSE d[k - Len(h)]
      BY <2>1, <1>2, Joined
    <3> QED BY <3>1, <2>1, <1>2
  <2>3. s = h \o d
    BY DEF h
  <2> HIDE DEF s
  <2>4. Len(s) = n + 2 /\ s[1] = n /\ s[2] = n
    <3>1. 1 \in 1..2 + n /\ 2 \in 1..2 + n /\ 2 + n = n + 2
      BY <1>1
    <3> QED BY <3>1, <2>1, <2>2, <2>3
  <2>5. ASSUME NEW k \in 1..n
        PROVE  s[k + 2] = d[k]
    <3>1. k + 2 \in 1..2 + n /\ ~(k + 2 <= 2) /\ (k + 2) - 2 = k
      BY <1>1
    <3> QED BY <3>1, <2>2, <2>3
  <2> QED BY <2>2, <2>3, <2>4, <2>5
<1>6. Rest(s) = d
  <2> HIDE DEF d, Y
  <2>1. Rest(s) = [k \in 1..n |-> s[k + 2]]
    <3> HIDE DEF s, n
    <3>1. Rest(s) = [k \in 1..Len(s) - 3 + 1 |-> s[k + 3 - 1]]
      BY <1>1, <1>5 DEF Rest
    <3>2. Len(s) - 3 + 1 = n /\ \A k \in 1..n : k + 3 - 1 = k + 2
      BY <1>1, <1>5
    <3> QED BY <3>1, <3>2
  <2>2. d = [k \in 1..n |-> d[k]]
    BY <1>2
  <2> HIDE DEF s
  <2> QED BY <2>1, <2>2, <1>5
<1>7. EncodePosting(posting) = data
  <2>1. posting.id = id /\ posting.frequency = n /\ posting.positions = t
    OBVIOUS
  <2> HIDE DEF posting, n
  <2>2. Len(posting.positions) = n
    BY <2>1 DEF n
  <2> QED BY <2>1, <2>2 DEF EncodePosting
<1>8. a \in Seq(ByteValues) /\ Len(a) \in 1..MaxVarintLen
  <2> HIDE DEF l
  <2> QED BY <1>4, WrittenShape
<1>9. c \in Seq(ByteValues)
  <2> HIDE DEF s
  <2>1. Uvarints(s) = PutsOf(s)[1] /\ PutsOf(s) \in [1..Len(s) + 1 -> Seq(ByteValues)]
    BY <1>5, UvarintsAre DEF WritesFrom
  <2>2. 1 \in 1..Len(s) + 1
    BY <1>1, <1>5
  <2> QED BY <2>1, <2>2
<1> HIDE DEF a, c
<1> DEFINE i == Len(a)
           j == Len(c)
<1>10. /\ data \in Seq(ByteValues) /\ i \in Nat /\ j \in Nat /\ i >= 1
       /\ Len(data) = i + l + j
       /\ \A k \in 1..i : data[k] = a[k]
       /\ \A k \in 1..l : data[i + k] = id[k]
       /\ \A k \in 1..j : data[i + l + k] = c[k]
  <2>1. MaxVarintLen \in Nat
    BY VarintsAssumption
  <2>2. i \in 1..MaxVarintLen
    BY <1>8
  <2>3. data = a \o id \o c
    OBVIOUS
  <2> HIDE DEF data
  <2> QED BY <2>1, <2>2, <2>3, <1>8, <1>9, JoinedThree
<1> HIDE DEF data, i, j, l, n, s
<1>11. VarintLength(data, 1) = i /\ VarintValue(data, 1) = l
  <2>1. 1 + i - 1 <= Len(data)
    BY <1>1, <1>10
  <2>2. \A k \in 1..i : data[1 + k - 1] = a[k]
    <3>1. \A k \in 1..i : 1 + k - 1 = k
      BY <1>10
    <3> QED BY <3>1, <1>10
  <2>3. StandsAt(a, data, 1)
    BY <2>1, <2>2 DEF StandsAt, i
  <2>4. 1 \in Nat \ {0} /\ l \in 0..W64 - 1
    BY <1>4
  <2> QED BY <2>3, <2>4, <1>10, ReadsWritten DEF a, i
<1>12. IdEnd(data) = i + l
  BY <1>11 DEF IdEnd
<1>13. Body(data) = s
  <2> DEFINE p == i + l + 1
  <2>1. p \in 1..Len(data) + 1 /\ p - 1 + j = Len(data)
    BY <1>1, <1>10
  <2>2. ASSUME NEW k \in 1..j
        PROVE  data[p + k - 1] = c[k]
    <3>1. p + k - 1 = i + l + k
      BY <1>1, <1>10
    <3> QED BY <3>1, <1>10
  <2> HIDE DEF p
  <2>3. Varints(data, p) = s
    <3>1. p - 1 + Len(Uvarints(s)) = Len(data) /\ \A k \in 1..Len(Uvarints(s)) : data[p + k - 1] = Uvarints(s)[k]
      BY <2>1, <2>2 DEF c, j
    <3> QED BY <3>1, <2>1, <1>5, <1>10, ReadsBack
  <2> QED BY <2>3, <1>12 DEF Body, p
<1>14. SubSeq(data, i + 1, i + l) = id
  <2>1. SubSeq(data, i + 1, i + l) = [k \in 1..(i + l) - (i + 1) + 1 |-> data[k + (i + 1) - 1]]
    BY <1>1, <1>10
  <2>2. (i + l) - (i + 1) + 1 = l /\ \A k \in 1..l : k + (i + 1) - 1 = i + k
    BY <1>1, <1>10
  <2>3. id = [k \in 1..l |-> id[k]]
    BY DEF l
  <2> QED BY <2>1, <2>2, <2>3, <1>10
<1>15. /\ VarintLength(data, 1) > 0 /\ IdEnd(data) <= Len(data)
       /\ Len(s) >= 2
       /\ s[1] < W32 /\ s[2] < W32
       /\ Len(d) = s[2]
       /\ s[1] = s[2]
  BY <1>1, <1>2, <1>5, <1>10, <1>11, <1>12
<1>16. \A k \in 1..Len(s) : s[k] # Broken
  <2> SUFFICES ASSUME NEW k \in 1..Len(s) PROVE s[k] # Broken
    OBVIOUS
  <2> DEFINE x == s[k]
  <2>1. x \in Y
    <3> HIDE DEF Y
    <3> QED BY <1>5
  <2> HIDE DEF x
  <2>2. x # Broken
    BY <2>1, <1>1 DEF Broken
  <2> QED BY <2>2 DEF x
<1>17. \A k \in 1..Len(d) : SumTo(d)[k] < W32
  <2> SUFFICES ASSUME NEW k \in 1..Len(d) PROVE SumTo(d)[k] < W32
    OBVIOUS
  <2>1. SumTo(d)[k] = t[k] /\ t[k] \in 0..W32 - 1
    BY <1>1, <1>2, <1>3
  <2> DEFINE x == t[k]
  <2> HIDE DEF x, d
  <2>2. x \in 0..W32 - 1
    BY <2>1 DEF x
  <2>3. x < W32
    BY <2>2, <1>1
  <2> QED BY <2>1, <2>3 DEF x
<1>18. [k \in 1..Len(d) |-> SumTo(d)[k]] = t
  <2>1. t = [k \in 1..n |-> t[k]]
    BY DEF n
  <2> HIDE DEF d
  <2> QED BY <2>1, <1>2, <1>3
<1> HIDE DEF d
<1>19. DecodePosting(data) = [id |-> SubSeq(data, VarintLength(data, 1) + 1, IdEnd(data)),
                              frequency |-> s[1],
                              positions |-> [k \in 1..Len(d) |-> SumTo(d)[k]]]
  BY <1>6, <1>13, <1>15, <1>16, <1>17, Zenon DEF DecodePosting, ReadNumbers
<1>20. DecodePosting(data) = posting
  BY <1>5, <1>11, <1>12, <1>14, <1>18, <1>19
<1> QED BY <1>7, <1>20 DEF n

(* A posting read back from its encoding is the posting that was written.  *)
LEMMA RoundTrips ==
    ASSUME NEW id \in Seq(ByteValues), Len(id) < W64, NEW s \in Seq(0..W32 - 1), Len(s) < W32
    PROVE  RoundTrip(id, s)
<1> DEFINE n == Len(s)
           t == SortedCopy(s)
           posting == NewPosting(id, s)
<1>1. /\ n \in Nat /\ W32 \in Nat /\ W32 > 0 /\ n % W32 = n
  <2>1. /\ n \in Nat /\ W32 \in Nat /\ W32 > 0 /\ W32 - 1 \in Nat
        /\ n < W32
    BY WidthsAssumption
  <2> HIDE DEF n
  <2>2. n \in 0..W32 - 1
    BY <2>1
  <2> QED BY <2>1, <2>2, SmallRemainder
<1>2. t \in Seq(0..W32 - 1) /\ Len(t) = n /\ DOMAIN t = 1..n
  <2>0. W32 - 1 \in Nat
    BY <1>1
  <2>1. t \in Seq(0..W32 - 1) /\ Len(t) = n
    BY <2>0, SortedCopyRanks
  <2> HIDE DEF t
  <2> QED BY <2>1
<1>3. /\ \A k, l \in 1..n : k < l => t[k] <= t[l]
      /\ \A v \in 0..W32 - 1 : Cardinality({k \in 1..n : t[k] = v}) = Cardinality({k \in 1..n : s[k] = v})
  <2>0. W32 - 1 \in Nat
    BY <1>1
  <2> QED BY <2>0, SortedCopySorts
<1>4. posting = [id |-> id, frequency |-> n, positions |-> t]
  BY <1>1 DEF NewPosting
<1> HIDE DEF t
<1>5. Ordered(t) /\ Len(t) < W32
  BY <1>2, <1>3 DEF Ordered
<1>6. DecodePosting(EncodePosting(posting)) = posting
  <2>1. posting = [id |-> id, frequency |-> Len(t), positions |-> t]
    BY <1>2, <1>4
  <2> HIDE DEF posting
  <2> QED BY <2>1, <1>2, <1>5, ReadsEncoding
<1>7. InOrder(posting.positions)
  <2>1. \A k \in 1..Len(t) - 1 : k \in 1..n /\ k + 1 \in 1..n /\ k < k + 1
    BY <1>1, <1>2
  <2> QED BY <2>1, <1>3, <1>4 DEF InOrder
<1>8. \A p \in 0..W32 - 1 :
           Cardinality({k \in DOMAIN posting.positions : posting.positions[k] = p}) =
             Cardinality({k \in DOMAIN s : s[k] = p})
  <2>2. DOMAIN s = 1..n /\ posting.positions = t
    BY <1>4 DEF n
  <2> HIDE DEF posting
  <2> QED BY <2>2, <1>2, <1>3
<1> QED BY <1>6, <1>7, <1>8 DEF RoundTrip

(* How data is that is read as a posting.                                  *)
Accepted(data, numbers, deltas, i, l) ==
  /\ numbers = Body(data) /\ deltas = Rest(numbers)
  /\ i = VarintLength(data, 1) /\ l = VarintValue(data, 1) /\ IdEnd(data) = i + l
  /\ i \in 1..MaxVarintLen /\ i \in Nat /\ i > 0 /\ IsVarint(data, 1, i)
  /\ l \in 0..W64 - 1 /\ l \in Nat /\ i + l <= Len(data)
  /\ numbers \in Seq(0..W64 - 1)
  /\ Len(numbers) >= 2
  /\ \A k \in 1..Len(numbers) : numbers[k] # Broken
  /\ numbers[1] < W32 /\ numbers[2] < W32
  /\ Len(deltas) = numbers[2]
  /\ \A k \in 1..Len(deltas) : SumTo(deltas)[k] < W32
  /\ numbers[1] = numbers[2]
  /\ DecodePosting(data) = [id |-> SubSeq(data, i + 1, i + l),
                            frequency |-> numbers[1],
                            positions |-> [k \in 1..Len(deltas) |-> SumTo(deltas)[k]]]

(* Data that is read as a posting is so.                                   *)
LEMMA AcceptedData ==
    ASSUME NEW data \in Seq(ByteValues), DecodePosting(data) # NoPosting
    PROVE  Accepted(data, Body(data), Rest(Body(data)), VarintLength(data, 1), VarintValue(data, 1))
<1> DEFINE numbers == Body(data)
           deltas == Rest(numbers)
           i == VarintLength(data, 1)
           l == VarintValue(data, 1)
<1>1. /\ i > 0 /\ IdEnd(data) <= Len(data)
      /\ Len(numbers) >= 2
      /\ \A k \in 1..Len(numbers) : numbers[k] # Broken
      /\ numbers[1] < W32 /\ numbers[2] < W32
      /\ Len(deltas) = numbers[2]
      /\ \A k \in 1..Len(deltas) : SumTo(deltas)[k] < W32
      /\ numbers[1] = numbers[2]
      /\ DecodePosting(data) = [id |-> SubSeq(data, i + 1, IdEnd(data)),
                                frequency |-> numbers[1],
                                positions |-> [k \in 1..Len(deltas) |-> SumTo(deltas)[k]]]
  BY Zenon DEF DecodePosting, ReadNumbers
<1>2. IdEnd(data) = i + l
  BY DEF IdEnd
<1>3. i \in 1..MaxVarintLen /\ IsVarint(data, 1, i) /\ MaxVarintLen \in Nat
  <2>1. i # 0
    <3> HIDE DEF i
    <3> QED BY <1>1
  <2> QED BY <2>1, LengthMeans, VarintsAssumption
<1>4. l \in 0..W64 - 1 /\ W64 \in Nat
  <2>1. 1 \in Nat \ {0}
    OBVIOUS
  <2> HIDE DEF i, l
  <2> QED BY <2>1, <1>3, VarintsAreNumbers, WidthsAssumption DEF l
<1> HIDE DEF i, l
<1>5. i + l + 1 \in 1..Len(data) + 1 /\ l \in Nat /\ i \in Nat
  <2>1. Len(data) \in Nat
    OBVIOUS
  <2> QED BY <2>1, <1>1, <1>2, <1>3, <1>4
<1>6. numbers = Varints(data, i + l + 1)
  BY <1>2 DEF Body
<1>7. numbers \in Seq(0..W64 - 1)
  <2> DEFINE p == i + l + 1
  <2>1. p \in 1..Len(data) + 1 /\ numbers = Varints(data, p)
    BY <1>5, <1>6
  <2> HIDE DEF p, numbers
  <2>2. \A k \in 1..Len(Varints(data, p)) : Varints(data, p)[k] # Broken
    BY <2>1, <1>1
  <2> QED BY <2>1, <2>2, ReadsNumbers
<1> HIDE DEF numbers, deltas
<1>8. deltas = Rest(numbers) /\ numbers = Body(data) /\ i = VarintLength(data, 1) /\ l = VarintValue(data, 1)
  BY DEF numbers, deltas, i, l
<1>9. Accepted(data, numbers, deltas, i, l)
  BY <1>1, <1>2, <1>3, <1>4, <1>5, <1>7, <1>8 DEF Accepted
<1> QED BY <1>9 DEF numbers, deltas, i, l

(* The positions that are read ascend unless the sum of the deltas         *)
(* wrapped, and the deltas are theirs.                                     *)
LEMMA SumsAscend ==
    ASSUME NEW e \in Seq(0..W64 - 1),
           \A k \in 1..Len(e) : SumTo(e)[k] < W32,
           ~\E k \in 2..Len(e) : SumTo(e)[k - 1] + e[k] >= W64
    PROVE  LET pos == [k \in 1..Len(e) |-> SumTo(e)[k]]
           IN  /\ pos \in Seq(0..W32 - 1) /\ Len(pos) = Len(e)
               /\ Deltas(pos) = e
               /\ Ordered(pos) /\ InOrder(pos)
<1> DEFINE V == 0..W64 - 1
           m == Len(e)
           sum == SumTo(e)
           pos == [k \in 1..m |-> sum[k]]
<1>1. /\ m \in Nat /\ \A k \in 1..m : e[k] \in V
      /\ \A k \in 1..m : sum[k] < W32
  <2>1. e \in Seq(V)
    OBVIOUS
  <2> HIDE DEF V
  <2> QED BY <2>1
<1>2. W32 \in Nat /\ W64 \in Nat /\ W32 > 0 /\ W64 > 0 /\ W64 >= W32
  BY WidthsAssumption
<1>5. e \in Seq(Int)
  <2>1. \A k \in 1..m : e[k] \in Int
    <3> HIDE DEF m
    <3> QED BY <1>1, <1>2
  <2>2. e = [k \in 1..m |-> e[k]]
    OBVIOUS
  <2> HIDE DEF V
  <2>3. e \in [1..m -> Int]
    BY <2>1, <2>2
  <2> HIDE DEF m
  <2> QED BY <2>3, <1>1, SequenceOf
<1>6. sum[0] = 0 /\ \A k \in 1..m : sum[k] = (sum[k - 1] + e[k]) % W64
  BY <1>5, SumIsRecursive
<1>7. \A k \in 0..m : sum[k] \in 0..W64 - 1
  BY <1>5, SumIsRecursive
<1>8. \A k \in 2..m : sum[k - 1] + e[k] < W64
  <2> SUFFICES ASSUME NEW k \in 2..m PROVE sum[k - 1] + e[k] < W64
    OBVIOUS
  <2>1. ~(sum[k - 1] + e[k] >= W64)
    OBVIOUS
  <2> HIDE DEF sum, m
  <2>2. k \in 1..m /\ k - 1 \in 0..m
    BY <1>1
  <2>3. e[k] \in Int /\ sum[k - 1] \in Int
    BY <2>2, <1>1, <1>2, <1>7
  <2> QED BY <2>1, <2>3, <1>2
<1> HIDE DEF sum, m
<1>9. \A x \in 0..W64 - 1 : x % W64 = x
  BY <1>2, SmallRemainder
<1>10. ASSUME NEW k \in 1..m
       PROVE  /\ sum[k - 1] \in Int /\ sum[k] \in Int /\ e[k] \in Int
              /\ sum[k - 1] >= 0
              /\ e[k] >= 0
              /\ sum[k] = sum[k - 1] + e[k]
  <2>1. k - 1 \in 0..m /\ k \in 0..m /\ sum[k - 1] \in 0..W64 - 1 /\ sum[k] \in 0..W64 - 1
    BY <1>1, <1>7
  <2>2. e[k] \in 0..W64 - 1
    BY <1>1
  <2>3. sum[k - 1] + e[k] < W64
    <3>1. CASE k = 1
      <4>1. sum[k - 1] = 0
        BY <3>1, <1>6
      <4> QED BY <4>1, <2>2, <1>2
    <3>2. CASE k # 1
      <4>1. k \in 2..m
        BY <3>2, <1>1
      <4> QED BY <4>1, <1>8
    <3> QED BY <3>1, <3>2
  <2>4. sum[k - 1] + e[k] \in 0..W64 - 1
    <3> DEFINE x == sum[k - 1]
               y == e[k]
    <3>1. x \in 0..W64 - 1 /\ y \in 0..W64 - 1 /\ x + y < W64 /\ W64 \in Int
      BY <2>1, <2>2, <2>3, <1>2
    <3> HIDE DEF x, y
    <3>2. x + y \in 0..W64 - 1
      BY <3>1
    <3> QED BY <3>2 DEF x, y
  <2>5. sum[k] = sum[k - 1] + e[k]
    BY <2>4, <1>6, <1>9
  <2> QED BY <2>1, <2>2, <2>5, <1>2
<1>11. pos \in Seq(0..W32 - 1) /\ Len(pos) = m /\ \A k \in 1..m : pos[k] = sum[k]
  <2>1. ASSUME NEW k \in 1..m
        PROVE  sum[k] \in 0..W32 - 1
    <3>1. sum[k] < W32
      BY <1>1
    <3> QED BY <3>1, <1>10, <1>2
  <2> DEFINE U == 0..W32 - 1
  <2>2. pos \in [1..m -> U]
    BY <2>1
  <2> HIDE DEF U
  <2>3. pos \in Seq(U) /\ Len(pos) = m
    BY <2>2, <1>1, SequenceOf
  <2> QED BY <2>3 DEF U
<1>12. Deltas(pos) = e
  <2>1. ASSUME NEW k \in 1..m
        PROVE  (IF k = 1 THEN pos[1] ELSE (pos[k] - pos[k - 1]) % W32) = e[k]
    <3>1. CASE k = 1
      <4>1. pos[1] = sum[1] /\ sum[0] = 0 /\ sum[1] = sum[0] + e[1] /\ e[1] \in Int
        <5>1. 1 \in 1..m /\ 1 - 1 = 0
          BY <3>1
        <5> QED BY <5>1, <1>6, <1>10, <1>11
      <4> QED BY <3>1, <4>1
    <3>2. CASE k # 1
      <4>1. k - 1 \in 1..m
        BY <3>2, <1>1
      <4>2. pos[k] = sum[k] /\ pos[k - 1] = sum[k - 1]
        BY <4>1, <1>11
      <4>3. sum[k] - sum[k - 1] = e[k] /\ e[k] \in 0..W32 - 1
        <5>1. sum[k] < W32
          BY <1>1
        <5> QED BY <5>1, <1>10, <1>2
      <4>4. e[k] % W32 = e[k]
        BY <4>3, <1>2, SmallRemainder
      <4> QED BY <3>2, <4>2, <4>3, <4>4
    <3> QED BY <3>1, <3>2
  <2> HIDE DEF pos
  <2>2. Deltas(pos) = [k \in 1..m |-> IF k = 1 THEN pos[1] ELSE (pos[k] - pos[k - 1]) % W32]
    BY <1>11 DEF Deltas
  <2>3. e = [k \in 1..m |-> e[k]]
    BY <1>5 DEF m
  <2> QED BY <2>1, <2>2, <2>3
<1>13. InOrder(pos)
  <2>2. ASSUME NEW k \in 1..m - 1
        PROVE  pos[k] <= pos[k + 1]
    <3>1. k \in 1..m /\ k + 1 \in 1..m /\ (k + 1) - 1 = k
      BY <1>1
    <3>2. sum[k + 1] = sum[k] + e[k + 1] /\ e[k + 1] >= 0 /\ sum[k] \in Int /\ e[k + 1] \in Int
      BY <3>1, <1>10
    <3> QED BY <3>1, <3>2, <1>11
  <2> HIDE DEF pos
  <2> QED BY <2>2, <1>11 DEF InOrder
<1>14. Ordered(pos)
  <2> DEFINE S == {n \in Nat : \A k \in 1..m : k + n <= m => sum[k] <= sum[k + n]}
  <2>1. 0 \in S
    <3>1. ASSUME NEW k \in 1..m
          PROVE  sum[k] <= sum[k + 0]
      <4>1. k + 0 = k /\ sum[k] \in Int
        BY <1>10
      <4> QED BY <4>1
    <3> QED BY <3>1
  <2>2. ASSUME NEW n \in S
        PROVE  n + 1 \in S
    <3> SUFFICES ASSUME NEW k \in 1..m, k + (n + 1) <= m PROVE sum[k] <= sum[k + (n + 1)]
      OBVIOUS
    <3> DEFINE j == k + (n + 1)
    <3>1. n \in Nat /\ k + n <= m /\ j \in 1..m /\ j - 1 = k + n
      BY <1>1
    <3>2. sum[k] <= sum[j - 1]
      <4>1. sum[k] <= sum[k + n]
        BY <3>1
      <4> QED BY <3>1, <4>1
    <3> HIDE DEF j
    <3>3. sum[j] = sum[j - 1] + e[j] /\ e[j] >= 0 /\ e[j] \in Int /\ sum[j - 1] \in Int /\ sum[k] \in Int
      BY <3>1, <1>10
    <3>4. sum[k] <= sum[j]
      <4> DEFINE x == sum[j - 1]
                 y == e[j]
                 z == sum[k]
      <4>1. x \in Int /\ y \in Int /\ z \in Int /\ z <= x /\ y >= 0 /\ sum[j] = x + y
        BY <3>2, <3>3
      <4> HIDE DEF x, y, z
      <4>2. z <= x + y
        BY <4>1
      <4> QED BY <4>1, <4>2 DEF z
    <3> QED BY <3>4 DEF j
  <2>3. S = Nat
    <3>1. S \in SUBSET Nat
      OBVIOUS
    <3> HIDE DEF S
    <3> QED BY <3>1, <2>1, <2>2, NumberInduction
  <2>4. ASSUME NEW k \in 1..m, NEW l \in 1..m, k < l
        PROVE  pos[k] <= pos[l]
    <3> DEFINE n == l - k
    <3>1. n \in Nat /\ k + n = l /\ l <= m
      BY <2>4, <1>1
    <3> HIDE DEF n
    <3>2. n \in S
      <4> HIDE DEF S
      <4> QED BY <3>1, <2>3
    <3>3. sum[k] <= sum[l]
      BY <3>1, <3>2
    <3> HIDE DEF pos
    <3> QED BY <3>3, <1>11
  <2> HIDE DEF pos
  <2> QED BY <2>4, <1>11 DEF Ordered
<1> HIDE DEF pos
<1> QED BY <1>11, <1>12, <1>13, <1>14 DEF pos, sum, m

(* Data that is read as a posting is its encoding or a longer form of it,  *)
(* and the posting is one that can be written and read again, unless the   *)
(* sum of the deltas wrapped.                                              *)
LEMMA AcceptsPostings ==
    ASSUME NEW data \in Seq(ByteValues)
    PROVE  AcceptsOnlyPostings(data)
<1> DEFINE numbers == Body(data)
           e == Rest(numbers)
           m == Len(e)
           sum == SumTo(e)
           i == VarintLength(data, 1)
           l == VarintValue(data, 1)
           L == Len(data)
           posting == DecodePosting(data)
           pos == [k \in 1..m |-> sum[k]]
           id == SubSeq(data, i + 1, i + l)
           a == Uvarint[l]
           c == Uvarints(numbers)
           b == EncodePosting(posting)
           Y == 0..W64 - 1
<1> SUFFICES ASSUME posting # NoPosting,
                    ~\E k \in 2..m : sum[k - 1] + e[k] >= W64
             PROVE  InOrder(posting.positions) /\ DecodePosting(b) = posting /\ (b = data \/ Len(b) < L)
  BY DEF AcceptsOnlyPostings
<1>1. Accepted(data, numbers, e, i, l)
  BY AcceptedData
<1> HIDE DEF posting
<1>2. /\ IdEnd(data) = i + l
      /\ i \in 1..MaxVarintLen /\ i \in Nat /\ i > 0 /\ IsVarint(data, 1, i)
      /\ l \in Y /\ l \in Nat /\ i + l <= L
      /\ numbers \in Seq(Y)
      /\ Len(numbers) >= 2
      /\ numbers[1] < W32 /\ numbers[2] < W32
      /\ m = numbers[2]
      /\ \A k \in 1..m : sum[k] < W32
      /\ numbers[1] = numbers[2]
      /\ posting = [id |-> id, frequency |-> numbers[1], positions |-> pos]
  <2> HIDE DEF numbers, e, i, l, Y
  <2> QED BY <1>1 DEF Accepted, posting, Y
<1>3. e \in Seq(Y) /\ m \in Nat /\ numbers = <<numbers[1], numbers[2]>> \o e
  <2> HIDE DEF numbers, Y
  <2> QED BY <1>2, TwoAndRest
<1>4. pos \in Seq(0..W32 - 1) /\ Len(pos) = m /\ Deltas(pos) = e /\ Ordered(pos) /\ InOrder(pos)
  <2> HIDE DEF e
  <2> QED BY <1>2, <1>3, SumsAscend
<1>5. numbers = Varints(data, i + l + 1)
  BY <1>2 DEF Body
<1>6. L \in Nat /\ i + l + 1 \in 1..L + 1
  <2>1. L \in Nat
    OBVIOUS
  <2> HIDE DEF L, i, l
  <2> QED BY <2>1, <1>2
<1> HIDE DEF i, l, numbers, L
<1>7. id \in Seq(ByteValues) /\ Len(id) = l /\ \A k \in 1..l : id[k] = data[i + k]
  <2>1. id = [k \in 1..l |-> data[i + k]]
    <3>1. id = [k \in 1..(i + l) - (i + 1) + 1 |-> data[k + (i + 1) - 1]]
      BY <1>2, <1>6
    <3>2. (i + l) - (i + 1) + 1 = l /\ \A k \in 1..l : k + (i + 1) - 1 = i + k
      BY <1>2
    <3> HIDE DEF id
    <3> QED BY <3>1, <3>2
  <2>2. ASSUME NEW k \in 1..l
        PROVE  data[i + k] \in ByteValues
    <3>1. i + k \in 1..Len(data)
      BY <1>2, <1>6 DEF L
    <3> QED BY <3>1
  <2> HIDE DEF id
  <2>3. id \in [1..l -> ByteValues] /\ \A k \in 1..l : id[k] = data[i + k]
    BY <2>1, <2>2
  <2> QED BY <2>3, <1>2, SequenceOf
<1> HIDE DEF id
<1>8. posting = [id |-> id, frequency |-> Len(pos), positions |-> pos]
  BY <1>2, <1>4
<1>9. DecodePosting(b) = posting
  <2>1. Len(id) < W64
    <3>1. W64 \in Nat
      BY WidthsAssumption
    <3> QED BY <3>1, <1>2, <1>7
  <2>2. Len(pos) < W32
    BY <1>2, <1>4
  <2> HIDE DEF pos
  <2> QED BY <2>1, <2>2, <1>4, <1>7, <1>8, ReadsEncoding
<1>10. InOrder(posting.positions)
  <2> HIDE DEF pos
  <2> QED BY <1>4, <1>8
<1>11. b = a \o id \o c
  <2> HIDE DEF pos
  <2>1. posting.id = id /\ posting.frequency = Len(pos) /\ posting.positions = pos
    BY <1>8
  <2> HIDE DEF posting, e, m
  <2>2. <<Len(pos), Len(pos)>> \o Deltas(pos) = numbers
    BY <1>2, <1>3, <1>4
  <2>3. b = Uvarint[Len(id)] \o id \o Uvarints(<<Len(pos), Len(pos)>> \o Deltas(pos))
    BY <2>1 DEF EncodePosting
  <2> QED BY <2>2, <2>3, <1>7
<1>12. LET u == a IN Len(u) \in Nat /\ Len(u) <= i /\ (Len(u) = i => \A k \in 1..i : data[1 + k - 1] = u[k])
  <2>1. 1 \in Nat \ {0} /\ l = VarintValue(data, 1)
    BY DEF l
  <2> QED BY <2>1, <1>2, VarintsAreNumbers
<1>13. a \in Seq(ByteValues)
  BY <1>2, UvarintIs
<1>14. /\ c \in Seq(ByteValues)
       /\ Len(c) <= L - (i + l)
       /\ Len(c) = L - (i + l) => \A j \in 1..Len(c) : data[i + l + j] = c[j]
  <2> DEFINE p == i + l + 1
  <2>1. p \in 1..Len(data) + 1 /\ numbers = Varints(data, p)
    BY <1>5, <1>6 DEF L
  <2>2. L + 1 - p = L - (i + l)
    BY <1>2, <1>6
  <2>3. ASSUME NEW j \in Nat
        PROVE  p + j - 1 = i + l + j
    BY <1>2, <2>3
  <2> HIDE DEF p
  <2>4. /\ c \in Seq(ByteValues)
        /\ Len(c) <= Len(data) + 1 - p
        /\ Len(c) = Len(data) + 1 - p => \A j \in 1..Len(c) : data[p + j - 1] = c[j]
    BY <2>1, <1>2, WritesNoMore
  <2> HIDE DEF c
  <2>5. \A j \in 1..Len(c) : j \in Nat
    OBVIOUS
  <2> QED BY <2>2, <2>3, <2>4, <2>5 DEF L
<1> HIDE DEF a, c
<1>15. /\ b \in Seq(ByteValues) /\ Len(a) \in Nat /\ Len(c) \in Nat
       /\ Len(b) = Len(a) + l + Len(c)
       /\ \A k \in 1..Len(a) : b[k] = a[k]
       /\ \A k \in 1..l : b[Len(a) + k] = id[k]
       /\ \A k \in 1..Len(c) : b[Len(a) + l + k] = c[k]
  <2> HIDE DEF b
  <2>1. id \in Seq(ByteValues) /\ a \in Seq(ByteValues) /\ c \in Seq(ByteValues)
    BY <1>7, <1>13, <1>14
  <2>2. /\ b \in Seq(ByteValues)
        /\ Len(a) \in Nat /\ Len(id) \in Nat /\ Len(c) \in Nat
        /\ Len(b) = Len(a) + Len(id) + Len(c)
        /\ \A k \in 1..Len(a) : b[k] = a[k]
        /\ \A k \in 1..Len(id) : b[Len(a) + k] = id[k]
        /\ \A k \in 1..Len(c) : b[Len(a) + Len(id) + k] = c[k]
    BY <2>1, <1>11, JoinedThree
  <2> QED BY <2>2, <1>7
<1> HIDE DEF b
<1>16. CASE Len(a) = i /\ Len(c) = L - (i + l)
  <2>1. Len(b) = L
    BY <1>2, <1>6, <1>15, <1>16
  <2>2. ASSUME NEW k \in 1..L
        PROVE  b[k] = data[k]
    <3>1. CASE k <= i
      <4>1. k \in 1..i /\ 1 + k - 1 = k
        BY <3>1, <1>2, <1>6
      <4> QED BY <4>1, <1>12, <1>15, <1>16
    <3>2. CASE ~(k <= i) /\ k <= i + l
      <4> DEFINE j == k - i
      <4>1. j \in 1..l /\ i + j = k
        BY <3>2, <1>2, <1>6
      <4> HIDE DEF j
      <4>2. b[i + j] = id[j] /\ id[j] = data[i + j]
        BY <4>1, <1>7, <1>15, <1>16
      <4> QED BY <4>1, <4>2
    <3>3. CASE ~(k <= i + l)
      <4> DEFINE j == k - (i + l)
      <4>1. j \in 1..Len(c) /\ i + l + j = k
        BY <3>3, <1>2, <1>6, <1>16
      <4> HIDE DEF j
      <4>2. b[i + l + j] = c[j] /\ data[i + l + j] = c[j]
        BY <4>1, <1>14, <1>15, <1>16
      <4> QED BY <4>1, <4>2
    <3> QED BY <3>1, <3>2, <3>3
  <2>3. b = [k \in 1..L |-> b[k]] /\ data = [k \in 1..L |-> data[k]]
    <3>1. data = [k \in 1..L |-> data[k]]
      BY DEF L
    <3>2. b = [k \in 1..Len(b) |-> b[k]]
      BY <1>15
    <3> QED BY <3>1, <3>2, <2>1
  <2>4. [k \in 1..L |-> b[k]] = [k \in 1..L |-> data[k]]
    BY <2>2
  <2>5. b = data
    BY <2>3, <2>4
  <2> QED BY <2>5, <1>9, <1>10
<1>17. CASE ~(Len(a) = i /\ Len(c) = L - (i + l))
  <2> DEFINE x == Len(a)
             y == Len(c)
  <2>1. x \in Nat /\ y \in Nat /\ x <= i /\ y <= L - (i + l) /\ Len(b) = x + l + y /\ ~(x = i /\ y = L - (i + l))
    BY <1>12, <1>14, <1>15, <1>17
  <2> HIDE DEF x, y
  <2>2. x + l + y < L
    BY <2>1, <1>2, <1>6
  <2>3. Len(b) < L
    BY <2>1, <2>2
  <2> QED BY <2>3, <1>9, <1>10
<1> QED BY <1>16, <1>17

(* Data with its end cut off is not read as a posting.                     *)
LEMMA EndsAreNoticed ==
    ASSUME NEW data \in Seq(ByteValues)
    PROVE  EndIsNoticed(data)
<1> SUFFICES ASSUME DecodePosting(data) # NoPosting, NEW m \in 0..Len(data) - 1,
                    DecodePosting(SubSeq(data, 1, m)) # NoPosting
             PROVE  FALSE
  BY DEF EndIsNoticed
<1> DEFINE cut == SubSeq(data, 1, m)
           L == Len(data)
<1>1. L \in Nat /\ m \in Nat /\ m < L
  OBVIOUS
<1>2. cut \in Seq(ByteValues) /\ Len(cut) = m /\ \A j \in 1..m : cut[j] = data[j]
  <2>1. cut = [k \in 1..m |-> data[k]]
    <3>1. cut = [k \in 1..m - 1 + 1 |-> data[k + 1 - 1]]
      BY <1>1
    <3>2. m - 1 + 1 = m /\ \A k \in 1..m : k + 1 - 1 = k
      BY <1>1
    <3> HIDE DEF cut
    <3> QED BY <3>1, <3>2
  <2>2. ASSUME NEW k \in 1..m
        PROVE  data[k] \in ByteValues
    <3>1. k \in 1..Len(data)
      BY <1>1
    <3> QED BY <3>1
  <2> HIDE DEF cut
  <2>3. cut \in [1..m -> ByteValues] /\ \A j \in 1..m : cut[j] = data[j]
    BY <2>1, <2>2
  <2> QED BY <2>3, <1>1, SequenceOf
<1>3. DecodePosting(cut) # NoPosting
  OBVIOUS
<1> HIDE DEF cut
<1>4. IsCut(cut, data, m)
  BY <1>1, <1>2 DEF IsCut
<1> DEFINE s == Body(data)
           t == Body(cut)
           i == VarintLength(data, 1)
           l == VarintValue(data, 1)
<1>5. Accepted(data, s, Rest(s), i, l)
  BY AcceptedData
<1>6. Accepted(cut, t, Rest(t), VarintLength(cut, 1), VarintValue(cut, 1))
  BY <1>2, <1>3, AcceptedData
<1>7. /\ IdEnd(data) = i + l /\ i \in Nat /\ i > 0 /\ l \in Nat
      /\ s \in Seq(0..W64 - 1) /\ Len(s) >= 2 /\ Len(Rest(s)) = s[2]
      /\ \A k \in 1..Len(s) : s[k] # Broken
  <2> HIDE DEF s, i, l
  <2> QED BY <1>5 DEF Accepted
<1>8. /\ IdEnd(cut) = VarintLength(cut, 1) + VarintValue(cut, 1)
      /\ VarintLength(cut, 1) > 0 /\ VarintLength(cut, 1) # 0
      /\ VarintLength(cut, 1) + VarintValue(cut, 1) <= m
      /\ t \in Seq(0..W64 - 1) /\ Len(t) >= 2 /\ Len(Rest(t)) = t[2]
      /\ \A k \in 1..Len(t) : t[k] # Broken
  <2> HIDE DEF t
  <2> QED BY <1>2, <1>6 DEF Accepted
<1>9. Len(Rest(s)) = Len(s) - 2 /\ Len(Rest(t)) = Len(t) - 2
  <2> HIDE DEF s, t
  <2> QED BY <1>7, <1>8, TwoAndRest
<1>10. VarintLength(cut, 1) = i /\ VarintValue(cut, 1) = l
  <2>1. i # 0 /\ 1 \in Nat \ {0}
    BY <1>7
  <2>2. /\ 1 + i - 1 <= m => VarintLength(cut, 1) = i /\ VarintValue(cut, 1) = l
        /\ 1 + i - 1 > m  => VarintLength(cut, 1) = 0
    <3> DEFINE n == i
    <3>1. n = VarintLength(data, 1) /\ n # 0
      BY <2>1
    <3> HIDE DEF n
    <3>2. /\ 1 + n - 1 <= m => VarintLength(cut, 1) = n /\ VarintValue(cut, 1) = VarintValue(data, 1)
          /\ 1 + n - 1 > m  => VarintLength(cut, 1) = 0
      BY <3>1, <2>1, <1>4, CutVarint
    <3> QED BY <3>2 DEF n
  <2> HIDE DEF i, l
  <2>3. 1 + i - 1 <= m \/ 1 + i - 1 > m
    BY <1>1, <1>7
  <2> QED BY <2>2, <2>3, <1>8
<1>11. s = Varints(data, i + l + 1) /\ t = Varints(cut, i + l + 1)
  <2>1. IdEnd(cut) = i + l
    BY <1>8, <1>10
  <2> QED BY <2>1, <1>7 DEF Body
<1> HIDE DEF s, t, i, l
<1> DEFINE p == i + l + 1
<1>12. p \in 1..m + 1
  BY <1>1, <1>7, <1>8, <1>10
<1> HIDE DEF p
<1>13. s = Varints(data, p) /\ t = Varints(cut, p)
  BY <1>11 DEF p
<1>14. \/ \E k \in 1..Len(t) : t[k] = Broken
       \/ Len(t) < Len(s) /\ \A k \in 1..Len(t) : t[k] = s[k]
  <2>1. \A k \in 1..Len(Varints(data, p)) : Varints(data, p)[k] # Broken
    BY <1>7, <1>13
  <2>2. \/ \E k \in 1..Len(Varints(cut, p)) : Varints(cut, p)[k] = Broken
        \/ /\ Len(Varints(cut, p)) < Len(Varints(data, p))
           /\ \A k \in 1..Len(Varints(cut, p)) : Varints(cut, p)[k] = Varints(data, p)[k]
    BY <2>1, <1>4, <1>12, CutNumbers
  <2> QED BY <2>2, <1>13
<1>15. Len(t) < Len(s) /\ \A k \in 1..Len(t) : t[k] = s[k]
  BY <1>8, <1>14
<1>16. Len(t) \in Nat /\ Len(s) \in Nat
  BY <1>7, <1>8
<1>17. t[2] = s[2]
  <2>1. 2 \in 1..Len(t)
    BY <1>8, <1>16
  <2> QED BY <2>1, <1>15
<1>18. Len(s) - 2 = Len(t) - 2
  BY <1>7, <1>8, <1>9, <1>17
<1> QED BY <1>15, <1>16, <1>18

-----------------------------------------------------------------------------
(* Merging.                                                                *)

Elements(s) == {s[k] : k \in 1..Len(s)}

(* The elements of s ascend in their IDs.                                  *)
Rising(s) == \A k, l \in 1..Len(s) : k < l => s[k].id < s[l].id

(* Neighbours that ascend make a list that ascends.                        *)
LEMMA NeighboursRise ==
    ASSUME NEW P, \A p \in P : p.id \in Int, NEW s \in Seq(P),
           \A k \in 1..Len(s) - 1 : s[k].id < s[k + 1].id
    PROVE  Rising(s)
<1> DEFINE D == 1..Len(s)
           S == {l \in D : \A k \in D : k < l => s[k].id < s[l].id}
           m == [l \in D |-> l]
<1>0. Len(s) \in Nat /\ \A k \in D : s[k].id \in Int
  OBVIOUS
<1>1. ASSUME NEW l \in D, \A e \in D : m[e] < m[l] => e \in S
      PROVE  l \in S
  <2>1. ASSUME NEW k \in D, k < l
        PROVE  s[k].id < s[l].id
    <3>1. l - 1 \in D /\ m[l - 1] < m[l] /\ l - 1 \in 1..Len(s) - 1 /\ (l - 1) + 1 = l
      BY <2>1
    <3>2. s[l - 1].id < s[l].id
      BY <3>1
    <3>3. CASE k = l - 1
      BY <3>2, <3>3
    <3>4. CASE k < l - 1
      <4>1. l - 1 \in S
        BY <3>1, <1>1
      <4>2. s[k].id < s[l - 1].id
        BY <4>1, <3>4
      <4>3. s[k].id \in Int /\ s[l - 1].id \in Int /\ s[l].id \in Int
        BY <3>1, <1>0
      <4> QED BY <4>2, <4>3, <3>2
    <3> QED BY <3>3, <3>4, <2>1
  <2> QED BY <2>1
<1>2. \A d \in D : m[d] \in Nat
  OBVIOUS
<1>3. D \subseteq S
  <2> HIDE DEF D, S, m
  <2> QED BY <1>1, <1>2, MeasureInduction
<1> QED BY <1>3 DEF Rising

(* Putting an element with a smaller ID in front.                          *)
LEMMA FrontRises ==
    ASSUME NEW P, NEW p \in P, NEW s \in Seq(P), Rising(s),
           \A q \in P : q.id \in Int,
           \A q \in Elements(s) : p.id < q.id
    PROVE  /\ <<p>> \o s \in Seq(P)
           /\ Rising(<<p>> \o s)
           /\ Elements(<<p>> \o s) = {p} \cup Elements(s)
<1> DEFINE t == <<p>> \o s
<1>1. t \in Seq(P) /\ Len(t) = Len(s) + 1 /\ t[1] = p /\ Len(s) \in Nat
  OBVIOUS
<1>2. \A k \in 1..Len(s) : t[k + 1] = s[k]
  OBVIOUS
<1>3. \A k \in 2..Len(t) : k - 1 \in 1..Len(s) /\ t[k] = s[k - 1]
  BY <1>1
<1> HIDE DEF t
<1>4. Rising(t)
  <2> SUFFICES ASSUME NEW k \in 1..Len(t), NEW l \in 1..Len(t), k < l
               PROVE  t[k].id < t[l].id
    BY DEF Rising
  <2>1. t[l] = s[l - 1] /\ l - 1 \in 1..Len(s)
    BY <1>1, <1>3
  <2>2. CASE k = 1
    BY <2>1, <2>2, <1>1 DEF Elements
  <2>3. CASE k # 1
    <3>1. t[k] = s[k - 1] /\ k - 1 \in 1..Len(s) /\ k - 1 < l - 1
      BY <2>3, <1>1, <1>3
    <3> QED BY <3>1, <2>1 DEF Rising
  <2> QED BY <2>2, <2>3
<1>5. Elements(t) = {p} \cup Elements(s)
  <2>1. ASSUME NEW k \in 1..Len(t)
        PROVE  t[k] \in {p} \cup Elements(s)
    <3>1. CASE k = 1
      BY <3>1, <1>1
    <3>2. CASE k # 1
      <4>1. k - 1 \in 1..Len(s) /\ t[k] = s[k - 1]
        BY <3>2, <1>1, <1>3
      <4> QED BY <4>1 DEF Elements
    <3> QED BY <3>1, <3>2
  <2>2. p \in Elements(t)
    BY <1>1 DEF Elements
  <2>3. ASSUME NEW k \in 1..Len(s)
        PROVE  s[k] \in Elements(t)
    <3>1. k + 1 \in 1..Len(t) /\ t[k + 1] = s[k]
      BY <1>1, <1>2
    <3> QED BY <3>1 DEF Elements
  <2> QED BY <2>1, <2>2, <2>3 DEF Elements
<1> QED BY <1>1, <1>4, <1>5 DEF t

-----------------------------------------------------------------------------
BothPlaces(a, b) == (1..a + 1) \X (1..b + 1)

IntersectAt(left, right, from, at) ==
  LET i == at[1]
      j == at[2]
  IN  IF i > Len(left) \/ j > Len(right) THEN <<>>
      ELSE IF left[i].id < right[j].id THEN from[<<i + 1, j>>]
      ELSE IF left[i].id > right[j].id THEN from[<<i, j + 1>>]
      ELSE <<left[i]>> \o from[<<i + 1, j + 1>>]

Intersects(from, left, right) ==
  from = [at \in BothPlaces(Len(left), Len(right)) |-> IntersectAt(left, right, from, at)]

UnionAt(left, right, from, at) ==
  LET i == at[1]
      j == at[2]
  IN  IF i > Len(left) /\ j > Len(right) THEN <<>>
      ELSE IF \/ j > Len(right)
              \/ i <= Len(left) /\ left[i].id < right[j].id
           THEN <<left[i]>> \o from[<<i + 1, j>>]
      ELSE IF i > Len(left) \/ right[j].id < left[i].id
           THEN <<right[j]>> \o from[<<i, j + 1>>]
      ELSE <<left[i]>> \o from[<<i + 1, j + 1>>]

Unites(from, left, right) ==
  from = [at \in BothPlaces(Len(left), Len(right)) |-> UnionAt(left, right, from, at)]

(* Intersect is where a recursion over places of both lists begins.        *)
LEMMA IntersectIsRecursive ==
    ASSUME NEW left, NEW right
    PROVE  Intersect(left, right) =
             (CHOOSE from : Intersects(from, left, right))[<<1, 1>>]
  BY DEF Intersect, Intersects, IntersectAt, BothPlaces

(* Union is where such a recursion begins.                                 *)
LEMMA UnionIsRecursive ==
    ASSUME NEW left, NEW right
    PROVE  Union(left, right) =
             (CHOOSE from : Unites(from, left, right))[<<1, 1>>]
  BY DEF Union, Unites, UnionAt, BothPlaces

(* What is left to merge at a place.                                       *)
Remaining(a, b) == [at \in BothPlaces(a, b) |-> (a + 1 - at[1]) + (b + 1 - at[2])]

(* A place is one of each list; what is left at it is bounded.             *)
LEMMA PlacesAre ==
    ASSUME NEW a \in Nat, NEW b \in Nat
    PROVE  /\ \A at \in BothPlaces(a, b) :
                \E i \in 1..a + 1, j \in 1..b + 1 : at = <<i, j>>
           /\ \A at \in BothPlaces(a, b) :
                Remaining(a, b)[at] \in Nat /\ Remaining(a, b)[at] < a + b + 1
           /\ \A i \in 1..a + 1, j \in 1..b + 1 :
                /\ <<i, j>> \in BothPlaces(a, b)
                /\ i <= a =>
                     /\ <<i + 1, j>> \in BothPlaces(a, b)
                     /\ Remaining(a, b)[<<i + 1, j>>] < Remaining(a, b)[<<i, j>>]
                /\ j <= b =>
                     /\ <<i, j + 1>> \in BothPlaces(a, b)
                     /\ Remaining(a, b)[<<i, j + 1>>] < Remaining(a, b)[<<i, j>>]
                /\ (i <= a /\ j <= b) =>
                     /\ <<i + 1, j + 1>> \in BothPlaces(a, b)
                     /\ Remaining(a, b)[<<i + 1, j + 1>>] < Remaining(a, b)[<<i, j>>]
<1>1. \A i \in 1..a + 1, j \in 1..b + 1 :
        /\ <<i, j>> \in BothPlaces(a, b)
        /\ Remaining(a, b)[<<i, j>>] = (a + 1 - i) + (b + 1 - j)
  BY DEF BothPlaces, Remaining
<1>2. ASSUME NEW at \in BothPlaces(a, b)
      PROVE  \E i \in 1..a + 1, j \in 1..b + 1 : at = <<i, j>>
  <2>1. at[1] \in 1..a + 1 /\ at[2] \in 1..b + 1 /\ at = <<at[1], at[2]>>
    BY DEF BothPlaces
  <2> QED BY <2>1, Zenon
<1>3. ASSUME NEW at \in BothPlaces(a, b)
      PROVE  Remaining(a, b)[at] \in Nat /\ Remaining(a, b)[at] < a + b + 1
  <2>1. PICK i \in 1..a + 1, j \in 1..b + 1 : at = <<i, j>>
    BY <1>2
  <2> QED BY <1>1, <2>1
<1>4. ASSUME NEW i \in 1..a + 1, NEW j \in 1..b + 1, i <= a
      PROVE  /\ <<i + 1, j>> \in BothPlaces(a, b)
             /\ Remaining(a, b)[<<i + 1, j>>] < Remaining(a, b)[<<i, j>>]
  <2>1. i + 1 \in 1..a + 1
    BY <1>4
  <2> QED BY <1>1, <2>1
<1>5. ASSUME NEW i \in 1..a + 1, NEW j \in 1..b + 1, j <= b
      PROVE  /\ <<i, j + 1>> \in BothPlaces(a, b)
             /\ Remaining(a, b)[<<i, j + 1>>] < Remaining(a, b)[<<i, j>>]
  <2>1. j + 1 \in 1..b + 1
    BY <1>5
  <2> QED BY <1>1, <2>1
<1>6. ASSUME NEW i \in 1..a + 1, NEW j \in 1..b + 1, i <= a, j <= b
      PROVE  /\ <<i + 1, j + 1>> \in BothPlaces(a, b)
             /\ Remaining(a, b)[<<i + 1, j + 1>>] < Remaining(a, b)[<<i, j>>]
  <2>1. i + 1 \in 1..a + 1 /\ j + 1 \in 1..b + 1
    BY <1>6
  <2> QED BY <1>1, <2>1
<1> QED BY <1>1, <1>2, <1>3, <1>4, <1>5, <1>6, Zenon

(* Intersection and union of lists over P are functions of the places.     *)
LEMMA IntersectRuns ==
    ASSUME NEW P, NEW left \in Seq(P), NEW right \in Seq(P)
    PROVE  \E from \in [BothPlaces(Len(left), Len(right)) -> Seq(P)] : Intersects(from, left, right)
<1> DEFINE a == Len(left)
           b == Len(right)
           D == BothPlaces(a, b)
           V == Seq(P)
           m == Remaining(a, b)
           G == [at \in D |-> [f \in [D -> V] |-> IntersectAt(left, right, f, at)]]
<1>0. /\ a \in Nat /\ b \in Nat /\ a + b + 1 \in Nat /\ <<>> \in V
      /\ \A i \in 1..a : left[i] \in P
      /\ \A j \in 1..b : right[j] \in P
      /\ \A p \in P, s \in V : <<p>> \o s \in V
  OBVIOUS
<1>1. /\ \A at \in D : \E i \in 1..a + 1, j \in 1..b + 1 : at = <<i, j>>
      /\ \A at \in D : m[at] \in Nat /\ m[at] < a + b + 1
      /\ \A i \in 1..a + 1, j \in 1..b + 1 :
           /\ i <= a => <<i + 1, j>> \in D /\ m[<<i + 1, j>>] < m[<<i, j>>]
           /\ j <= b => <<i, j + 1>> \in D /\ m[<<i, j + 1>>] < m[<<i, j>>]
           /\ (i <= a /\ j <= b) =>
                <<i + 1, j + 1>> \in D /\ m[<<i + 1, j + 1>>] < m[<<i, j>>]
  <2> HIDE DEF a, b
  <2> QED BY <1>0, PlacesAre
<1>2. m \in [D -> Nat]
  <2>1. m = [at \in D |-> m[at]]
    BY DEF Remaining
  <2> QED BY <1>1, <2>1
<1> HIDE DEF m, D, V, G, a, b
<1>3. ASSUME NEW at \in D, NEW f \in [D -> V]
      PROVE  IntersectAt(left, right, f, at) \in V
  <2>1. PICK i \in 1..a + 1, j \in 1..b + 1 : at = <<i, j>>
    BY <1>1
  <2>2. /\ i <= a => f[<<i + 1, j>>] \in V /\ left[i] \in P
        /\ j <= b => f[<<i, j + 1>>] \in V /\ right[j] \in P
        /\ (i <= a /\ j <= b) => f[<<i + 1, j + 1>>] \in V
    <3>1. /\ i <= a => <<i + 1, j>> \in D
          /\ j <= b => <<i, j + 1>> \in D
          /\ (i <= a /\ j <= b) => <<i + 1, j + 1>> \in D
      BY <1>1
    <3>2. (i <= a => i \in 1..a) /\ (j <= b => j \in 1..b)
      BY <1>0
    <3> QED BY <3>1, <3>2, <1>0
  <2>3. /\ i <= a => <<left[i]>> \o f[<<i + 1, j>>] \in V
        /\ j <= b => <<right[j]>> \o f[<<i, j + 1>>] \in V
        /\ (i <= a /\ j <= b) => <<left[i]>> \o f[<<i + 1, j + 1>>] \in V
    BY <1>0, <2>2
  <2>4. (i > a \/ i <= a) /\ (j > b \/ j <= b)
    BY <1>0
  <2> QED BY <2>1, <2>2, <2>3, <2>4, <1>0 DEF IntersectAt, a, b
<1>4. ASSUME NEW at \in D, NEW f \in [D -> V], NEW g \in [D -> V],
             \A e \in D : m[e] < m[at] => f[e] = g[e]
      PROVE  IntersectAt(left, right, f, at) = IntersectAt(left, right, g, at)
  <2>1. PICK i \in 1..a + 1, j \in 1..b + 1 : at = <<i, j>>
    BY <1>1
  <2>2. /\ i <= a => f[<<i + 1, j>>] = g[<<i + 1, j>>]
        /\ j <= b => f[<<i, j + 1>>] = g[<<i, j + 1>>]
        /\ (i <= a /\ j <= b) => f[<<i + 1, j + 1>>] = g[<<i + 1, j + 1>>]
    BY <1>1, <1>4, <2>1
  <2>3. (i > a \/ i <= a) /\ (j > b \/ j <= b)
    BY <1>0
  <2> QED BY <2>1, <2>2, <2>3 DEF IntersectAt, a, b
<1>5. Descends(G, D, V, m, a + b + 1)
  BY <1>0, <1>1, <1>2, <1>3, <1>4 DEF Descends, G
<1>6. PICK f \in [D -> V] : \A at \in D : f[at] = G[at][f]
  BY <1>5, Recursion
<1>7. f = [at \in D |-> IntersectAt(left, right, f, at)]
  <2>1. \A at \in D : f[at] = IntersectAt(left, right, f, at)
    BY <1>6 DEF G
  <2>2. f = [at \in D |-> f[at]]
    OBVIOUS
  <2> QED BY <2>1, <2>2
<1> QED BY <1>7 DEF Intersects, D, V, a, b

(* There is a function that the recursion of Union defines.                *)
LEMMA UnionRuns ==
    ASSUME NEW P, NEW left \in Seq(P), NEW right \in Seq(P)
    PROVE  \E from \in [BothPlaces(Len(left), Len(right)) -> Seq(P)] : Unites(from, left, right)
<1> DEFINE a == Len(left)
           b == Len(right)
           D == BothPlaces(a, b)
           V == Seq(P)
           m == Remaining(a, b)
           G == [at \in D |-> [f \in [D -> V] |-> UnionAt(left, right, f, at)]]
<1>0. /\ a \in Nat /\ b \in Nat /\ a + b + 1 \in Nat /\ <<>> \in V
      /\ \A i \in 1..a : left[i] \in P
      /\ \A j \in 1..b : right[j] \in P
      /\ \A p \in P, s \in V : <<p>> \o s \in V
  OBVIOUS
<1>1. /\ \A at \in D : \E i \in 1..a + 1, j \in 1..b + 1 : at = <<i, j>>
      /\ \A at \in D : m[at] \in Nat /\ m[at] < a + b + 1
      /\ \A i \in 1..a + 1, j \in 1..b + 1 :
           /\ i <= a => <<i + 1, j>> \in D /\ m[<<i + 1, j>>] < m[<<i, j>>]
           /\ j <= b => <<i, j + 1>> \in D /\ m[<<i, j + 1>>] < m[<<i, j>>]
           /\ (i <= a /\ j <= b) =>
                <<i + 1, j + 1>> \in D /\ m[<<i + 1, j + 1>>] < m[<<i, j>>]
  <2> HIDE DEF a, b
  <2> QED BY <1>0, PlacesAre
<1>2. m \in [D -> Nat]
  <2>1. m = [at \in D |-> m[at]]
    BY DEF Remaining
  <2> QED BY <1>1, <2>1
<1> HIDE DEF m, D, V, G, a, b
<1>3. ASSUME NEW at \in D, NEW f \in [D -> V]
      PROVE  UnionAt(left, right, f, at) \in V
  <2>1. PICK i \in 1..a + 1, j \in 1..b + 1 : at = <<i, j>>
    BY <1>1
  <2>2. /\ i <= a => f[<<i + 1, j>>] \in V /\ left[i] \in P
        /\ j <= b => f[<<i, j + 1>>] \in V /\ right[j] \in P
        /\ (i <= a /\ j <= b) => f[<<i + 1, j + 1>>] \in V
    <3>1. /\ i <= a => <<i + 1, j>> \in D
          /\ j <= b => <<i, j + 1>> \in D
          /\ (i <= a /\ j <= b) => <<i + 1, j + 1>> \in D
      BY <1>1
    <3>2. (i <= a => i \in 1..a) /\ (j <= b => j \in 1..b)
      BY <1>0
    <3> QED BY <3>1, <3>2, <1>0
  <2>3. /\ i <= a => <<left[i]>> \o f[<<i + 1, j>>] \in V
        /\ j <= b => <<right[j]>> \o f[<<i, j + 1>>] \in V
        /\ (i <= a /\ j <= b) => <<left[i]>> \o f[<<i + 1, j + 1>>] \in V
    BY <1>0, <2>2
  <2>4. (i > a \/ i <= a) /\ (j > b \/ j <= b)
    BY <1>0
  <2> QED BY <2>1, <2>2, <2>3, <2>4, <1>0 DEF UnionAt, a, b
<1>4. ASSUME NEW at \in D, NEW f \in [D -> V], NEW g \in [D -> V],
             \A e \in D : m[e] < m[at] => f[e] = g[e]
      PROVE  UnionAt(left, right, f, at) = UnionAt(left, right, g, at)
  <2>1. PICK i \in 1..a + 1, j \in 1..b + 1 : at = <<i, j>>
    BY <1>1
  <2>2. /\ i <= a => f[<<i + 1, j>>] = g[<<i + 1, j>>]
        /\ j <= b => f[<<i, j + 1>>] = g[<<i, j + 1>>]
        /\ (i <= a /\ j <= b) => f[<<i + 1, j + 1>>] = g[<<i + 1, j + 1>>]
    BY <1>1, <1>4, <2>1
  <2>3. (i > a \/ i <= a) /\ (j > b \/ j <= b)
    BY <1>0
  <2> QED BY <2>1, <2>2, <2>3 DEF UnionAt, a, b
<1>5. Descends(G, D, V, m, a + b + 1)
  BY <1>0, <1>1, <1>2, <1>3, <1>4 DEF Descends, G
<1>6. PICK f \in [D -> V] : \A at \in D : f[at] = G[at][f]
  BY <1>5, Recursion
<1>7. f = [at \in D |-> UnionAt(left, right, f, at)]
  <2>1. \A at \in D : f[at] = UnionAt(left, right, f, at)
    BY <1>6 DEF G
  <2>2. f = [at \in D |-> f[at]]
    OBVIOUS
  <2> QED BY <2>1, <2>2
<1> QED BY <1>7 DEF Unites, D, V, a, b

(* The left postings from i on whose ID a right posting from j on has.     *)
Common(left, right, i, j) ==
  {left[k] : k \in {x \in i..Len(left) :
     \E l \in j..Len(right) : left[x].id = right[l].id}}

(* The left postings from i on, and the right ones from j on with an ID of *)
(* their own.                                                              *)
Either(left, right, i, j) ==
  {left[k] : k \in i..Len(left)} \cup
  {right[l] : l \in {x \in j..Len(right) :
     \A k \in i..Len(left) : left[k].id # right[x].id}}

Climbs(a, x) ==
  /\ a \in Nat
  /\ x \in [1..a -> Int]
  /\ \A k, l \in 1..a : k < l => x[k] < x[l]

(* The numbers x[1..a] and y[1..b] increase: what the smaller of x[i] and  *)
(* y[j] is equal to further on.                                            *)
LEMMA BothIncrease ==
    ASSUME NEW a, NEW b, NEW x, NEW y, Climbs(a, x), Climbs(b, y),
           NEW i \in 1..a, NEW j \in 1..b
    PROVE  /\ x[i] < y[j] => \A n \in j..b : x[i] # y[n]
           /\ x[i] > y[j] => \A c \in i..a : x[c] # y[j]
           /\ \A c \in i + 1..a : c \in i..a /\ x[i] < x[c]
           /\ \A n \in j + 1..b : n \in j..b /\ y[j] < y[n]
           /\ \A c \in i..a : c \in 1..a /\ (c = i \/ c \in i + 1..a)
           /\ \A n \in j..b : n \in 1..b /\ (n = j \/ n \in j + 1..b)
           /\ i \in i..a /\ j \in j..b
<1>0. /\ a \in Nat /\ b \in Nat
      /\ x \in [1..a -> Int] /\ y \in [1..b -> Int]
      /\ \A k, l \in 1..a : k < l => x[k] < x[l]
      /\ \A k, l \in 1..b : k < l => y[k] < y[l]
  BY DEF Climbs
<1>1. ASSUME NEW c \in i..a
      PROVE  c \in 1..a /\ (c = i \/ c \in i + 1..a) /\ x[i] <= x[c] /\ x[c] \in Int
  <2>1. c \in 1..a /\ (c = i \/ c \in i + 1..a) /\ (c # i => i < c)
    BY <1>0
  <2> QED BY <2>1, <1>0
<1>2. ASSUME NEW n \in j..b
      PROVE  n \in 1..b /\ (n = j \/ n \in j + 1..b) /\ y[j] <= y[n] /\ y[n] \in Int
  <2>1. n \in 1..b /\ (n = j \/ n \in j + 1..b) /\ (n # j => j < n)
    BY <1>0
  <2> QED BY <2>1, <1>0
<1>3. ASSUME NEW c \in i + 1..a
      PROVE  c \in i..a /\ x[i] < x[c]
  <2>1. c \in 1..a /\ i < c /\ c \in i..a
    BY <1>0
  <2> QED BY <2>1, <1>0
<1>4. ASSUME NEW n \in j + 1..b
      PROVE  n \in j..b /\ y[j] < y[n]
  <2>1. n \in 1..b /\ j < n /\ n \in j..b
    BY <1>0
  <2> QED BY <2>1, <1>0
<1>5. ASSUME x[i] < y[j], NEW n \in j..b
      PROVE  x[i] # y[n]
  <2>1. x[i] \in Int /\ y[j] \in Int /\ y[n] \in Int /\ y[j] <= y[n]
    BY <1>0, <1>2
  <2> QED BY <2>1, <1>5
<1>6. ASSUME x[i] > y[j], NEW c \in i..a
      PROVE  x[c] # y[j]
  <2>1. x[i] \in Int /\ y[j] \in Int /\ x[c] \in Int /\ x[i] <= x[c]
    BY <1>0, <1>1
  <2> QED BY <2>1, <1>6
<1>7. i \in i..a /\ j \in j..b
  BY <1>0
<1> QED BY <1>1, <1>2, <1>3, <1>4, <1>5, <1>6, <1>7, Zenon

(* The IDs of a list.                                                      *)
IdsOf(s) == [k \in 1..Len(s) |-> s[k].id]

(* The IDs of a list that ascends ascend.                                  *)
LEMMA IdsIncrease ==
    ASSUME NEW P, \A p \in P : p.id \in Int, NEW s \in Seq(P), Rising(s)
    PROVE  /\ Climbs(Len(s), IdsOf(s))
           /\ \A k \in 1..Len(s) : IdsOf(s)[k] = s[k].id
<1>1. \A k \in 1..Len(s) : s[k].id \in Int
  OBVIOUS
<1> QED BY <1>1 DEF IdsOf, Rising, Climbs

(* Membership in what two lists have in common, by their IDs.              *)
LEMMA CommonMember ==
    ASSUME NEW P, \A p \in P : p.id \in Int,
           NEW left \in Seq(P), NEW right \in Seq(P),
           NEW i \in 1..Len(left) + 1, NEW j \in 1..Len(right) + 1, NEW q
    PROVE  q \in Common(left, right, i, j) <=>
             \E c \in i..Len(left) :
               /\ q = left[c]
               /\ \E n \in j..Len(right) : IdsOf(left)[c] = IdsOf(right)[n]
<1>1. \A c \in i..Len(left) : IdsOf(left)[c] = left[c].id
  BY DEF IdsOf
<1>2. \A n \in j..Len(right) : IdsOf(right)[n] = right[n].id
  BY DEF IdsOf
<1> QED BY <1>1, <1>2 DEF Common

(* What the posting in front leaves in common.                             *)
LEMMA CommonStep ==
    ASSUME NEW P, \A p \in P : p.id \in Int,
           NEW left \in Seq(P), NEW right \in Seq(P), Rising(left), Rising(right),
           NEW i \in 1..Len(left), NEW j \in 1..Len(right)
    PROVE  /\ left[i].id < right[j].id =>
                Common(left, right, i, j) = Common(left, right, i + 1, j)
           /\ left[i].id > right[j].id =>
                Common(left, right, i, j) = Common(left, right, i, j + 1)
           /\ left[i].id = right[j].id =>
                /\ Common(left, right, i, j) =
                     {left[i]} \cup Common(left, right, i + 1, j + 1)
                /\ \A q \in Common(left, right, i + 1, j + 1) : left[i].id < q.id
<1> DEFINE a == Len(left)
           b == Len(right)
           x == IdsOf(left)
           y == IdsOf(right)
           In(q, k, l) == \E c \in k..a : q = left[c] /\ \E n \in l..b : x[c] = y[n]
<1>0. /\ Climbs(a, x) /\ Climbs(b, y)
      /\ \A k \in 1..a : x[k] = left[k].id
      /\ \A k \in 1..b : y[k] = right[k].id
  BY IdsIncrease
<1>1. /\ a \in Nat /\ b \in Nat
      /\ x \in [1..a -> Int] /\ y \in [1..b -> Int]
      /\ \A k, l \in 1..a : k < l => x[k] < x[l]
      /\ \A k, l \in 1..b : k < l => y[k] < y[l]
      /\ \A k \in 1..a : x[k] = left[k].id
      /\ \A k \in 1..b : y[k] = right[k].id
  BY <1>0 DEF Climbs
<1>2. \A q : \A k \in 1..a + 1 : \A l \in 1..b + 1 :
        q \in Common(left, right, k, l) <=> In(q, k, l)
  BY CommonMember
<1> HIDE DEF a, b, x, y
<1>3. i \in 1..a /\ j \in 1..b
  BY DEF a, b
<1>4. /\ i \in 1..a + 1 /\ i + 1 \in 1..a + 1
      /\ j \in 1..b + 1 /\ j + 1 \in 1..b + 1
  BY <1>1, <1>3
<1>5. /\ x[i] < y[j] => \A n \in j..b : x[i] # y[n]
      /\ x[i] > y[j] => \A c \in i..a : x[c] # y[j]
      /\ \A c \in i + 1..a : c \in i..a /\ x[i] < x[c]
      /\ \A n \in j + 1..b : n \in j..b /\ y[j] < y[n]
      /\ \A c \in i..a : c \in 1..a /\ (c = i \/ c \in i + 1..a)
      /\ \A n \in j..b : n \in 1..b /\ (n = j \/ n \in j + 1..b)
      /\ i \in i..a /\ j \in j..b
  BY <1>0, <1>3, BothIncrease
<1>6. ASSUME x[i] < y[j], NEW q
      PROVE  In(q, i, j) <=> In(q, i + 1, j)
  BY <1>5, <1>6, Zenon
<1>7. ASSUME x[i] > y[j], NEW q
      PROVE  In(q, i, j) <=> In(q, i, j + 1)
  BY <1>5, <1>7, Zenon
<1>8. ASSUME x[i] = y[j]
      PROVE  \A c \in i + 1..a : x[c] # y[j]
  BY <1>1, <1>3, <1>5, <1>8
<1>9. ASSUME x[i] = y[j], NEW q
      PROVE  /\ In(q, i, j) <=> q = left[i] \/ In(q, i + 1, j + 1)
             /\ In(q, i + 1, j + 1) => x[i] < q.id
  <2>1. In(q, i + 1, j + 1) => x[i] < q.id
    BY <1>1, <1>5
  <2>2. q = left[i] => In(q, i, j)
    BY <1>5, <1>9, Zenon
  <2>3. In(q, i + 1, j + 1) => In(q, i, j)
    BY <1>5, Zenon
  <2>4. In(q, i, j) => q = left[i] \/ In(q, i + 1, j + 1)
    <3>1. ASSUME NEW c \in i + 1..a, NEW n \in j..b, x[c] = y[n]
          PROVE  n \in j + 1..b
      BY <1>5, <1>8, <1>9, <3>1, Zenon
    <3> QED BY <1>5, <3>1, Zenon
  <2> QED BY <2>1, <2>2, <2>3, <2>4
<1>10. x[i] = left[i].id /\ y[j] = right[j].id
  BY <1>1, <1>3
<1> HIDE DEF In
<1>11. left[i].id < right[j].id => Common(left, right, i, j) = Common(left, right, i + 1, j)
  BY <1>2, <1>4, <1>6, <1>10
<1>12. left[i].id > right[j].id => Common(left, right, i, j) = Common(left, right, i, j + 1)
  BY <1>2, <1>4, <1>7, <1>10
<1>13. left[i].id = right[j].id =>
         /\ Common(left, right, i, j) = {left[i]} \cup Common(left, right, i + 1, j + 1)
         /\ \A q \in Common(left, right, i + 1, j + 1) : left[i].id < q.id
  BY <1>2, <1>4, <1>9, <1>10
<1> QED BY <1>11, <1>12, <1>13

(* Membership in the union, by the IDs.                                    *)
LEMMA EitherMember ==
    ASSUME NEW P, \A p \in P : p.id \in Int,
           NEW left \in Seq(P), NEW right \in Seq(P),
           NEW i \in 1..Len(left) + 1, NEW j \in 1..Len(right) + 1, NEW q
    PROVE  q \in Either(left, right, i, j) <=>
             \/ \E c \in i..Len(left) : q = left[c]
             \/ \E n \in j..Len(right) :
                  /\ q = right[n]
                  /\ \A c \in i..Len(left) : IdsOf(left)[c] # IdsOf(right)[n]
<1>1. \A c \in i..Len(left) : IdsOf(left)[c] = left[c].id
  BY DEF IdsOf
<1>2. \A n \in j..Len(right) : IdsOf(right)[n] = right[n].id
  BY DEF IdsOf
<1> QED BY <1>1, <1>2 DEF Either

(* The places from k on are k and those after it.                          *)
LEMMA PlacesFrom ==
    ASSUME NEW n \in Nat, NEW k \in Nat, 1 <= k
    PROVE  /\ \A m \in k + 1..n : m \in k..n /\ m \in 1..n /\ k < m
           /\ \A m \in k..n : m \in 1..n /\ (m = k \/ m \in k + 1..n)
           /\ k <= n => k \in k..n /\ k \in 1..n
  OBVIOUS

(* What the posting in front leaves to unite.                              *)
LEMMA EitherStep ==
    ASSUME NEW P, \A p \in P : p.id \in Int,
           NEW left \in Seq(P), NEW right \in Seq(P), Rising(left), Rising(right),
           NEW i \in 1..Len(left) + 1, NEW j \in 1..Len(right) + 1
    PROVE  /\ (i <= Len(left) /\ (j > Len(right) \/ left[i].id < right[j].id)) =>
                /\ Either(left, right, i, j) =
                     {left[i]} \cup Either(left, right, i + 1, j)
                /\ \A q \in Either(left, right, i + 1, j) : left[i].id < q.id
           /\ (j <= Len(right) /\ (i > Len(left) \/ right[j].id < left[i].id)) =>
                /\ Either(left, right, i, j) =
                     {right[j]} \cup Either(left, right, i, j + 1)
                /\ \A q \in Either(left, right, i, j + 1) : right[j].id < q.id
           /\ (i <= Len(left) /\ j <= Len(right) /\ left[i].id = right[j].id) =>
                /\ Either(left, right, i, j) =
                     {left[i]} \cup Either(left, right, i + 1, j + 1)
                /\ \A q \in Either(left, right, i + 1, j + 1) : left[i].id < q.id
<1> DEFINE a == Len(left)
           b == Len(right)
           x == IdsOf(left)
           y == IdsOf(right)
           In(q, k, l) == \/ \E c \in k..a : q = left[c]
                          \/ \E n \in l..b : q = right[n] /\ \A c \in k..a : x[c] # y[n]
<1>0. /\ Climbs(a, x) /\ Climbs(b, y)
      /\ \A k \in 1..a : x[k] = left[k].id
      /\ \A k \in 1..b : y[k] = right[k].id
  BY IdsIncrease
<1>1. /\ a \in Nat /\ b \in Nat
      /\ x \in [1..a -> Int] /\ y \in [1..b -> Int]
      /\ \A k, l \in 1..a : k < l => x[k] < x[l]
      /\ \A k, l \in 1..b : k < l => y[k] < y[l]
      /\ \A k \in 1..a : x[k] = left[k].id
      /\ \A k \in 1..b : y[k] = right[k].id
  BY <1>0 DEF Climbs
<1>2. \A q : \A k \in 1..a + 1 : \A l \in 1..b + 1 :
        q \in Either(left, right, k, l) <=> In(q, k, l)
  BY EitherMember
<1> HIDE DEF a, b, x, y
<1>3. i \in 1..a + 1 /\ j \in 1..b + 1
  BY DEF a, b
<1>4. /\ i <= a => i \in 1..a /\ i + 1 \in 1..a + 1 /\ x[i] = left[i].id
      /\ j <= b => j \in 1..b /\ j + 1 \in 1..b + 1 /\ y[j] = right[j].id
      /\ i > a => \A c \in i..a : FALSE
      /\ j > b => \A n \in j..b : FALSE
  <2>1. i <= a => i \in 1..a /\ i + 1 \in 1..a + 1
    BY <1>1, <1>3
  <2>2. j <= b => j \in 1..b /\ j + 1 \in 1..b + 1
    BY <1>1, <1>3
  <2>3. i > a => \A c \in i..a : FALSE
    BY <1>1, <1>3
  <2>4. j > b => \A n \in j..b : FALSE
    BY <1>1, <1>3
  <2> QED BY <1>1, <2>1, <2>2, <2>3, <2>4
<1>5. ASSUME i <= a
      PROVE  /\ \A c \in i + 1..a : c \in i..a /\ c \in 1..a /\ x[i] < x[c]
             /\ \A c \in i..a : c \in 1..a /\ (c = i \/ c \in i + 1..a)
             /\ i \in i..a
  <2>0. a \in Nat /\ i \in Nat /\ 1 <= i
    BY <1>1, <1>3
  <2>1. /\ \A m \in i + 1..a : m \in i..a /\ m \in 1..a /\ i < m
        /\ \A m \in i..a : m \in 1..a /\ (m = i \/ m \in i + 1..a)
        /\ i \in i..a /\ i \in 1..a
    <3> HIDE DEF a
    <3> QED BY <2>0, <1>5, PlacesFrom
  <2> QED BY <2>1, <1>1
<1>6. ASSUME j <= b
      PROVE  /\ \A n \in j + 1..b : n \in j..b /\ n \in 1..b /\ y[j] < y[n]
             /\ \A n \in j..b : n \in 1..b /\ (n = j \/ n \in j + 1..b)
             /\ j \in j..b
  <2>0. b \in Nat /\ j \in Nat /\ 1 <= j
    BY <1>1, <1>3
  <2>1. /\ \A m \in j + 1..b : m \in j..b /\ m \in 1..b /\ j < m
        /\ \A m \in j..b : m \in 1..b /\ (m = j \/ m \in j + 1..b)
        /\ j \in j..b /\ j \in 1..b
    <3> HIDE DEF b
    <3> QED BY <2>0, <1>6, PlacesFrom
  <2> QED BY <2>1, <1>1
<1>7. ASSUME i <= a, j > b \/ x[i] < y[j]
      PROVE  /\ \A q : In(q, i, j) <=> q = left[i] \/ In(q, i + 1, j)
             /\ \A q : In(q, i + 1, j) => x[i] < q.id
  <2>1. ASSUME NEW n \in j..b
        PROVE  n \in 1..b /\ x[i] < y[n]
    <3>1. j <= b /\ x[i] < y[j]
      BY <1>4, <1>7, <1>1, <1>3
    <3>2. n \in 1..b /\ (n = j \/ n \in j + 1..b)
      BY <3>1, <1>6
    <3>3. n # j => y[j] < y[n]
      BY <3>1, <3>2, <1>6
    <3>4. x[i] \in Int /\ y[j] \in Int /\ y[n] \in Int
      BY <1>1, <1>4, <1>7, <3>1, <3>2
    <3>5. CASE n = j
      BY <3>1, <3>2, <3>5
    <3>6. CASE n # j
      <4>1. x[i] < y[j] /\ y[j] < y[n]
        BY <3>1, <3>3, <3>6
      <4> QED BY <4>1, <3>2, <3>4
    <3> QED BY <3>5, <3>6
  <2>2. \A n \in j..b : x[i] # y[n]
    <3>1. ASSUME NEW n \in j..b
          PROVE  x[i] # y[n]
      <4>1. x[i] < y[n] /\ x[i] \in Int /\ y[n] \in Int
        BY <2>1, <1>1, <1>4, <1>7
      <4> QED BY <4>1
    <3> QED BY <3>1
  <2>3. \A q : In(q, i, j) <=> q = left[i] \/ In(q, i + 1, j)
    BY <1>5, <1>7, <2>2, Zenon
  <2>4. \A q : In(q, i + 1, j) => x[i] < q.id
    BY <1>1, <1>5, <1>7, <2>1
  <2> QED BY <2>3, <2>4
<1>8. ASSUME j <= b, i > a \/ y[j] < x[i]
      PROVE  /\ \A q : In(q, i, j) <=> q = right[j] \/ In(q, i, j + 1)
             /\ \A q : In(q, i, j + 1) => y[j] < q.id
  <2>1. ASSUME NEW c \in i..a
        PROVE  c \in 1..a /\ y[j] < x[c]
    <3>1. i <= a /\ y[j] < x[i]
      BY <1>4, <1>8, <1>1, <1>3
    <3>2. c \in 1..a /\ (c = i \/ c \in i + 1..a)
      BY <3>1, <1>5
    <3>3. c # i => x[i] < x[c]
      BY <3>1, <3>2, <1>5
    <3>4. y[j] \in Int /\ x[i] \in Int /\ x[c] \in Int
      BY <1>1, <1>4, <1>8, <3>1, <3>2
    <3>5. CASE c = i
      BY <3>1, <3>2, <3>5
    <3>6. CASE c # i
      <4>1. y[j] < x[i] /\ x[i] < x[c]
        BY <3>1, <3>3, <3>6
      <4> QED BY <4>1, <3>2, <3>4
    <3> QED BY <3>5, <3>6
  <2>2. \A c \in i..a : x[c] # y[j]
    <3>1. ASSUME NEW c \in i..a
          PROVE  x[c] # y[j]
      <4>1. y[j] < x[c] /\ x[c] \in Int /\ y[j] \in Int
        BY <2>1, <1>1, <1>4, <1>8
      <4> QED BY <4>1
    <3> QED BY <3>1
  <2>3. \A q : In(q, i, j) <=> q = right[j] \/ In(q, i, j + 1)
    BY <1>6, <1>8, <2>2, Zenon
  <2>4. \A q : In(q, i, j + 1) => y[j] < q.id
    BY <1>1, <1>6, <1>8, <2>1
  <2> QED BY <2>3, <2>4
<1>9. ASSUME i <= a, j <= b, x[i] = y[j]
      PROVE  /\ \A q : In(q, i, j) <=> q = left[i] \/ In(q, i + 1, j + 1)
             /\ \A q : In(q, i + 1, j + 1) => x[i] < q.id
  <2>1. ASSUME NEW n \in j + 1..b
        PROVE  x[i] # y[n] /\ x[i] < y[n]
    <3>1. y[j] < y[n] /\ x[i] = y[j]
      BY <1>6, <1>9
    <3>2. x[i] \in Int /\ y[n] \in Int
      BY <1>1, <1>4, <1>6, <1>9
    <3> QED BY <3>1, <3>2
  <2>2. \A q : In(q, i, j) => q = left[i] \/ In(q, i + 1, j + 1)
    <3>1. ASSUME NEW n \in j..b, \A c \in i..a : x[c] # y[n]
          PROVE  n \in j + 1..b /\ \A c \in i + 1..a : x[c] # y[n]
      BY <1>5, <1>6, <1>9, <3>1, Zenon
    <3> QED BY <1>5, <1>9, <3>1, Zenon
  <2>3. \A q : q = left[i] \/ In(q, i + 1, j + 1) => In(q, i, j)
    <3>1. ASSUME NEW n \in j + 1..b, \A c \in i + 1..a : x[c] # y[n]
          PROVE  n \in j..b /\ \A c \in i..a : x[c] # y[n]
      BY <1>5, <1>6, <1>9, <2>1, <3>1, Zenon
    <3> QED BY <1>5, <1>9, <3>1, Zenon
  <2>4. \A q : In(q, i + 1, j + 1) => x[i] < q.id
    BY <1>1, <1>5, <1>6, <1>9, <2>1
  <2> QED BY <2>2, <2>3, <2>4
<1> HIDE DEF In
<1>10. ASSUME i <= a, j > b \/ left[i].id < right[j].id
       PROVE  /\ Either(left, right, i, j) = {left[i]} \cup Either(left, right, i + 1, j)
              /\ \A q \in Either(left, right, i + 1, j) : left[i].id < q.id
  <2>1. j <= b => y[j] = right[j].id
    BY <1>4
  <2>2. j > b \/ x[i] < y[j]
    BY <1>3, <1>1, <1>4, <1>10, <2>1
  <2> QED BY <1>2, <1>3, <1>4, <1>7, <1>10, <2>2
<1>11. ASSUME j <= b, i > a \/ right[j].id < left[i].id
       PROVE  /\ Either(left, right, i, j) = {right[j]} \cup Either(left, right, i, j + 1)
              /\ \A q \in Either(left, right, i, j + 1) : right[j].id < q.id
  <2>1. i <= a => x[i] = left[i].id
    BY <1>4
  <2>2. i > a \/ y[j] < x[i]
    BY <1>3, <1>1, <1>4, <1>11, <2>1
  <2> QED BY <1>2, <1>3, <1>4, <1>8, <1>11, <2>2
<1>12. ASSUME i <= a, j <= b, left[i].id = right[j].id
       PROVE  /\ Either(left, right, i, j) = {left[i]} \cup Either(left, right, i + 1, j + 1)
              /\ \A q \in Either(left, right, i + 1, j + 1) : left[i].id < q.id
  BY <1>2, <1>3, <1>4, <1>9, <1>12
<1> QED BY <1>10, <1>11, <1>12 DEF a, b

(* What the intersection computes from each place on.                      *)
LEMMA IntersectMeans ==
    ASSUME NEW P, \A p \in P : p.id \in Int,
           NEW left \in Seq(P), NEW right \in Seq(P), Rising(left), Rising(right),
           NEW from, Intersects(from, left, right),
           NEW i \in 1..Len(left) + 1, NEW j \in 1..Len(right) + 1
    PROVE  /\ from[<<i, j>>] \in Seq(P)
           /\ Rising(from[<<i, j>>])
           /\ Elements(from[<<i, j>>]) = Common(left, right, i, j)
<1> DEFINE a == Len(left)
           b == Len(right)
           D == BothPlaces(a, b)
           m == Remaining(a, b)
           Good(k, l) == /\ from[<<k, l>>] \in Seq(P)
                         /\ Rising(from[<<k, l>>])
                         /\ Elements(from[<<k, l>>]) = Common(left, right, k, l)
           S == {at \in D : \A k \in 1..a + 1, l \in 1..b + 1 : at = <<k, l>> => Good(k, l)}
<1>0. a \in Nat /\ b \in Nat
  OBVIOUS
<1>1. /\ \A at \in D : \E k \in 1..a + 1, l \in 1..b + 1 : at = <<k, l>>
      /\ \A at \in D : m[at] \in Nat
      /\ \A k \in 1..a + 1, l \in 1..b + 1 :
           /\ <<k, l>> \in D
           /\ k <= a => <<k + 1, l>> \in D /\ m[<<k + 1, l>>] < m[<<k, l>>]
           /\ l <= b => <<k, l + 1>> \in D /\ m[<<k, l + 1>>] < m[<<k, l>>]
           /\ (k <= a /\ l <= b) =>
                <<k + 1, l + 1>> \in D /\ m[<<k + 1, l + 1>>] < m[<<k, l>>]
  <2> HIDE DEF a, b
  <2> QED BY <1>0, PlacesAre
<1>2. \A at \in D : from[at] = IntersectAt(left, right, from, at)
  BY DEF Intersects
<1> HIDE DEF Good, D, m
<1>3. ASSUME NEW k \in 1..a + 1, NEW l \in 1..b + 1,
             \A e \in D : m[e] < m[<<k, l>>] => e \in S
      PROVE  Good(k, l)
  <2>1. /\ k <= a => k \in 1..a /\ left[k] \in P /\ k + 1 \in 1..a + 1
        /\ l <= b => l \in 1..b /\ right[l] \in P /\ l + 1 \in 1..b + 1
    BY <1>0
  <2>2. /\ k <= a => Good(k + 1, l)
        /\ l <= b => Good(k, l + 1)
        /\ (k <= a /\ l <= b) => Good(k + 1, l + 1)
    BY <1>1, <1>3, <2>1
  <2>7. from[<<k, l>>] = IF k > a \/ l > b THEN <<>>
                         ELSE IF left[k].id < right[l].id THEN from[<<k + 1, l>>]
                         ELSE IF left[k].id > right[l].id THEN from[<<k, l + 1>>]
                         ELSE <<left[k]>> \o from[<<k + 1, l + 1>>]
    <3>1. from[<<k, l>>] = IntersectAt(left, right, from, <<k, l>>)
      BY <1>1, <1>2
    <3> QED BY <3>1 DEF IntersectAt
  <2>3. CASE k > a \/ l > b
    <3>1. from[<<k, l>>] = <<>>
      BY <2>3, <2>7
    <3>2. Common(left, right, k, l) = {}
      BY <1>0, <2>3 DEF Common
    <3> QED BY <3>1, <3>2 DEF Good, Rising, Elements
  <2>4. CASE k <= a /\ l <= b
    <3> DEFINE p == left[k].id
               q == right[l].id
    <3>1. k \in 1..a /\ l \in 1..b /\ p \in Int /\ q \in Int
      BY <2>1, <2>4
    <3>2. from[<<k, l>>] = IF p < q THEN from[<<k + 1, l>>]
                           ELSE IF p > q THEN from[<<k, l + 1>>]
                           ELSE <<left[k]>> \o from[<<k + 1, l + 1>>]
      <4>1. ~(k > a \/ l > b)
        BY <1>0, <2>4
      <4> QED BY <2>7, <4>1
    <3>3. /\ p < q => Common(left, right, k, l) = Common(left, right, k + 1, l)
          /\ p > q => Common(left, right, k, l) = Common(left, right, k, l + 1)
          /\ p = q => /\ Common(left, right, k, l) =
                           {left[k]} \cup Common(left, right, k + 1, l + 1)
                      /\ \A r \in Common(left, right, k + 1, l + 1) : p < r.id
      BY <3>1, CommonStep
    <3>3a. p = q => ~(p < q) /\ ~(p > q)
      BY <3>1
    <3> HIDE DEF p, q
    <3>4. CASE p < q
      BY <2>2, <2>4, <3>2, <3>3, <3>4 DEF Good
    <3>5. CASE p > q
      BY <2>2, <2>4, <3>1, <3>2, <3>3, <3>5 DEF Good
    <3>6. CASE p = q
      <4>1. Good(k + 1, l + 1) /\ from[<<k + 1, l + 1>>] \in Seq(P)
        BY <2>2, <2>4 DEF Good
      <4>2. \A r \in Elements(from[<<k + 1, l + 1>>]) : left[k].id < r.id
        BY <3>3, <3>6, <4>1 DEF Good, p
      <4>3. /\ <<left[k]>> \o from[<<k + 1, l + 1>>] \in Seq(P)
            /\ Rising(<<left[k]>> \o from[<<k + 1, l + 1>>])
            /\ Elements(<<left[k]>> \o from[<<k + 1, l + 1>>]) =
                 {left[k]} \cup Elements(from[<<k + 1, l + 1>>])
        BY <2>1, <2>4, <4>1, <4>2, FrontRises DEF Good
      <4>4. from[<<k, l>>] = <<left[k]>> \o from[<<k + 1, l + 1>>]
        BY <3>2, <3>3a, <3>6
      <4> QED BY <3>3, <3>6, <4>1, <4>3, <4>4 DEF Good
    <3> QED BY <3>1, <3>4, <3>5, <3>6
  <2> QED BY <2>3, <2>4, <1>0
<1>4. \A at \in D : (\A e \in D : m[e] < m[at] => e \in S) => at \in S
  BY <1>1, <1>3
<1>5. D \subseteq S
  <2> HIDE DEF S
  <2> QED BY <1>1, <1>4, MeasureInduction
<1>6. Good(i, j)
  BY <1>1, <1>5
<1> QED BY <1>6 DEF Good

(* What the union computes from each place on.                             *)
LEMMA UnionMeans ==
    ASSUME NEW P, \A p \in P : p.id \in Int,
           NEW left \in Seq(P), NEW right \in Seq(P), Rising(left), Rising(right),
           NEW from, Unites(from, left, right),
           NEW i \in 1..Len(left) + 1, NEW j \in 1..Len(right) + 1
    PROVE  /\ from[<<i, j>>] \in Seq(P)
           /\ Rising(from[<<i, j>>])
           /\ Elements(from[<<i, j>>]) = Either(left, right, i, j)
<1> DEFINE a == Len(left)
           b == Len(right)
           D == BothPlaces(a, b)
           m == Remaining(a, b)
           Good(k, l) == /\ from[<<k, l>>] \in Seq(P)
                         /\ Rising(from[<<k, l>>])
                         /\ Elements(from[<<k, l>>]) = Either(left, right, k, l)
           S == {at \in D : \A k \in 1..a + 1, l \in 1..b + 1 : at = <<k, l>> => Good(k, l)}
<1>0. a \in Nat /\ b \in Nat
  OBVIOUS
<1>1. /\ \A at \in D : \E k \in 1..a + 1, l \in 1..b + 1 : at = <<k, l>>
      /\ \A at \in D : m[at] \in Nat
      /\ \A k \in 1..a + 1, l \in 1..b + 1 :
           /\ <<k, l>> \in D
           /\ k <= a => <<k + 1, l>> \in D /\ m[<<k + 1, l>>] < m[<<k, l>>]
           /\ l <= b => <<k, l + 1>> \in D /\ m[<<k, l + 1>>] < m[<<k, l>>]
           /\ (k <= a /\ l <= b) =>
                <<k + 1, l + 1>> \in D /\ m[<<k + 1, l + 1>>] < m[<<k, l>>]
  <2> HIDE DEF a, b
  <2> QED BY <1>0, PlacesAre
<1>2. \A at \in D : from[at] = UnionAt(left, right, from, at)
  BY DEF Unites
<1> HIDE DEF Good, D, m
<1>3. ASSUME NEW k \in 1..a + 1, NEW l \in 1..b + 1,
             \A e \in D : m[e] < m[<<k, l>>] => e \in S
      PROVE  Good(k, l)
  <2>1. /\ k <= a => k \in 1..a /\ left[k] \in P /\ left[k].id \in Int /\ k + 1 \in 1..a + 1
        /\ l <= b => l \in 1..b /\ right[l] \in P /\ right[l].id \in Int /\ l + 1 \in 1..b + 1
    <3>1. k <= a => k \in 1..a /\ k + 1 \in 1..a + 1
      BY <1>0
    <3>2. l <= b => l \in 1..b /\ l + 1 \in 1..b + 1
      BY <1>0
    <3>3. (\A n \in 1..a : left[n] \in P) /\ (\A n \in 1..b : right[n] \in P)
      OBVIOUS
    <3> HIDE DEF a, b
    <3> QED BY <3>1, <3>2, <3>3
  <2>7. from[<<k, l>>] = IF k > a /\ l > b THEN <<>>
                         ELSE IF l > b \/ (k <= a /\ left[k].id < right[l].id)
                         THEN <<left[k]>> \o from[<<k + 1, l>>]
                         ELSE IF k > a \/ right[l].id < left[k].id
                         THEN <<right[l]>> \o from[<<k, l + 1>>]
                         ELSE <<left[k]>> \o from[<<k + 1, l + 1>>]
    <3>1. from[<<k, l>>] = UnionAt(left, right, from, <<k, l>>)
      BY <1>1, <1>2
    <3> QED BY <3>1 DEF UnionAt
  <2>8. /\ k > a <=> ~(k <= a)
        /\ l > b <=> ~(l <= b)
        /\ (k <= a /\ l <= b) =>
             /\ ~(left[k].id < right[l].id /\ right[l].id < left[k].id)
             /\ left[k].id = right[l].id =>
                  ~(left[k].id < right[l].id) /\ ~(right[l].id < left[k].id)
    <3>1. (k > a <=> ~(k <= a)) /\ (l > b <=> ~(l <= b))
      BY <1>0
    <3>2. \A c, d \in Int : /\ ~(c < d /\ d < c)
                            /\ c = d => ~(c < d) /\ ~(d < c)
      OBVIOUS
    <3>3. (k <= a /\ l <= b) => left[k].id \in Int /\ right[l].id \in Int
      BY <2>1
    <3> QED BY <3>1, <3>2, <3>3, Zenon
  <2>2. /\ k <= a => Good(k + 1, l)
        /\ l <= b => Good(k, l + 1)
        /\ (k <= a /\ l <= b) => Good(k + 1, l + 1)
    BY <1>1, <1>3, <2>1
  <2>3. CASE k > a /\ l > b
    <3>1. from[<<k, l>>] = <<>>
      BY <2>3, <2>7
    <3>2. Either(left, right, k, l) = {}
      BY <1>0, <2>3 DEF Either
    <3> QED BY <3>1, <3>2 DEF Good, Rising, Elements
  <2>4. CASE k <= a /\ (l > b \/ left[k].id < right[l].id)
    <3>1. Good(k + 1, l) /\ from[<<k + 1, l>>] \in Seq(P) /\ left[k] \in P
      BY <2>1, <2>2, <2>4 DEF Good
    <3>2. /\ Either(left, right, k, l) = {left[k]} \cup Either(left, right, k + 1, l)
          /\ \A r \in Either(left, right, k + 1, l) : left[k].id < r.id
      BY <2>4, EitherStep
    <3>3. \A r \in Elements(from[<<k + 1, l>>]) : left[k].id < r.id
      BY <3>1, <3>2 DEF Good
    <3>4. /\ <<left[k]>> \o from[<<k + 1, l>>] \in Seq(P)
          /\ Rising(<<left[k]>> \o from[<<k + 1, l>>])
          /\ Elements(<<left[k]>> \o from[<<k + 1, l>>]) =
             {left[k]} \cup Elements(from[<<k + 1, l>>])
      BY <3>1, <3>3, FrontRises DEF Good
    <3>5. from[<<k, l>>] = <<left[k]>> \o from[<<k + 1, l>>]
      BY <2>7, <2>8, <2>4, Zenon
    <3> QED BY <3>1, <3>2, <3>4, <3>5 DEF Good
  <2>5. CASE l <= b /\ (k > a \/ right[l].id < left[k].id)
    <3>1. Good(k, l + 1) /\ from[<<k, l + 1>>] \in Seq(P) /\ right[l] \in P
      BY <2>1, <2>2, <2>5 DEF Good
    <3>2. /\ Either(left, right, k, l) = {right[l]} \cup Either(left, right, k, l + 1)
          /\ \A r \in Either(left, right, k, l + 1) : right[l].id < r.id
      BY <2>5, EitherStep
    <3>3. \A r \in Elements(from[<<k, l + 1>>]) : right[l].id < r.id
      BY <3>1, <3>2 DEF Good
    <3>4. /\ <<right[l]>> \o from[<<k, l + 1>>] \in Seq(P)
          /\ Rising(<<right[l]>> \o from[<<k, l + 1>>])
          /\ Elements(<<right[l]>> \o from[<<k, l + 1>>]) =
             {right[l]} \cup Elements(from[<<k, l + 1>>])
      BY <3>1, <3>3, FrontRises DEF Good
    <3>5. from[<<k, l>>] = <<right[l]>> \o from[<<k, l + 1>>]
      BY <2>7, <2>8, <2>5, Zenon
    <3> QED BY <3>1, <3>2, <3>4, <3>5 DEF Good
  <2>6. CASE k <= a /\ l <= b /\ left[k].id = right[l].id
    <3>1. Good(k + 1, l + 1) /\ from[<<k + 1, l + 1>>] \in Seq(P) /\ left[k] \in P
      BY <2>1, <2>2, <2>6 DEF Good
    <3>2. /\ Either(left, right, k, l) = {left[k]} \cup Either(left, right, k + 1, l + 1)
          /\ \A r \in Either(left, right, k + 1, l + 1) : left[k].id < r.id
      BY <2>6, EitherStep
    <3>3. \A r \in Elements(from[<<k + 1, l + 1>>]) : left[k].id < r.id
      BY <3>1, <3>2 DEF Good
    <3>4. /\ <<left[k]>> \o from[<<k + 1, l + 1>>] \in Seq(P)
          /\ Rising(<<left[k]>> \o from[<<k + 1, l + 1>>])
          /\ Elements(<<left[k]>> \o from[<<k + 1, l + 1>>]) =
             {left[k]} \cup Elements(from[<<k + 1, l + 1>>])
      BY <3>1, <3>3, FrontRises DEF Good
    <3>5. from[<<k, l>>] = <<left[k]>> \o from[<<k + 1, l + 1>>]
      BY <2>7, <2>8, <2>6, Zenon
    <3> QED BY <3>1, <3>2, <3>4, <3>5 DEF Good
  <2> QED
    <3>1. (k > a \/ k <= a) /\ (l > b \/ l <= b)
      BY <1>0
    <3>2. (k <= a /\ l <= b) => \/ left[k].id < right[l].id
                                \/ right[l].id < left[k].id
                                \/ left[k].id = right[l].id
      <4> SUFFICES ASSUME k <= a, l <= b
                   PROVE  \/ left[k].id < right[l].id
                          \/ right[l].id < left[k].id
                          \/ left[k].id = right[l].id
        OBVIOUS
      <4> DEFINE x == left[k].id
                 y == right[l].id
      <4>1. x \in Int /\ y \in Int
        BY <2>1
      <4> HIDE DEF x, y
      <4>2. x < y \/ y < x \/ x = y
        BY <4>1
      <4> QED BY <4>2 DEF x, y
    <3> QED BY <2>3, <2>4, <2>5, <2>6, <3>1, <3>2
<1>4. \A at \in D : (\A e \in D : m[e] < m[at] => e \in S) => at \in S
  BY <1>1, <1>3
<1>5. D \subseteq S
  <2> HIDE DEF S
  <2> QED BY <1>1, <1>4, MeasureInduction
<1>6. Good(i, j)
  BY <1>1, <1>5
<1> QED BY <1>6 DEF Good

(* Merging is exact for all lists that ascend in their IDs (Intersect and  *)
(* Union in merge.go).                                                     *)
THEOREM MergingIsExact ==
    ASSUME NEW P, \A p \in P : p.id \in Int,
           NEW left \in Seq(P), NEW right \in Seq(P),
           \A k \in 1..Len(left) - 1 : left[k].id < left[k + 1].id,
           \A k \in 1..Len(right) - 1 : right[k].id < right[k + 1].id
    PROVE  MergesExactly(left, right)
<1>1. Rising(left) /\ Rising(right)
  BY NeighboursRise
<1>2. 1 \in 1..Len(left) + 1 /\ 1 \in 1..Len(right) + 1
  OBVIOUS
<1> DEFINE both == Intersect(left, right)
           union == Union(left, right)
<1>3. both \in Seq(P) /\ Rising(both) /\ Elements(both) = Common(left, right, 1, 1)
  <2> DEFINE from == CHOOSE t : Intersects(t, left, right)
  <2>1. Intersects(from, left, right)
    BY IntersectRuns
  <2>2. both = from[<<1, 1>>]
    BY IntersectIsRecursive
  <2> HIDE DEF from, both
  <2> QED BY <1>1, <1>2, <2>1, <2>2, IntersectMeans
<1>4. union \in Seq(P) /\ Rising(union) /\ Elements(union) = Either(left, right, 1, 1)
  <2> DEFINE from == CHOOSE t : Unites(t, left, right)
  <2>1. Unites(from, left, right)
    BY UnionRuns
  <2>2. union = from[<<1, 1>>]
    BY UnionIsRecursive
  <2> HIDE DEF from, union
  <2> QED BY <1>1, <1>2, <2>1, <2>2, UnionMeans
<1> HIDE DEF both, union
<1>5. \A s \in Seq(P) : Rising(s) => \A k \in 1..Len(s) - 1 : s[k].id < s[k + 1].id
  <2> SUFFICES ASSUME NEW s \in Seq(P), Rising(s), NEW k \in 1..Len(s) - 1
               PROVE  s[k].id < s[k + 1].id
    OBVIOUS
  <2>1. k \in 1..Len(s) /\ k + 1 \in 1..Len(s) /\ k < k + 1
    OBVIOUS
  <2> QED BY <2>1 DEF Rising
<1>6. Elements(both) = {p \in Elements(left) : p.id \in {right[k].id : k \in 1..Len(right)}}
  BY <1>3 DEF Common, Elements
<1>7. Elements(union) = Elements(left) \cup
        {p \in Elements(right) : p.id \notin {left[k].id : k \in 1..Len(left)}}
  BY <1>4 DEF Either, Elements
<1> QED BY <1>3, <1>4, <1>5, <1>6, <1>7 DEF MergesExactly, Elements, both, union
=============================================================================
