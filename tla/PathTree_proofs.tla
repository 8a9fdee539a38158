-------------------------- MODULE PathTree_proofs --------------------------
(***************************************************************************)
(* What the loops of GetNodeOnPath and of the constructor of ORAM compute, *)
(* for trees of every depth: the recursive functions Climb and FloorLog2   *)
(* are equal to closed forms, shown by a least number at which they would  *)
(* differ.  Powers of two are known to the provers only as numbers of      *)
(* subsets, which is where their laws come from.                           *)
(***************************************************************************)
EXTENDS PathTree, FiniteSetTheorems, WellFoundedInduction, TLAPS

(* A set of natural numbers has a least element: every induction below     *)
(* goes by a least counterexample.                                         *)
LEMMA LeastOf ==
  ASSUME NEW S \in SUBSET Nat, S # {}
  PROVE  \E x \in S : \A y \in S : x <= y
<1> DEFINE R == OpToRel(<, Nat)
<1>1. IsWellFoundedOn(R, Nat)
  BY NatLessThanWellFounded
<1>2. \A x, y \in Nat : x < y => <<x, y>> \in R
  BY Zenon DEF OpToRel
<1> HIDE DEF R
<1>3. PICK x \in S : \A y \in S : ~(<<y, x>> \in R)
  BY <1>1, WFMin
<1>4. \A y \in S : ~(y < x)
  BY <1>2, <1>3
<1> QED BY <1>4

(* What holds of 0, and of the number after each that it holds of, holds.  *)
LEMMA Upwards ==
  ASSUME NEW S \in SUBSET Nat, 0 \in S, \A n \in S : n + 1 \in S
  PROVE  S = Nat
<1> SUFFICES ASSUME Nat \ S # {} PROVE FALSE
  OBVIOUS
<1>1. PICK x \in Nat \ S : \A y \in Nat \ S : x <= y
  <2>1. Nat \ S \in SUBSET Nat
    OBVIOUS
  <2> QED BY <2>1, LeastOf
<1>2. x # 0 /\ x \in Nat
  BY <1>1
<1>3. x - 1 \in Nat /\ ~(x <= x - 1) /\ x - 1 + 1 = x
  BY <1>2
<1>4. x - 1 \in S
  BY <1>1, <1>3
<1> QED BY <1>1, <1>3, <1>4

(* There are n numbers from 1 to n.                                        *)
LEMMA NumbersUpTo ==
  ASSUME NEW n \in Nat
  PROVE  IsFiniteSet(1 .. n) /\ Cardinality(1 .. n) = n
<1>1. 1 \in Int /\ n \in Int
  OBVIOUS
<1>2. IsFiniteSet(1 .. n) /\ Cardinality(1 .. n) = IF 1 > n THEN 0 ELSE n - 1 + 1
  BY <1>1, FS_Interval
<1> QED BY <1>2

(* 2^n is the number of sets of numbers up to n. *)
LEMMA PowerCounts ==
  ASSUME NEW n \in Nat
  PROVE  /\ IsFiniteSet(SUBSET (1 .. n))
         /\ Cardinality(SUBSET (1 .. n)) = 2^n
         /\ 2^n \in Nat
<1>1. IsFiniteSet(1 .. n) /\ Cardinality(1 .. n) = n
  BY NumbersUpTo
<1>2. IsFiniteSet(SUBSET (1 .. n)) /\ Cardinality(SUBSET (1 .. n)) = 2^Cardinality(1 .. n)
  BY <1>1, FS_SUBSET
<1>3. Cardinality(SUBSET (1 .. n)) \in Nat
  BY <1>2, FS_CardinalityType
<1> QED BY <1>1, <1>2, <1>3

(* The empty set has one subset.                                           *)
LEMMA PowerOfZero == 2^0 = 1
<1>1. 0 \in Nat /\ SUBSET (1 .. 0) = {{}}
  OBVIOUS
<1>2. Cardinality(SUBSET (1 .. 0)) = 2^0
  BY <1>1, PowerCounts
<1>3. Cardinality({{}}) = 1
  BY FS_Singleton
<1> QED BY <1>1, <1>2, <1>3

(* One element more doubles the number of subsets.                         *)
LEMMA PowerOfNext ==
  ASSUME NEW n \in Nat PROVE 2^(n + 1) = 2 * 2^n
<1> DEFINE A == SUBSET (1 .. n)
           B == {s \in SUBSET (1 .. n + 1) : n + 1 \in s}
           f == [s \in A |-> s \union {n + 1}]
<1>1. IsFiniteSet(A) /\ Cardinality(A) = 2^n /\ 2^n \in Nat
  BY PowerCounts
<1>2. n + 1 \in Nat /\ n + 1 \notin 1 .. n /\ 1 .. n + 1 = (1 .. n) \union {n + 1}
  OBVIOUS
<1>3. Cardinality(SUBSET (1 .. n + 1)) = 2^(n + 1) /\ 2^(n + 1) \in Nat
  BY <1>2, PowerCounts
<1> DEFINE m == n + 1
<1>4. SUBSET (1 .. m) = A \union B /\ A \intersect B = {}
  BY <1>2
<1>5. f \in Bijection(A, B)
  <2>1. \A s \in A : s \union {m} \in B
    BY <1>2
  <2>2. f \in [A -> B]
    BY <2>1
  <2>3. \A s, t \in A : f[s] = f[t] => s = t
    <3>1. \A s \in A : f[s] \ {m} = s
      BY <1>2
    <3> QED BY <3>1
  <2>4. \A t \in B : \E s \in A : f[s] = t
    <3> SUFFICES ASSUME NEW t \in B PROVE \E s \in A : f[s] = t
      OBVIOUS
    <3>1. t \ {m} \in A /\ (t \ {m}) \union {m} = t
      BY <1>2
    <3> QED BY <3>1
  <2> HIDE DEF f, A, B
  <2> QED BY <2>2, <2>3, <2>4 DEF Bijection, Injection, Surjection, IsInjective
<1>6. IsFiniteSet(B) /\ Cardinality(B) = Cardinality(A)
  <2>1. ExistsBijection(A, B)
    BY <1>5 DEF ExistsBijection
  <2> HIDE DEF A, B, f
  <2> QED BY <1>1, <2>1, FS_Bijection
<1> HIDE DEF A, B, f, m
<1>7. Cardinality(A \union B) = Cardinality(A) + Cardinality(B) - Cardinality(A \intersect B)
  BY <1>1, <1>6, FS_Union
<1>8. Cardinality(A \intersect B) = 0
  BY <1>4, FS_EmptySet
<1>9. Cardinality(A \union B) = 2^n + 2^n
  BY <1>1, <1>6, <1>7, <1>8
<1>10. Cardinality(A \union B) = 2^(n + 1)
  BY <1>3, <1>4 DEF m
<1> QED BY <1>1, <1>9, <1>10

(* A power of two is a positive number.                                    *)
LEMMA PowerIs ==
  ASSUME NEW n \in Nat PROVE 2^n \in Nat \ {0}
<1> DEFINE S == {m \in Nat : 2^m \in Nat \ {0}}
<1>1. 0 \in S
  BY PowerOfZero
<1>2. \A m \in S : m + 1 \in S
  <2> SUFFICES ASSUME NEW m \in Nat, 2^m \in Nat \ {0} PROVE m + 1 \in Nat /\ 2^(m + 1) \in Nat \ {0}
    OBVIOUS
  <2>1. 2^(m + 1) = 2 * 2^m
    BY PowerOfNext
  <2> QED BY <2>1
<1>3. S \in SUBSET Nat
  OBVIOUS
<1> HIDE DEF S
<1>4. S = Nat
  BY <1>1, <1>2, <1>3, Upwards
<1> QED BY <1>4 DEF S

(* Powers multiply when exponents are added.                               *)
LEMMA PowerOfSum ==
  ASSUME NEW a \in Nat, NEW b \in Nat PROVE 2^(a + b) = 2^a * 2^b
<1> DEFINE S == {m \in Nat : 2^(a + m) = 2^a * 2^m}
<1>1. 0 \in S
  <2>1. 2^a \in Nat
    BY PowerIs
  <2>2. a + 0 = a /\ 2^a * 1 = 2^a
    BY <2>1
  <2> QED BY <2>2, PowerOfZero
<1>2. \A m \in S : m + 1 \in S
  <2> SUFFICES ASSUME NEW m \in Nat, 2^(a + m) = 2^a * 2^m
               PROVE  m + 1 \in Nat /\ 2^(a + (m + 1)) = 2^a * 2^(m + 1)
    OBVIOUS
  <2>1. 2^(m + 1) = 2 * 2^m
    BY PowerOfNext
  <2>2. a + m \in Nat /\ a + (m + 1) = (a + m) + 1
    OBVIOUS
  <2>3. 2^((a + m) + 1) = 2 * 2^(a + m)
    BY <2>2, PowerOfNext
  <2>4. 2^a \in Nat /\ 2^m \in Nat
    BY PowerIs
  <2>5. \A x, y \in Nat : 2 * (x * y) = x * (2 * y)
    OBVIOUS
  <2> QED BY <2>1, <2>2, <2>3, <2>4, <2>5
<1>3. S \in SUBSET Nat
  OBVIOUS
<1> HIDE DEF S
<1>4. S = Nat
  BY <1>1, <1>2, <1>3, Upwards
<1> QED BY <1>4 DEF S

(* What a division of natural numbers gives, and that nothing else does.   *)
LEMMA QuotientIs ==
  ASSUME NEW a \in Nat, NEW b \in Nat \ {0}
  PROVE  /\ a \div b \in Nat
         /\ (a \div b) * b <= a
         /\ a < (a \div b) * b + b
OBVIOUS

(* A number that does what QuotientIs says of the quotient is it.          *)
LEMMA OnlyQuotient ==
  ASSUME NEW a \in Nat, NEW b \in Nat \ {0}, NEW q \in Nat, q * b <= a, a < q * b + b
  PROVE  a \div b = q
<1> DEFINE p == a \div b
<1>1. p \in Nat /\ p * b <= a /\ a < p * b + b
  BY QuotientIs
<1> HIDE DEF p
<1>2. CASE p < q
  <2>1. p + 1 <= q
    BY <1>1, <1>2
  <2>2. (p + 1) * b <= q * b
    BY <1>1, <2>1
  <2>3. (p + 1) * b = p * b + b
    BY <1>1
  <2>4. p * b \in Nat /\ q * b \in Nat
    BY <1>1
  <2> QED BY <1>1, <2>2, <2>3, <2>4
<1>3. CASE q < p
  <2>1. q + 1 <= p
    BY <1>1, <1>3
  <2>2. (q + 1) * b <= p * b
    BY <1>1, <2>1
  <2>3. (q + 1) * b = q * b + b
    BY <1>1
  <2>4. p * b \in Nat /\ q * b \in Nat
    BY <1>1
  <2> QED BY <1>1, <2>2, <2>3, <2>4
<1> QED BY <1>1, <1>2, <1>3 DEF p

(* Halving a quotient is dividing by twice as much.                        *)
LEMMA QuotientOfQuotient ==
  ASSUME NEW a \in Nat, NEW b \in Nat \ {0}
  PROVE  (a \div b) \div 2 = a \div (2 * b)
<1> DEFINE p == a \div b
           q == p \div 2
<1>1. p \in Nat /\ p * b <= a /\ a < p * b + b
  BY QuotientIs
<1> HIDE DEF p
<1>2. q \in Nat /\ q * 2 <= p /\ p + 1 <= q * 2 + 2
  BY <1>1
<1> HIDE DEF q
<1>3. (q * 2) * b <= p * b
  BY <1>1, <1>2
<1>4. (p + 1) * b <= (q * 2 + 2) * b
  BY <1>1, <1>2
<1>5. (q * 2) * b = q * (2 * b) /\ (q * 2 + 2) * b = q * (2 * b) + 2 * b /\ (p + 1) * b = p * b + b
  BY <1>1, <1>2
<1>6. p * b \in Nat /\ q * (2 * b) \in Nat /\ 2 * b \in Nat \ {0}
  <2>1. \A x, y \in Nat : x * y \in Nat
    OBVIOUS
  <2>2. 2 * b \in Nat \ {0}
    OBVIOUS
  <2> QED BY <1>1, <1>2, <2>1, <2>2
<1>7. q * (2 * b) <= a /\ a < q * (2 * b) + 2 * b
  BY <1>1, <1>3, <1>4, <1>5, <1>6
<1>8. a \div (2 * b) = q
  BY <1>2, <1>6, <1>7, OnlyQuotient
<1> QED BY <1>8 DEF q, p

(* A quotient of a sum with a multiple. *)
LEMMA QuotientOfSum ==
  ASSUME NEW a \in Nat, NEW b \in Nat \ {0}, NEW m \in Nat
  PROVE  (a + m * b) \div b = (a \div b) + m
<1> DEFINE p == a \div b
           t == m * b
<1>1. p \in Nat /\ p * b <= a /\ a < p * b + b
  BY QuotientIs
<1> HIDE DEF p
<1>2. t \in Nat /\ (p + m) * b = p * b + t /\ p * b \in Nat
  <2>1. \A x, y \in Nat : x * y \in Nat
    OBVIOUS
  <2>2. (p + m) * b = p * b + m * b
    BY <1>1
  <2> QED BY <1>1, <2>1, <2>2
<1> HIDE DEF t
<1>3. (p + m) * b <= a + t /\ a + t < (p + m) * b + b /\ a + t \in Nat /\ p + m \in Nat
  BY <1>1, <1>2
<1>4. (a + t) \div b = p + m
  BY <1>3, OnlyQuotient
<1> QED BY <1>4 DEF p, t

(* The quotient of a number below a multiple is below its factor.          *)
LEMMA QuotientBelow ==
  ASSUME NEW a \in Nat, NEW b \in Nat \ {0}, NEW m \in Nat, a < m * b
  PROVE  a \div b < m
<1> DEFINE p == a \div b
<1>1. p \in Nat /\ p * b <= a
  BY QuotientIs
<1> HIDE DEF p
<1>2. CASE m <= p
  <2>1. m * b <= p * b
    BY <1>1, <1>2
  <2>2. m * b \in Nat /\ p * b \in Nat
    BY <1>1
  <2> QED BY <1>1, <2>1, <2>2
<1>3. p < m
  BY <1>1, <1>2
<1> QED BY <1>3 DEF p

(* Climbing k levels drops k bits of a bucket's number plus one.           *)
ClimbTo(b) == [k \in Nat |-> (b + 1) \div 2^k - 1]

(* The loop that goes up from a bucket computes this.                      *)
LEMMA ClimbIs ==
  ASSUME NEW b \in Nat
  PROVE  Climb(b) = ClimbTo(b)
<1> DEFINE Up(f) == [k \in Nat |-> IF k = 0 THEN b ELSE (f[k - 1] + 1) \div 2 - 1]
           F == ClimbTo(b)
<1>1. F[0] = b
  <2>1. (b + 1) \div 1 = b + 1
    OBVIOUS
  <2>2. F[0] = (b + 1) \div 2^0 - 1
    BY DEF ClimbTo
  <2> QED BY <2>1, <2>2, PowerOfZero
<1>2. ASSUME NEW k \in Nat, k # 0 PROVE F[k] = (F[k - 1] + 1) \div 2 - 1
  <2> DEFINE j == k - 1
             q == (b + 1) \div 2^j
  <2>1. j \in Nat /\ k = j + 1
    BY <1>2
  <2>2. 2^j \in Nat \ {0} /\ b + 1 \in Nat
    BY <2>1, PowerIs
  <2>3. F[k - 1] = q - 1 /\ F[k] = (b + 1) \div 2^k - 1
    BY <2>1 DEF ClimbTo
  <2>4. 2^k = 2 * 2^j
    BY <2>1, PowerOfNext
  <2>5. q \in Nat /\ q \div 2 = (b + 1) \div (2 * 2^j)
    BY <2>2, QuotientIs, QuotientOfQuotient
  <2> HIDE DEF q, j, F
  <2>6. F[k - 1] + 1 = q
    BY <2>3, <2>5
  <2> QED BY <2>3, <2>4, <2>5, <2>6
<1>3. F = Up(F)
  <2>1. \A k \in Nat : F[k] = IF k = 0 THEN b ELSE (F[k - 1] + 1) \div 2 - 1
    BY <1>1, <1>2
  <2>2. F = [k \in Nat |-> F[k]]
    BY DEF ClimbTo
  <2> HIDE DEF F
  <2> QED BY <2>1, <2>2
<1>4. Climb(b) = CHOOSE f : f = Up(f)
  BY DEF Climb
<1> HIDE DEF F
<1>5. PICK f : f = Climb(b)
  OBVIOUS
<1>6. f = Up(f)
  BY <1>3, <1>4, <1>5
<1>7. f = [k \in Nat |-> f[k]] /\ \A k \in Nat : f[k] = IF k = 0 THEN b ELSE (f[k - 1] + 1) \div 2 - 1
  BY <1>6
<1> DEFINE S == {k \in Nat : f[k] = F[k]}
<1>8. 0 \in S
  BY <1>1, <1>7
<1>9. \A k \in S : k + 1 \in S
  <2> SUFFICES ASSUME NEW k \in Nat, f[k] = F[k] PROVE k + 1 \in Nat /\ f[k + 1] = F[k + 1]
    OBVIOUS
  <2>1. k + 1 \in Nat /\ k + 1 # 0 /\ (k + 1) - 1 = k
    OBVIOUS
  <2>2. f[k + 1] = (f[k] + 1) \div 2 - 1
    BY <1>7, <2>1
  <2>3. F[k + 1] = (F[k] + 1) \div 2 - 1
    BY <1>2, <2>1
  <2> QED BY <2>1, <2>2, <2>3
<1>10. S \in SUBSET Nat
  OBVIOUS
<1>11. S = Nat
  <2> HIDE DEF S
  <2> QED BY <1>8, <1>9, <1>10, Upwards
<1>12. \A k \in Nat : f[k] = F[k]
  BY <1>11
<1>13. F = [k \in Nat |-> F[k]]
  BY DEF F, ClimbTo
<1>14. f = F
  BY <1>7, <1>12, <1>13
<1> QED BY <1>5, <1>14 DEF F

(* A greater exponent gives no smaller power.                              *)
LEMMA PowerGrows ==
  ASSUME NEW a \in Nat, NEW b \in Nat, a <= b PROVE 2^a <= 2^b
<1> DEFINE m == b - a
<1>1. m \in Nat /\ b = a + m
  OBVIOUS
<1> HIDE DEF m
<1>2. 2^b = 2^a * 2^m
  BY <1>1, PowerOfSum
<1>3. 2^a \in Nat /\ 2^m \in Nat \ {0}
  BY <1>1, PowerIs
<1>4. \A x \in Nat, y \in Nat \ {0} : x <= x * y
  OBVIOUS
<1> QED BY <1>2, <1>3, <1>4

(* How many buckets of its level come before that of a leaf's path: fewer  *)
(* than there are.                                                         *)
LEMMA PlaceOnLevel ==
  ASSUME NEW depth \in Nat, NEW l \in LeavesOf(depth), NEW d \in 0 .. depth
  PROVE  /\ l \in Nat /\ d \in Nat /\ depth - d \in Nat
         /\ l \div 2^(depth - d) \in Nat
         /\ l \div 2^(depth - d) < 2^d
<1> DEFINE k == depth - d
<1>1. k \in Nat /\ d \in Nat /\ depth = d + k
  OBVIOUS
<1>2. 2^depth \in Nat \ {0}
  BY PowerIs
<1>3. l \in Nat /\ l < 2^depth
  BY <1>2 DEF LeavesOf
<1> HIDE DEF k
<1>4. 2^d \in Nat /\ 2^k \in Nat \ {0} /\ 2^depth = 2^d * 2^k
  BY <1>1, PowerIs, PowerOfSum
<1>5. l \div 2^k \in Nat /\ l \div 2^k < 2^d
  BY <1>3, <1>4, QuotientIs, QuotientBelow
<1> QED BY <1>1, <1>3, <1>5 DEF k

(* A tree has one bucket less than twice its leaves.                       *)
LEMMA BucketsAre ==
  ASSUME NEW depth \in Nat
  PROVE  BucketCount(depth) = 2 * 2^depth - 1 /\ BucketCount(depth) \div 2 = 2^depth - 1
<1>1. 2^depth \in Nat \ {0} /\ 2^(depth + 1) = 2 * 2^depth
  BY PowerIs, PowerOfNext
<1>2. \A x \in Nat \ {0} : (2 * x - 1) \div 2 = x - 1
  OBVIOUS
<1> QED BY <1>1, <1>2 DEF BucketCount

(* The loop of GetNodeOnPath finds, on a level, the bucket whose number    *)
(* there is that of the leaf without its last bits: levels are numbered    *)
(* from the root.                                                          *)
LEMMA LoopFinds ==
  ASSUME NEW depth \in Nat, NEW l \in LeavesOf(depth), NEW d \in 0 .. depth
  PROVE  GetNodeOnPath(depth, l, d) = 2^d - 1 + l \div 2^(depth - d)
<1> DEFINE k == depth - d
           b == l + BucketCount(depth) \div 2
           q == l \div 2^k
<1>1. k \in Nat /\ d \in Nat /\ depth = d + k /\ l \in Nat /\ q \in Nat
  BY PlaceOnLevel
<1>2. 2^depth \in Nat \ {0} /\ 2^d \in Nat \ {0} /\ 2^k \in Nat \ {0} /\ 2^depth = 2^d * 2^k
  <2> HIDE DEF k
  <2> QED BY <1>1, PowerIs, PowerOfSum
<1>3. b = l + (2^depth - 1) /\ b \in Nat /\ b + 1 = l + 2^depth
  <2>1. b = l + (2^depth - 1)
    BY BucketsAre
  <2> HIDE DEF b
  <2> QED BY <1>1, <1>2, <2>1
<1> HIDE DEF b, k
<1>4. (l + 2^d * 2^k) \div 2^k = q + 2^d
  <2>1. PICK u, v : u = 2^d /\ v = 2^k
    OBVIOUS
  <2>2. u \in Nat /\ v \in Nat \ {0}
    BY <1>2, <2>1
  <2>3. (l + u * v) \div v = (l \div v) + u
    BY <1>1, <2>2, QuotientOfSum
  <2> QED BY <2>1, <2>3
<1>5. Climb(b)[k] = (b + 1) \div 2^k - 1
  BY <1>1, <1>3, ClimbIs DEF ClimbTo
<1>6. GetNodeOnPath(depth, l, d) = Climb(b)[k]
  BY DEF GetNodeOnPath, b, k
<1>7. (b + 1) \div 2^k = q + 2^d
  BY <1>2, <1>3, <1>4
<1> HIDE DEF q
<1>8. GetNodeOnPath(depth, l, d) = q + 2^d - 1
  BY <1>1, <1>2, <1>5, <1>6, <1>7
<1>9. q + 2^d - 1 = 2^d - 1 + q
  BY <1>1, <1>2
<1> QED BY <1>8, <1>9 DEF q, k

(* The loop of GetNodeOnPath stays in the tree.                            *)
LEMMA BucketInTree ==
  ASSUME NEW depth \in Nat, NEW l \in LeavesOf(depth), NEW d \in 0 .. depth
  PROVE  GetNodeOnPath(depth, l, d) \in 0 .. BucketCount(depth) - 1
<1> DEFINE q == l \div 2^(depth - d)
<1>1. d \in Nat /\ d <= depth /\ q \in Nat /\ q < 2^d
  BY PlaceOnLevel
<1>2. 2^depth \in Nat \ {0} /\ 2^d \in Nat \ {0} /\ 2^d <= 2^depth
  BY <1>1, PowerIs, PowerGrows
<1>3. GetNodeOnPath(depth, l, d) = 2^d - 1 + q
  BY LoopFinds
<1> HIDE DEF q
<1>4. BucketCount(depth) = 2 * 2^depth - 1
  BY BucketsAre
<1> QED BY <1>1, <1>2, <1>3, <1>4

(* Every path of a tree lies in it. *)
LEMMA PathLiesInTree ==
  ASSUME NEW depth \in Nat, NEW l \in LeavesOf(depth)
  PROVE  PathBuckets(depth, l) \subseteq 0 .. BucketCount(depth) - 1
BY BucketInTree DEF PathBuckets

(* bucket number p of level d *)
OnLevel(d, p) == 2^d - 1 + p

(* A bucket is on one level only. *)
LEMMA LevelsApart ==
  ASSUME NEW d \in Nat, NEW e \in Nat, NEW p \in Nat, NEW q \in Nat, p < 2^d, q < 2^e
  PROVE  OnLevel(d, p) = OnLevel(e, q) <=> d = e /\ p = q
<1>1. 2^d \in Nat \ {0} /\ 2^e \in Nat \ {0} /\ 2^(d + 1) = 2 * 2^d /\ 2^(e + 1) = 2 * 2^e
  BY PowerIs, PowerOfNext
<1>2. CASE d < e
  <2>1. 2^(d + 1) <= 2^e
    BY <1>2, PowerGrows
  <2>2. 2^d - 1 + p < 2^e - 1 + q
    BY <1>1, <2>1
  <2> QED BY <1>1, <1>2, <2>2 DEF OnLevel
<1>3. CASE e < d
  <2>1. 2^(e + 1) <= 2^d
    BY <1>3, PowerGrows
  <2>2. 2^e - 1 + q < 2^d - 1 + p
    BY <1>1, <2>1
  <2> QED BY <1>1, <1>3, <2>2 DEF OnLevel
<1>4. CASE d = e
  BY <1>1, <1>4 DEF OnLevel
<1> QED BY <1>2, <1>3, <1>4

(* Two paths share exactly the buckets of the levels on which the numbers  *)
(* of their leaves, without their last bits, are the same.                 *)
LEMMA PathsMeet ==
  ASSUME NEW depth \in Nat, NEW l \in LeavesOf(depth), NEW m \in LeavesOf(depth),
         NEW d \in 0 .. depth, NEW e \in 0 .. depth
  PROVE  GetNodeOnPath(depth, l, d) = GetNodeOnPath(depth, m, e)
           <=> d = e /\ l \div 2^(depth - d) = m \div 2^(depth - d)
<1> DEFINE p == l \div 2^(depth - d)
           q == m \div 2^(depth - e)
<1>1. d \in Nat /\ e \in Nat /\ p \in Nat /\ p < 2^d /\ q \in Nat /\ q < 2^e
  BY PlaceOnLevel
<1>2. GetNodeOnPath(depth, l, d) = 2^d - 1 + p /\ GetNodeOnPath(depth, m, e) = 2^e - 1 + q
  BY LoopFinds
<1>3. d = e => q = m \div 2^(depth - d)
  OBVIOUS
<1> HIDE DEF p, q
<1>4. 2^d - 1 + p = 2^e - 1 + q <=> d = e /\ p = q
  <2>1. OnLevel(d, p) = OnLevel(e, q) <=> d = e /\ p = q
    BY <1>1, LevelsApart
  <2> QED BY <2>1 DEF OnLevel
<1>5. GetNodeOnPath(depth, l, d) = GetNodeOnPath(depth, m, e) <=> d = e /\ p = q
  BY <1>2, <1>4
<1>6. d = e /\ p = q <=> d = e /\ p = m \div 2^(depth - d)
  BY <1>3
<1> QED BY <1>5, <1>6 DEF p

-----------------------------------------------------------------------------
(* floor(log2(n)), as the power it finds *)
Between(n, e) == e \in Nat /\ 2^e <= n /\ n < 2^(e + 1)

(* There is at most one such exponent.                                     *)
LEMMA OneBetween ==
  ASSUME NEW n \in Nat, NEW d, Between(n, d), NEW e, Between(n, e)
  PROVE  d = e
<1>1. d \in Nat /\ e \in Nat /\ 2^d <= n /\ n < 2^(d + 1) /\ 2^e <= n /\ n < 2^(e + 1)
  BY DEF Between
<1>2. 2^d \in Nat /\ 2^e \in Nat /\ 2^(d + 1) \in Nat /\ 2^(e + 1) \in Nat
  BY <1>1, PowerIs, PowerOfNext
<1>3. CASE d < e
  <2>1. 2^(d + 1) <= 2^e
    BY <1>1, <1>3, PowerGrows
  <2> QED BY <1>1, <1>2, <2>1
<1>4. CASE e < d
  <2>1. 2^(e + 1) <= 2^d
    BY <1>1, <1>4, PowerGrows
  <2> QED BY <1>1, <1>2, <2>1
<1> QED BY <1>1, <1>3, <1>4

(* That of a number is one more than that of its half.                     *)
LEMMA TwiceBetween ==
  ASSUME NEW n \in Nat, NEW e, Between(n \div 2, e)
  PROVE  Between(n, e + 1)
<1> DEFINE h == n \div 2
<1>1. h \in Nat /\ 2 * h <= n /\ n < 2 * h + 2
  OBVIOUS
<1>2. e \in Nat /\ 2^e <= h /\ h < 2^(e + 1)
  BY DEF Between
<1> HIDE DEF h
<1>3. e + 1 \in Nat /\ 2^e \in Nat /\ 2^(e + 1) = 2 * 2^e /\ 2^((e + 1) + 1) = 2 * 2^(e + 1)
  BY <1>2, PowerIs, PowerOfNext
<1> QED BY <1>1, <1>2, <1>3 DEF Between

(* Every positive number has one.                                          *)
LEMMA SomeBetween ==
  ASSUME NEW n \in Nat \ {0} PROVE \E e : Between(n, e)
<1> DEFINE S == {m \in Nat \ {0} : ~ \E e : Between(m, e)}
<1>1. S = {}
  <2> SUFFICES ASSUME S # {} PROVE FALSE
    OBVIOUS
  <2>1. PICK m \in S : \A y \in S : m <= y
    <3>1. S \in SUBSET Nat
      OBVIOUS
    <3> HIDE DEF S
    <3> QED BY <3>1, LeastOf
  <2>2. m \in Nat \ {0} /\ ~ \E e : Between(m, e)
    BY <2>1
  <2>3. CASE m = 1
    <3>1. 2^0 = 1 /\ 2^(0 + 1) = 2 * 2^0
      BY PowerOfZero, PowerOfNext
    <3>2. Between(m, 0)
      BY <2>3, <3>1 DEF Between
    <3> QED BY <2>2, <3>2
  <2>4. CASE m # 1
    <3>1. m \div 2 \in Nat \ {0} /\ m \div 2 < m
      BY <2>2, <2>4
    <3>2. PICK e : Between(m \div 2, e)
      BY <2>1, <2>2, <3>1
    <3>3. Between(m, e + 1)
      BY <2>2, <3>2, TwiceBetween
    <3> QED BY <2>2, <3>3
  <2> QED BY <2>3, <2>4
<1> QED BY <1>1

(* the exponent that FloorLog2 looks for *)
LogOf == [n \in Nat |-> IF n = 0 THEN 0 ELSE CHOOSE e : Between(n, e)]

(* The recursion finds it.                                                 *)
LEMMA FloorLog2Is == FloorLog2 = LogOf
<1> DEFINE Up(f) == [n \in Nat |-> IF n < 2 THEN 0 ELSE 1 + f[n \div 2]]
<1>1. \A n \in Nat \ {0} : Between(n, LogOf[n])
  BY SomeBetween DEF LogOf
<1>2. LogOf[0] = 0
  BY DEF LogOf
<1>3. ASSUME NEW n \in Nat PROVE LogOf[n] = IF n < 2 THEN 0 ELSE 1 + LogOf[n \div 2]
  <2>1. CASE n = 0
    BY <1>2, <2>1
  <2>2. CASE n = 1
    <3>1. 2^0 = 1 /\ 2^(0 + 1) = 2 * 2^0
      BY PowerOfZero, PowerOfNext
    <3>2. Between(n, 0)
      BY <2>2, <3>1 DEF Between
    <3>3. Between(n, LogOf[n])
      BY <1>1, <2>2
    <3>4. LogOf[n] = 0
      BY <3>2, <3>3, OneBetween
    <3> QED BY <2>2, <3>4
  <2>3. CASE n # 0 /\ n # 1
    <3>1. n \div 2 \in Nat \ {0} /\ n \in Nat \ {0} /\ ~(n < 2)
      BY <2>3
    <3>2. Between(n \div 2, LogOf[n \div 2]) /\ Between(n, LogOf[n])
      BY <1>1, <3>1
    <3>3. Between(n, LogOf[n \div 2] + 1)
      BY <3>2, TwiceBetween
    <3>4. LogOf[n] = LogOf[n \div 2] + 1
      BY <3>2, <3>3, OneBetween
    <3>5. LogOf[n \div 2] \in Nat
      BY <3>2 DEF Between
    <3> QED BY <3>1, <3>4, <3>5
  <2> QED BY <2>1, <2>2, <2>3
<1>4. LogOf = [n \in Nat |-> LogOf[n]]
  BY DEF LogOf
<1>5. LogOf = Up(LogOf)
  <2> HIDE DEF LogOf
  <2> QED BY <1>3, <1>4
<1>6. FloorLog2 = CHOOSE f : f = Up(f)
  BY DEF FloorLog2
<1>7. PICK f : f = FloorLog2
  OBVIOUS
<1>8. f = Up(f)
  BY <1>5, <1>6, <1>7
<1>9. f = [n \in Nat |-> f[n]] /\ \A n \in Nat : f[n] = IF n < 2 THEN 0 ELSE 1 + f[n \div 2]
  BY <1>8
<1> DEFINE S == {n \in Nat : f[n] # LogOf[n]}
<1>10. S = {}
  <2> SUFFICES ASSUME S # {} PROVE FALSE
    OBVIOUS
  <2>1. PICK m \in S : \A y \in S : m <= y
    <3>1. S \in SUBSET Nat
      OBVIOUS
    <3> HIDE DEF S
    <3> QED BY <3>1, LeastOf
  <2>2. m \in Nat /\ f[m] # LogOf[m]
    BY <2>1
  <2>3. f[m] = (IF m < 2 THEN 0 ELSE 1 + f[m \div 2]) /\ LogOf[m] = (IF m < 2 THEN 0 ELSE 1 + LogOf[m \div 2])
    BY <1>3, <1>9, <2>2
  <2>4. ~(m < 2)
    BY <2>2, <2>3
  <2>5. m \div 2 \in Nat /\ ~(m <= m \div 2)
    BY <2>2, <2>4
  <2>6. f[m \div 2] = LogOf[m \div 2]
    BY <2>1, <2>5
  <2> QED BY <2>2, <2>3, <2>6
<1>11. f = LogOf
  BY <1>4, <1>9, <1>10
<1> QED BY <1>7, <1>11

(* What the loop for the depth of a tree finds (constructor of ORAM). *)
LEMMA DepthFits ==
  ASSUME NEW size \in Nat, NEW z \in Nat \ {0}, z <= size
  PROVE  LET d == TreeDepth(size, z) IN
         d \in Nat /\ z * 2^d <= size /\ size < z * 2^(d + 1)
<1> DEFINE q == size \div z
           d == TreeDepth(size, z)
<1>1. q \in Nat /\ q * z <= size /\ size < q * z + z
  BY QuotientIs
<1>2. q # 0
  BY <1>1
<1>3. Between(q, d)
  <2>1. d = LogOf[q]
    BY FloorLog2Is DEF TreeDepth
  <2>2. \E e : Between(q, e)
    BY <1>1, <1>2, SomeBetween
  <2> HIDE DEF q, d
  <2>3. LogOf[q] = CHOOSE e : Between(q, e)
    BY <1>1, <1>2 DEF LogOf
  <2> QED BY <2>1, <2>2, <2>3
<1> HIDE DEF q, d
<1>4. d \in Nat /\ 2^d <= q /\ q < 2^(d + 1)
  BY <1>3 DEF Between
<1>5. 2^d \in Nat /\ 2^(d + 1) \in Nat
  BY <1>4, PowerIs
<1>6. z * 2^d <= z * q /\ z * (q + 1) <= z * 2^(d + 1)
  <2>1. \A x, y \in Nat : x <= y => z * x <= z * y
    OBVIOUS
  <2>2. q + 1 \in Nat /\ q + 1 <= 2^(d + 1)
    BY <1>1, <1>4, <1>5
  <2> QED BY <1>1, <1>4, <1>5, <2>1, <2>2
<1>7. z * q = q * z /\ z * (q + 1) = q * z + z
  BY <1>1
<1>8. z * 2^d \in Nat /\ z * 2^(d + 1) \in Nat /\ q * z \in Nat
  <2>1. \A x, y \in Nat : x * y \in Nat
    OBVIOUS
  <2> QED BY <1>1, <1>5, <2>1
<1>9. z * 2^d <= size /\ size < z * 2^(d + 1)
  BY <1>1, <1>6, <1>7, <1>8
<1> QED BY <1>4, <1>9 DEF d
=============================================================================
