---------------------------- MODULE Trees_proofs ----------------------------
(***************************************************************************)
(* What param_bODS returns, for every number of keys: the cheapest of the  *)
(* choices it looks at, with room in the root for a map of half full       *)
(* nodes.  And of the trees that are built for its numbers: the buckets    *)
(* GetNodeOnPath finds in them, and that client and server, with formulas  *)
(* of their own, find the same ones.                                       *)
(***************************************************************************)
EXTENDS Trees, PathTree_proofs

Cost(q, k) == padfun(Children(q, k), q, k)
Choice(q, k) == [P1 |-> Children(q, k), P2 |-> q, C |-> k]

(* the passes of the loop before the one for p2 and c *)
Tried(q, k) == k > c \/ (k = c /\ q < p2)
First == c = p2_max /\ p2 = 1

TypeInv ==
  /\ N \in Sizes
  /\ c \in 0 .. p2_max
  /\ p2 \in 1 .. p2_max
  /\ communication \in Nat

Best ==
  /\ First => communication = INT_MAX
  /\ ~First => \E q, k \in 1 .. p2_max : ret = Choice(q, k) /\ communication = Cost(q, k)
  /\ \A q, k \in 1 .. p2_max : Tried(q, k) => communication <= Cost(q, k)

SearchInv == TypeInv /\ Best

-----------------------------------------------------------------------------
LEMMA SizeIs ==
  ASSUME N \in Sizes PROVE N \in Nat /\ 1 <= N /\ N <= 10321
<1>1. N \in 1 .. 10321
  BY SizesAssumption
<1> QED BY <1>1

LEMMA CountIs ==
  ASSUME NEW a \in Nat, NEW b \in Nat, a <= b, NEW S \in SUBSET (a .. b)
  PROVE  /\ IsFiniteSet(S)
         /\ Cardinality(S) \in Nat
         /\ Cardinality(S) <= b - a + 1
         /\ S # {} => Cardinality(S) # 0
<1>1. IsFiniteSet(a .. b) /\ Cardinality(a .. b) = b - a + 1
  BY FS_Interval
<1>2. IsFiniteSet(S) /\ Cardinality(S) <= b - a + 1
  BY <1>1, FS_Subset
<1>3. Cardinality(S) \in Nat
  BY <1>2, FS_CardinalityType
<1>4. S # {} => Cardinality(S) # 0
  BY <1>2, FS_EmptySet
<1> QED BY <1>2, <1>3, <1>4

LEMMA DepthSmall ==
  ASSUME NEW n PROVE blockToleaf(n) \in Nat /\ blockToleaf(n) <= 15
<1> DEFINE S == {t \in 0 .. 14 : n > 4 * 2^t}
<1>1. S \in SUBSET (0 .. 14)
  OBVIOUS
<1>2. blockToleaf(n) = Cardinality(S)
  BY DEF blockToleaf
<1> HIDE DEF S
<1>3. Cardinality(S) \in Nat /\ Cardinality(S) <= 14 - 0 + 1
  BY <1>1, CountIs
<1> QED BY <1>2, <1>3

LEMMA MaxIs ==
  ASSUME N \in Sizes PROVE p2_max \in Nat /\ 2 <= p2_max /\ p2_max <= 16648
<1> DEFINE S == {s \in PowerSteps : s <= N}
<1>1. S \in SUBSET (1 .. 8324)
  BY DEF PowerSteps
<1>2. 1 \in S
  BY SizeIs DEF PowerSteps
<1>3. p2_max = 2 * Cardinality(S)
  BY DEF p2_max, Power
<1> HIDE DEF S
<1> DEFINE n == 8324
<1>4. n \in Nat /\ 1 <= n /\ S \in SUBSET (1 .. n)
  BY <1>1
<1> HIDE DEF n
<1>5. /\ Cardinality(S) \in Nat /\ Cardinality(S) <= n - 1 + 1
      /\ S # {} => Cardinality(S) # 0
  BY <1>4, CountIs
<1>6. Cardinality(S) <= 8324
  BY <1>5 DEF n
<1> QED BY <1>2, <1>3, <1>5, <1>6

(* the quotient of naturals *)
LEMMA Quotient ==
  ASSUME NEW a \in Nat, NEW b \in Nat, b > 0
  PROVE  /\ a \div b \in Nat
         /\ (a \div b) * b <= a
         /\ a < (a \div b) * b + b
BY QuotientIs

LEMMA ChildrenIs ==
  ASSUME N \in Sizes, NEW q \in Nat, NEW k \in Nat, q > 0, k > 0
  PROVE  Children(q, k) \in Nat /\ Children(q, k) > 0 /\ Children(q, k) <= 8 * N
<1> DEFINE b == q * q * k
<1>0. N \in Nat /\ N > 0
  BY SizeIs
<1>1. b \in Nat /\ b > 0
  <2>1. q * q \in Nat /\ q * q > 0
    OBVIOUS
  <2> QED BY <2>1
<1>2. CASE 8 * N < b
  BY <1>0, <1>2 DEF Children
<1>3. CASE ~(8 * N < b)
  <2> HIDE DEF b
  <2> DEFINE d == (8 * N) \div b
  <2>1. d \in Nat /\ d * b <= 8 * N /\ 8 * N < d * b + b
    BY <1>0, <1>1, Quotient
  <2> HIDE DEF d
  <2>2. d > 0
    BY <1>0, <1>1, <1>3, <2>1
  <2>3. d <= d * b
    BY <1>1, <2>1
  <2>4. d * b \in Nat
    BY <1>1, <2>1
  <2>5. Children(q, k) = d
    BY <1>3 DEF Children, b, d
  <2> QED BY <1>0, <2>1, <2>2, <2>3, <2>4, <2>5
<1> QED BY <1>2, <1>3

LEMMA CostIs ==
  ASSUME N \in Sizes, NEW q \in Nat, NEW k \in Nat, q > 0, k > 0
  PROVE  Cost(q, k) \in Nat
<1> DEFINE p == Children(q, k)
           t1 == blockToleaf(p)
           t2 == blockToleaf(p * q)
           t3 == blockToleaf(p * q * q)
<1>1. p \in Nat
  BY ChildrenIs
<1>2. t1 \in Nat /\ t2 \in Nat /\ t3 \in Nat
  BY DepthSmall
<1>3. Cost(q, k) = p * (t1 + 32) * 2 + 4 * q * (t1 * (32 + t2) + t2 * (32 + t3))
                     + 256 * k * t3 * 3
  BY DEF Cost, padfun, C1, C2, C3
<1> HIDE DEF p, t1, t2, t3
<1>4. p * (t1 + 32) * 2 \in Nat
  BY <1>1, <1>2
<1>5. 4 * q * (t1 * (32 + t2) + t2 * (32 + t3)) \in Nat
  <2>1. t1 * (32 + t2) \in Nat /\ t2 * (32 + t3) \in Nat
    BY <1>2
  <2> QED BY <2>1
<1>6. 256 * k * t3 * 3 \in Nat
  BY <1>2
<1> QED BY <1>3, <1>4, <1>5, <1>6

(* The first choice costs less than INT_MAX, so that the search returns    *)
(* one at all.                                                             *)
LEMMA FirstIsBetter ==
  ASSUME N \in Sizes PROVE Cost(1, p2_max) < INT_MAX
<1> DEFINE m == p2_max
           p == Children(1, m)
           t1 == blockToleaf(p)
           t2 == blockToleaf(p * 1)
           t3 == blockToleaf(p * 1 * 1)
<1>1. m \in Nat /\ m > 0 /\ m <= 16648
  BY MaxIs
<1>2. p \in Nat /\ p <= 82568
  <2>1. 1 \in Nat /\ 1 > 0
    OBVIOUS
  <2>2. p \in Nat /\ p <= 8 * N
    BY <1>1, <2>1, ChildrenIs
  <2> HIDE DEF p
  <2> QED BY <2>2, SizeIs
<1>3. /\ t1 \in Nat /\ t1 <= 15
      /\ t2 \in Nat /\ t2 <= 15
      /\ t3 \in Nat /\ t3 <= 15
  BY DepthSmall
<1>4. Cost(1, m) = p * (t1 + 32) * 2 + 4 * 1 * (t1 * (32 + t2) + t2 * (32 + t3))
                     + 256 * m * t3 * 3
  BY DEF Cost, padfun, C1, C2, C3
<1> HIDE DEF m, p, t1, t2, t3
<1>5. p * (t1 + 32) \in Nat /\ p * (t1 + 32) <= 82568 * 47
  BY <1>2, <1>3
<1>6. /\ t1 * (32 + t2) \in Nat /\ t1 * (32 + t2) <= 15 * 47
      /\ t2 * (32 + t3) \in Nat /\ t2 * (32 + t3) <= 15 * 47
  BY <1>3
<1>7. m * t3 \in Nat /\ m * t3 <= 16648 * 15
  BY <1>1, <1>3
<1>8. 256 * m * t3 * 3 = 768 * (m * t3)
  BY <1>1, <1>3
<1>9. Cost(1, m) < INT_MAX
  BY <1>4, <1>5, <1>6, <1>7, <1>8 DEF INT_MAX
<1> QED BY <1>9 DEF m

-----------------------------------------------------------------------------
LEMMA InitSearch == Init => SearchInv
<1> SUFFICES ASSUME Init PROVE SearchInv
  OBVIOUS
<1>1. p2_max \in Nat /\ 2 <= p2_max
  BY MaxIs DEF Init
<1>2. TypeInv
  BY <1>1 DEF Init, TypeInv, INT_MAX
<1>3. First /\ communication = INT_MAX
  BY DEF Init, First
<1>4. ASSUME NEW q \in 1 .. p2_max, NEW k \in 1 .. p2_max PROVE ~Tried(q, k)
  BY <1>1, <1>4 DEF Init, Tried
<1> QED BY <1>2, <1>3, <1>4 DEF SearchInv, Best

(* What has been tried after a pass is what had been before, and the pass. *)
LEMMA OneMoreTried ==
  ASSUME SearchInv, Try, NEW q \in 1 .. p2_max, NEW k \in 1 .. p2_max, Tried(q, k)'
  PROVE  Tried(q, k) \/ (q = p2 /\ k = c)
<1>1. p2_max \in Nat
  BY MaxIs DEF SearchInv, TypeInv
<1>2. c \in Nat /\ c > 0 /\ p2 \in Nat /\ p2 <= p2_max
  BY <1>1 DEF SearchInv, TypeInv, Try
<1>3. CASE p2 < p2_max
  BY <1>1, <1>2, <1>3 DEF Try, Tried
<1>4. CASE ~(p2 < p2_max)
  BY <1>1, <1>2, <1>4 DEF Try, Tried
<1> QED BY <1>3, <1>4

LEMMA SearchStep == SearchInv /\ [Try]_vars => SearchInv'
<1> SUFFICES ASSUME SearchInv, [Try]_vars PROVE SearchInv'
  OBVIOUS
<1>1. CASE UNCHANGED vars
  <2>1. N' = N /\ c' = c /\ p2' = p2 /\ ret' = ret /\ communication' = communication
    BY <1>1 DEF vars
  <2>2. p2_max' = p2_max
    BY <2>1 DEF p2_max, Power
  <2>3. \A q, k : Cost(q, k)' = Cost(q, k) /\ Choice(q, k)' = Choice(q, k)
    BY <2>1 DEF Cost, Choice, padfun, C1, C2, C3, Children
  <2> QED BY <2>1, <2>2, <2>3 DEF SearchInv, TypeInv, Best, First, Tried
<1>2. CASE Try
  <2> DEFINE m == p2_max
             temp == Cost(p2, c)
  <2>1. N' = N
    BY <1>2 DEF Try
  <2>2. p2_max' = p2_max
    BY <2>1 DEF p2_max, Power
  <2>3. \A q, k : Cost(q, k)' = Cost(q, k) /\ Choice(q, k)' = Choice(q, k)
    BY <2>1 DEF Cost, Choice, padfun, C1, C2, C3, Children
  <2>4. m \in Nat /\ 2 <= m
    BY MaxIs DEF SearchInv, TypeInv
  <2>5. c \in 1 .. m /\ p2 \in 1 .. m /\ communication \in Nat
    BY <1>2, <2>4 DEF SearchInv, TypeInv, Try
  <2>6. \A q, k \in 1 .. m : Cost(q, k) \in Nat
    BY <2>4, CostIs DEF SearchInv, TypeInv
  <2>7. temp \in Nat
    BY <2>5, <2>6
  <2>8. /\ temp < communication =>
             ret' = Choice(p2, c) /\ communication' = temp
        /\ ~(temp < communication) => UNCHANGED <<ret, communication>>
    BY <1>2 DEF Try, Better, Cost, Choice
  <2>9. /\ c' \in 0 .. m /\ p2' \in 1 .. m
        /\ ~First'
    <3>1. CASE p2 < m
      <4>1. p2' = p2 + 1 /\ c' = c
        BY <1>2, <3>1 DEF Try
      <4> QED BY <2>2, <2>4, <2>5, <3>1, <4>1 DEF First
    <3>2. CASE ~(p2 < m)
      <4>1. p2' = 1 /\ c' = c - 1
        BY <1>2, <3>2 DEF Try
      <4> QED BY <2>2, <2>4, <2>5, <4>1 DEF First
    <3> QED BY <3>1, <3>2
  <2>10. First => temp < communication
    <3> SUFFICES ASSUME First PROVE temp < communication
      OBVIOUS
    <3>1. communication = INT_MAX /\ p2 = 1 /\ c = p2_max
      BY DEF SearchInv, Best, First
    <3> QED BY <3>1, FirstIsBetter DEF SearchInv, TypeInv
  <2> HIDE DEF temp, m
  <2>11. TypeInv'
    BY <2>1, <2>2, <2>5, <2>7, <2>8, <2>9 DEF TypeInv, SearchInv, m
  <2>12. \E q, k \in 1 .. m : ret' = Choice(q, k) /\ communication' = Cost(q, k)
    <3>1. CASE temp < communication
      BY <2>5, <2>8, <3>1 DEF temp
    <3>2. CASE ~(temp < communication)
      <4>1. ~First
        BY <2>10, <3>2
      <4> QED BY <2>8, <3>2, <4>1 DEF SearchInv, Best, m
    <3> QED BY <3>1, <3>2
  <2>13. ASSUME NEW q \in 1 .. m, NEW k \in 1 .. m, Tried(q, k)'
         PROVE  communication' <= Cost(q, k)
    <3>1. communication' <= communication /\ communication' <= temp /\ communication' \in Nat
      BY <2>5, <2>7, <2>8
    <3>2. CASE Tried(q, k)
      <4>1. communication <= Cost(q, k)
        BY <3>2 DEF SearchInv, Best, m
      <4>2. Cost(q, k) \in Nat
        BY <2>6
      <4> QED BY <2>5, <3>1, <4>1, <4>2
    <3>3. CASE q = p2 /\ k = c
      BY <3>1, <3>3 DEF temp
    <3> QED BY <1>2, <2>13, <3>2, <3>3, OneMoreTried DEF m
  <2>14. Best'
    BY <2>2, <2>3, <2>9, <2>12, <2>13 DEF Best, m
  <2> QED BY <2>11, <2>14 DEF SearchInv
<1> QED BY <1>1, <1>2

LEMMA SearchIsInvariant == Spec => []SearchInv
<1> QED BY InitSearch, SearchStep, PTL DEF Spec

(* When the search is over it has one of its choices, and no dearer one.   *)
LEMMA Result ==
  ASSUME SearchInv, Found
  PROVE  \E q, k \in 1 .. p2_max :
           /\ ret = Choice(q, k)
           /\ \A r, s \in 1 .. p2_max : Cost(q, k) <= Cost(r, s)
<1>1. p2_max \in Nat /\ 2 <= p2_max
  BY MaxIs DEF SearchInv, TypeInv
<1>2. ~First
  BY <1>1 DEF First, Found
<1>3. \A r, s \in 1 .. p2_max : Tried(r, s)
  BY <1>1 DEF Tried, Found
<1> QED BY <1>2, <1>3 DEF SearchInv, Best

(* For every number of keys param_bODS (precompute.cpp) is for, what it    *)
(* returns costs no more than any other choice it looks at: comparing with *)
(* the least so far, from INT_MAX on, loses none.                          *)
THEOREM SearchFindsCheapest == Spec => []Cheapest
<1>1. SearchInv => Cheapest
  <2> SUFFICES ASSUME SearchInv, Found PROVE Cheapest
    BY DEF Cheapest
  <2>1. PICK q, k \in 1 .. p2_max :
          /\ ret = Choice(q, k)
          /\ \A r, s \in 1 .. p2_max : Cost(q, k) <= Cost(r, s)
    BY Result
  <2>2. ret.P1 = Children(q, k) /\ ret.P2 = q /\ ret.C = k
    BY <2>1 DEF Choice
  <2>3. padfun(ret.P1, ret.P2, ret.C) = Cost(q, k)
    BY <2>2 DEF Cost
  <2> QED BY <2>1, <2>3 DEF Cheapest, Cost
<1> QED BY <1>1, SearchIsInvariant, PTL

(* Half full nodes take twice their number of places: rounding the halves  *)
(* up makes up for rounding the number of children down.                   *)
LEMMA HalvesSuffice ==
  ASSUME N \in Sizes, NEW q \in Nat, NEW k \in Nat, q > 0, k > 0
  PROVE  (N \div HalfOf(k)) \div (HalfOf(q) * HalfOf(q)) <= Children(q, k)
<1> DEFINE h == HalfOf(k)
           g == HalfOf(q)
           u == N \div h
           v == u \div (g * g)
           b == q * q * k
<1>0. N \in Nat
  BY SizeIs
<1>1. h \in Nat /\ h > 0 /\ k <= 2 * h /\ g \in Nat /\ g > 0 /\ q <= 2 * g
  BY DEF HalfOf
<1> HIDE DEF h, g
<1>2. u \in Nat /\ u * h <= N
  BY <1>0, <1>1, Quotient
<1> HIDE DEF u
<1>3. g * g \in Nat /\ g * g > 0
  BY <1>1
<1>4. v \in Nat /\ v * (g * g) <= u
  BY <1>2, <1>3, Quotient
<1> HIDE DEF v
<1>5. v * (g * g) * h <= N
  <2>1. v * (g * g) \in Nat
    BY <1>3, <1>4
  <2>2. v * (g * g) * h <= u * h
    BY <1>1, <1>2, <1>4, <2>1
  <2> QED BY <1>0, <1>1, <1>2, <2>1, <2>2
<1>6. b \in Nat /\ b > 0 /\ b <= 8 * ((g * g) * h)
  <2>1. q * q \in Nat /\ q * q > 0 /\ q * q <= 4 * (g * g)
    <3>1. q * q <= (2 * g) * q
      BY <1>1
    <3>2. (2 * g) * q <= (2 * g) * (2 * g)
      BY <1>1
    <3> QED BY <1>1, <3>1, <3>2
  <2>2. (q * q) * k <= (4 * (g * g)) * k
    BY <1>3, <2>1
  <2>3. (4 * (g * g)) * k <= (4 * (g * g)) * (2 * h)
    BY <1>1, <1>3
  <2>4. (4 * (g * g)) * (2 * h) = 8 * ((g * g) * h)
    BY <1>1, <1>3
  <2> QED BY <1>1, <1>3, <2>1, <2>2, <2>3, <2>4
<1> HIDE DEF b
<1>7. v * b <= 8 * N
  <2>1. (g * g) * h \in Nat
    BY <1>1, <1>3
  <2>2. v * b <= v * (8 * ((g * g) * h))
    BY <1>4, <1>6, <2>1
  <2>3. v * (8 * ((g * g) * h)) = 8 * (v * (g * g) * h)
    BY <1>1, <1>3, <1>4
  <2>4. v * (g * g) * h \in Nat
    BY <1>1, <1>3, <1>4
  <2> QED BY <1>0, <1>4, <1>5, <1>6, <2>1, <2>2, <2>3, <2>4
<1>8. v <= Children(q, k)
  <2>1. CASE 8 * N < b
    <3>1. v * b < b
      BY <1>0, <1>4, <1>6, <1>7, <2>1
    <3>2. v = 0
      BY <1>4, <1>6, <3>1
    <3>3. Children(q, k) = 1
      BY <2>1 DEF Children, b
    <3> QED BY <3>2, <3>3
  <2>2. CASE ~(8 * N < b)
    <3> DEFINE d == (8 * N) \div b
    <3>1. d \in Nat /\ 8 * N < d * b + b
      BY <1>0, <1>6, Quotient
    <3>2. Children(q, k) = d
      BY <2>2 DEF Children, b
    <3> HIDE DEF d
    <3>3. v * b < (d + 1) * b
      BY <1>0, <1>4, <1>6, <1>7, <3>1
    <3>4. v < d + 1
      BY <1>4, <1>6, <3>1, <3>3
    <3> QED BY <1>4, <3>1, <3>2, <3>4
  <2> QED BY <2>1, <2>2
<1> QED BY <1>8 DEF v, u, g, h

(* For every number of keys, the root has a place for every child that a   *)
(* map with half full nodes (TreeMap!NodesHalfFull) gives it, so that what *)
(* root->Insert returns, which client::insert ignores, is never an error.  *)
THEOREM RootHasRoom == Spec => []RootTakesAll
<1>1. SearchInv => RootTakesAll
  <2> SUFFICES ASSUME SearchInv, Found PROVE RootTakesAll
    BY DEF RootTakesAll
  <2>1. PICK q, k \in 1 .. p2_max : ret = Choice(q, k)
    BY Result
  <2>2. ret.P1 = Children(q, k) /\ ret.P2 = q /\ ret.C = k
    BY <2>1 DEF Choice
  <2>3. q \in Nat /\ k \in Nat /\ q > 0 /\ k > 0
    BY MaxIs DEF SearchInv, TypeInv
  <2>4. (N \div HalfOf(k)) \div (HalfOf(q) * HalfOf(q)) <= Children(q, k)
    BY <2>3, HalvesSuffice DEF SearchInv, TypeInv
  <2> QED BY <2>2, <2>4 DEF RootTakesAll
<1> QED BY <1>1, SearchIsInvariant, PTL

-----------------------------------------------------------------------------
(* The tree that is built is as deep as the constructor of ORAM makes it,  *)
(* and the two positions looked at are positions in it.                    *)
TreesInv ==
  Built =>
    /\ tree.size \in Nat /\ Z <= tree.size
    /\ tree.depth = TreeDepth(tree.size, Z)
    /\ tree.depth \in Nat
    /\ x \in LeavesOf(tree.depth)
    /\ y \in LeavesOf(tree.depth)

(* Building a tree leaves the search alone. *)
LEMMA TreesAreSearch == SpecTrees => Spec
<1>1. InitTrees => Init
  BY DEF InitTrees
<1>2. [NextTrees]_treesVars => [Try]_vars
  BY DEF NextTrees, treesVars, Build
<1> QED BY <1>1, <1>2, PTL DEF SpecTrees, Spec

(* Every layer is made for a number of nodes. *)
LEMMA LayerSizeIs ==
  ASSUME SearchInv, Found, NEW l \in 1 .. 3 PROVE LayerSize(l) \in Nat
<1>1. PICK q, k \in 1 .. p2_max : ret = Choice(q, k)
  BY Result
<1>2. q \in Nat /\ k \in Nat /\ q > 0 /\ k > 0
  BY MaxIs DEF SearchInv, TypeInv
<1>3. Children(q, k) \in Nat
  BY <1>2, ChildrenIs DEF SearchInv, TypeInv
<1>4. ret.P1 \in Nat /\ ret.P2 \in Nat
  BY <1>1, <1>2, <1>3 DEF Choice
<1>5. PICK p, r : p = ret.P1 /\ r = ret.P2
  OBVIOUS
<1>6. <<1, r, r * r>>[l] \in Nat
  BY <1>4, <1>5
<1>7. \A a, b \in Nat : a * b \in Nat
  OBVIOUS
<1> QED BY <1>4, <1>5, <1>6, <1>7 DEF LayerSize

(* The positions chosen are positions in the tree. *)
LEMMA SomeLeavesAre ==
  ASSUME NEW d \in Nat PROVE SomeLeaves(d) \subseteq LeavesOf(d)
<1>1. CASE d <= AllPaths
  BY <1>1 DEF SomeLeaves
<1>2. CASE ~(d <= AllPaths)
  <2>1. d - 1 \in Nat /\ (d - 1) + 1 = d
    BY <1>2, AllPathsAssumption
  <2>2. PICK e : e = d - 1
    OBVIOUS
  <2>3. 2^e \in Nat \ {0} /\ 2^d = 2 * 2^e
    <3>1. e \in Nat /\ d = e + 1
      BY <2>1, <2>2
    <3> QED BY <3>1, PowerIs, PowerOfNext
  <2>4. SomeLeaves(d) = {0, 1, 2^e - 1, 2^e, 2^d - 2, 2^d - 1}
    BY <1>2, <2>2 DEF SomeLeaves
  <2> QED BY <2>3, <2>4 DEF LeavesOf
<1> QED BY <1>1, <1>2

LEMMA TreesStep == TreesInv /\ SearchInv /\ [NextTrees]_treesVars => TreesInv'
<1> SUFFICES ASSUME TreesInv, SearchInv, [NextTrees]_treesVars PROVE TreesInv'
  OBVIOUS
<1>1. CASE UNCHANGED <<tree, x, y>>
  BY <1>1 DEF TreesInv, Built
<1>2. ASSUME NEW l \in 1 .. 3, Build(l) PROVE TreesInv'
  <2>1. PICK size : size = LayerSize(l)
    OBVIOUS
  <2>2. PICK depth : depth = TreeDepth(size, Z)
    OBVIOUS
  <2>3. /\ Found /\ Z <= size /\ size \in Nat /\ tree' = [size |-> size, depth |-> depth]
        /\ x' \in SomeLeaves(ClientDepth(tree'.size))
        /\ y' \in SomeLeaves(ClientDepth(tree'.size))
    <3>1. Found /\ size >= Z /\ tree' = [size |-> size, depth |-> depth]
          /\ x' \in SomeLeaves(ClientDepth(tree'.size))
          /\ y' \in SomeLeaves(ClientDepth(tree'.size))
      BY <1>2, <2>1, <2>2 DEF Build
    <3>2. size \in Nat
      BY <2>1, <3>1, LayerSizeIs
    <3> QED BY <3>1, <3>2, SizesAssumption
  <2>4. size \in Nat /\ Z \in Nat \ {0}
    BY <2>3, SizesAssumption
  <2>5. depth \in Nat
    BY <2>2, <2>3, <2>4, DepthFits
  <2>6. tree'.size = size /\ tree'.depth = depth /\ ClientDepth(tree'.size) = depth
    <3>1. tree'.size = size /\ tree'.depth = depth
      BY <2>3
    <3> QED BY <2>2, <3>1 DEF ClientDepth, TreeDepth
  <2>7. x' \in LeavesOf(depth) /\ y' \in LeavesOf(depth)
    BY <2>3, <2>5, <2>6, SomeLeavesAre
  <2> QED BY <2>2, <2>3, <2>4, <2>5, <2>6, <2>7 DEF TreesInv
<1> QED BY <1>1, <1>2 DEF NextTrees, treesVars

LEMMA TreesInvariant == SpecTrees => [](SearchInv /\ TreesInv)
<1>1. InitTrees => TreesInv
  BY DEF InitTrees, TreesInv, Built
<1> QED BY <1>1, TreesAreSearch, SearchIsInvariant, TreesStep, PTL DEF SpecTrees

(* The client's integer arithmetic is the server's.                        *)
LEMMA ClientFindsTheSame ==
  ASSUME NEW s, NEW leaf, NEW d
  PROVE  ClientNodeOnPath(s, leaf, d) = GetNodeOnPath(TreeDepth(s, Z), leaf, d)
<1>1. ClientDepth(s) = TreeDepth(s, Z)
  BY DEF ClientDepth, TreeDepth
<1>2. \A b : ClientClimb(b) = Climb(b)
  BY DEF ClientClimb, Climb
<1>3. GetNodeOnPath(TreeDepth(s, Z), leaf, d)
        = Climb(leaf + BucketCount(TreeDepth(s, Z)) \div 2)[TreeDepth(s, Z) - d]
  BY DEF GetNodeOnPath
<1>4. ClientNodeOnPath(s, leaf, d)
        = ClientClimb(leaf + (2^(ClientDepth(s) + 1) - 1) \div 2)[ClientDepth(s) - d]
  BY DEF ClientNodeOnPath
<1>5. BucketCount(TreeDepth(s, Z)) = 2^(TreeDepth(s, Z) + 1) - 1
  BY DEF BucketCount
<1> QED BY <1>1, <1>2, <1>3, <1>4, <1>5

(* the depths at which buckets of Z are filled by so many nodes *)
Fits(size, d) == Z * 2^d <= size /\ size < Z * 2^(d + 1)

LEMMA BelowItsPower == ASSUME NEW n \in Nat PROVE n < 2^n
<1> DEFINE S == {m \in Nat : m < 2^m}
<1>1. 0 \in S
  BY PowerOfZero
<1>2. \A m \in S : m + 1 \in S
  <2> SUFFICES ASSUME NEW m \in Nat, m < 2^m PROVE m + 1 \in Nat /\ m + 1 < 2^(m + 1)
    OBVIOUS
  <2>1. 2^(m + 1) = 2 * 2^m /\ 2^m \in Nat
    BY PowerOfNext, PowerIs
  <2> QED BY <2>1
<1>3. S \in SUBSET Nat
  OBVIOUS
<1>4. S = Nat
  <2> HIDE DEF S
  <2> QED BY <1>1, <1>2, <1>3, Upwards
<1> QED BY <1>4

(* There is one such depth at most, and no greater than the number.        *)
LEMMA FitsOnce ==
  ASSUME NEW size \in Nat, NEW d \in Nat, NEW e \in Nat, Fits(size, d), Fits(size, e)
  PROVE  ~(d < e) /\ d <= size
<1>1. Z \in Nat \ {0}
  BY SizesAssumption
<1>2. /\ 2^d \in Nat \ {0} /\ 2^e \in Nat \ {0} /\ 2^(d + 1) \in Nat \ {0}
      /\ d < 2^d
  BY PowerIs, BelowItsPower
<1>3. \A u, v \in Nat : u <= v => Z * u <= Z * v
  BY <1>1
<1>4. \A u \in Nat : u <= Z * u /\ Z * u \in Nat
  BY <1>1
<1>5. ~(d < e)
  <2> SUFFICES ASSUME d < e PROVE FALSE
    OBVIOUS
  <2>1. 2^(d + 1) <= 2^e
    <3>1. d + 1 \in Nat /\ d + 1 <= e
      OBVIOUS
    <3> QED BY <3>1, PowerGrows
  <2>2. Z * 2^(d + 1) <= Z * 2^e
    BY <1>2, <1>3, <2>1
  <2>3. size < Z * 2^(d + 1) /\ Z * 2^e <= size
    BY DEF Fits
  <2> QED BY <1>2, <1>4, <2>2, <2>3
<1>6. d <= size
  <2>1. 2^d <= Z * 2^d /\ Z * 2^d \in Nat /\ Z * 2^d <= size
    BY <1>2, <1>4 DEF Fits
  <2> QED BY <1>2, <2>1
<1> QED BY <1>5, <1>6

(* The division of doubles and the division of integers give one depth.    *)
LEMMA WriteDepthIs ==
  ASSUME NEW size \in Nat, Z <= size
  PROVE  WriteDepth(size) = TreeDepth(size, Z)
<1> DEFINE d == TreeDepth(size, Z)
           w == WriteDepth(size)
<1>1. d \in Nat /\ Fits(size, d)
  <2>1. Z \in Nat \ {0}
    BY SizesAssumption
  <2> QED BY <2>1, DepthFits DEF Fits
<1>2. w = CHOOSE e \in 0 .. size : Fits(size, e)
  BY DEF WriteDepth, Fits
<1> HIDE DEF d, w
<1>3. d \in 0 .. size
  BY <1>1, FitsOnce
<1>4. w \in 0 .. size /\ Fits(size, w)
  BY <1>1, <1>2, <1>3
<1>5. w \in Nat
  BY <1>4
<1>6. ~(d < w) /\ ~(w < d)
  BY <1>1, <1>4, <1>5, FitsOnce
<1>7. w = d
  BY <1>1, <1>5, <1>6
<1> QED BY <1>7 DEF w, d

(* The loop of GetNodeOnPath (client.cpp, ORAM.cpp), for every tree that    *)
(* is built for numbers param_bODS returns: the bucket it finds at a depth  *)
(* is in the tree, and is the one of the closed form.                       *)
THEOREM LoopIsRight == SpecTrees => []LoopFindsBucket
<1>1. TreesInv => LoopFindsBucket
  <2> SUFFICES ASSUME TreesInv, Built, NEW d \in 0 .. tree.depth
               PROVE  /\ GetNodeOnPath(tree.depth, x, d) = BucketAt(x, d)
                      /\ GetNodeOnPath(tree.depth, x, d) \in 0 .. BucketCount(tree.depth) - 1
    BY DEF LoopFindsBucket
  <2>1. PICK depth, l : depth = tree.depth /\ l = x
    OBVIOUS
  <2>2. depth \in Nat /\ l \in LeavesOf(depth) /\ d \in 0 .. depth
    BY <2>1 DEF TreesInv
  <2>3. /\ GetNodeOnPath(depth, l, d) = 2^d - 1 + l \div 2^(depth - d)
        /\ GetNodeOnPath(depth, l, d) \in 0 .. BucketCount(depth) - 1
    BY <2>2, LoopFinds, BucketInTree
  <2> QED BY <2>1, <2>3 DEF BucketAt
<1> QED BY <1>1, TreesInvariant, PTL

(* A path as client::GetNodeOnPath finds it and one as the server's finds   *)
(* it have in common the buckets of the levels on which the numbers of      *)
(* their leaves agree, and no others: what Write...Path may put in a        *)
(* bucket is what the server finds under it.                                *)
THEOREM PathsShareTheirPrefix == SpecTrees => []PathsMeetInPrefix
<1>1. TreesInv => PathsMeetInPrefix
  <2> SUFFICES ASSUME TreesInv, Built, NEW d \in 0 .. tree.depth, NEW e \in 0 .. tree.depth
               PROVE  ClientNodeOnPath(tree.size, x, d) = GetNodeOnPath(tree.depth, y, e)
                        <=> d = e /\ x \div 2^(tree.depth - d) = y \div 2^(tree.depth - d)
    BY DEF PathsMeetInPrefix
  <2>1. PICK depth, l, m : depth = tree.depth /\ l = x /\ m = y
    OBVIOUS
  <2>2. /\ depth \in Nat /\ l \in LeavesOf(depth) /\ m \in LeavesOf(depth)
        /\ d \in 0 .. depth /\ e \in 0 .. depth
    BY <2>1 DEF TreesInv
  <2>3. GetNodeOnPath(depth, l, d) = GetNodeOnPath(depth, m, e)
          <=> d = e /\ l \div 2^(depth - d) = m \div 2^(depth - d)
    BY <2>2, PathsMeet
  <2>4. ClientNodeOnPath(tree.size, x, d) = GetNodeOnPath(tree.depth, x, d)
    BY ClientFindsTheSame DEF TreesInv
  <2> QED BY <2>1, <2>3, <2>4
<1> QED BY <1>1, TreesInvariant, PTL

(* The depth the server keeps is that of an integer division, the one      *)
(* finalize2mid1, finalize2mid2 and finalize2leaf (client.cpp) start from   *)
(* that of a division of doubles.  Whatever numbers the search found, what  *)
(* they write back for a position is what FetchPath sent for it.            *)
THEOREM WriteBackIsTheFetch == SpecTrees => []WritesWhatWasSent
<1>1. TreesInv => WritesWhatWasSent
  <2> SUFFICES ASSUME TreesInv, Built
               PROVE  {ClientNodeOnPath(tree.size, x, d) : d \in 0 .. WriteDepth(tree.size)}
                        = PathBuckets(tree.depth, x)
    BY DEF WritesWhatWasSent
  <2>1. tree.size \in Nat /\ Z <= tree.size /\ tree.depth = TreeDepth(tree.size, Z)
    BY DEF TreesInv
  <2>2. WriteDepth(tree.size) = tree.depth
    BY <2>1, WriteDepthIs
  <2>3. \A d : ClientNodeOnPath(tree.size, x, d) = GetNodeOnPath(tree.depth, x, d)
    BY <2>1, ClientFindsTheSame
  <2> QED BY <2>2, <2>3 DEF PathBuckets
<1> QED BY <1>1, TreesInvariant, PTL
=============================================================================
