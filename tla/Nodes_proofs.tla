---------------------------- MODULE Nodes_proofs ----------------------------
(***************************************************************************)
(* What the operations of a node do to what it holds (node.cpp), for every *)
(* size of node: a node in order stays in order, Insert and Update lose no *)
(* row, and a node that splits leaves two that are at least half full.     *)
(* Inductions over the keys of a node go by a least counterexample.        *)
(*                                                                         *)
(* And what they do to the layers of a tree of such nodes: layers in order *)
(* (Sorted) stay in order when the nodes on the way to a key give way to   *)
(* what an insert makes of them, and hold the pairs they held before, with *)
(* the one inserted.  What an insert makes, of which nodes, and what its   *)
(* nodes are called is Planned, of which the proofs about the program make *)
(* use.                                                                    *)
(***************************************************************************)
EXTENDS Nodes, WellFoundedInduction, FiniteSetTheorems, SequenceTheorems, TLAPS

(* A set of natural numbers has a least element: every induction below     *)
(* goes by a least counterexample.                                         *)
LEMMA LeastNumber ==
  ASSUME NEW S \in SUBSET Nat, S # {}
  PROVE  \E x \in S : \A y \in S : x <= y
<1> DEFINE R == OpToRel(<, Nat)
<1>1. IsWellFoundedOn(R, Nat)
  BY NatLessThanWellFounded
<1>2. \A x, y \in Nat : x < y => <<x, y>> \in R
  BY Zenon DEF OpToRel
<1> HIDE DEF R
<1>3. PICK x \in S : \A y \in S : ~(<<y, x>> \in R)
  BY <1>1, WFMin
<1>4. \A y \in S : ~(y < x)
  BY <1>2, <1>3
<1> QED BY <1>4

(* The least of a set of indices is one of them. *)
LEMMA LeastIndex ==
  ASSUME NEW n \in Nat, NEW I \in SUBSET (1 .. n), I # {}
  PROVE  Min(I) \in I /\ \A i \in I : Min(I) <= i
<1>1. I \in SUBSET Nat
  OBVIOUS
<1>2. \E x \in I : \A y \in I : x <= y
  BY <1>1, LeastNumber
<1> QED BY <1>2 DEF Min

(* The loops of Search and Insert that stop at the first key not below k:  *)
(* what is before it is below k.                                           *)
LEMMA FirstFromFinds ==
  ASSUME NEW S, \A e \in S : e.key \in Int, NEW s \in Seq(S), NEW k \in Int
  PROVE  LET i == FirstFrom(s, k) IN
         /\ i \in 0 .. Len(s)
         /\ i = 0 => \A j \in 1 .. Len(s) : s[j].key < k
         /\ i # 0 => s[i].key >= k /\ \A j \in 1 .. i - 1 : s[j].key < k
<1> DEFINE I == {i \in 1 .. Len(s) : s[i].key >= k}
<1>1. FirstFrom(s, k) = IF I # {} THEN Min(I) ELSE 0
  BY DEF FirstFrom, SelectInSeq
<1>2. I \in SUBSET (1 .. Len(s)) /\ Len(s) \in Nat
  OBVIOUS
<1>3. \A j \in 1 .. Len(s) : s[j].key \in Int
  OBVIOUS
<1>4. CASE I = {}
  BY <1>1, <1>3, <1>4
<1>5. CASE I # {}
  <2>1. Min(I) \in I /\ \A i \in I : Min(I) <= i
    BY <1>2, <1>5, LeastIndex
  <2>2. FirstFrom(s, k) = Min(I)
    BY <1>1, <1>5
  <2>3. \A j \in 1 .. Min(I) - 1 : s[j].key < k
    BY <1>3, <2>1
  <2> HIDE DEF I
  <2>4. Min(I) \in 1 .. Len(s) /\ s[Min(I)].key >= k
    BY <2>1 DEF I
  <2> QED BY <2>2, <2>3, <2>4
<1> QED BY <1>4, <1>5

(* The index a lookup by key finds is the one whose key it is. *)
LEMMA KeyIsFound ==
  ASSUME NEW S, NEW s \in Seq(S), NEW k,
         NEW j \in 1 .. Len(s), s[j].key = k,
         \A i \in 1 .. Len(s) : s[i].key = k => i = j
  PROVE  SelectInSeq(s, LAMBDA e : e.key = k) = j
<1> DEFINE I == {i \in 1 .. Len(s) : s[i].key = k}
<1>1. SelectInSeq(s, LAMBDA e : e.key = k) = IF I # {} THEN Min(I) ELSE 0
  BY DEF SelectInSeq
<1>2. I = {j}
  OBVIOUS
<1>3. Min({j}) = j
  BY DEF Min
<1> QED BY <1>1, <1>2, <1>3

(* keys that go up, no two of them the same *)
Increasing(s) == \A i, j \in DOMAIN s : i < j => s[i].key < s[j].key

(* kppair_sort_rule puts entries of different keys in the order of their   *)
(* keys and loses none of them.                                            *)
LEMMA SortByKeySorts ==
  ASSUME NEW S, \A e \in S : e.key \in Int, NEW s \in Seq(S),
         \A i, j \in DOMAIN s : s[i].key = s[j].key => i = j
  PROVE  /\ SortByKey(s) \in Seq(S)
         /\ Len(SortByKey(s)) = Len(s)
         /\ ToSet(SortByKey(s)) = ToSet(s)
         /\ Increasing(SortByKey(s))
<1> DEFINE D == DOMAIN s
           UpTo(i, j) == s[i].key < s[j].key \/ (s[i].key = s[j].key /\ i <= j)
           Below(j) == {i \in D : UpTo(i, j)}
           from == [p \in D |-> CHOOSE j \in D : Cardinality(Below(j)) = p]
           place == [j \in D |-> Cardinality(Below(j))]
<1>1. /\ D = 1 .. Len(s)
      /\ IsFiniteSet(D)
      /\ Cardinality(D) = Len(s)
      /\ \A j \in D : s[j] \in S /\ s[j].key \in Int
  <2>1. IsFiniteSet(1 .. Len(s)) /\ Cardinality(1 .. Len(s)) = Len(s)
    <3>1. Len(s) \in Nat /\ 1 \in Int
      OBVIOUS
    <3> QED BY <3>1, FS_Interval, SMTT(30)
  <2>2. DOMAIN s = 1 .. Len(s)
    OBVIOUS
  <2>3. \A j \in 1 .. Len(s) : s[j] \in S
    OBVIOUS
  <2> QED BY <2>1, <2>2, <2>3
<1>2. SortByKey(s) = [p \in D |-> s[CHOOSE j \in D : Cardinality(Below(j)) = p]]
  BY DEF SortByKey
<1>3. ASSUME NEW j \in D
      PROVE  place[j] \in D
  <2>1. Below(j) \in SUBSET D /\ j \in Below(j)
    BY <1>1
  <2> HIDE DEF Below
  <2>2. /\ Cardinality(Below(j)) \in Nat
        /\ Cardinality(Below(j)) <= Len(s)
        /\ Cardinality(Below(j)) # 0
    BY <1>1, <2>1, FS_Subset, FS_CardinalityType, FS_EmptySet
  <2> QED BY <2>2
<1>4. ASSUME NEW i \in D, NEW j \in D, s[i].key < s[j].key
      PROVE  place[i] < place[j]
  <2>1. /\ Below(i) \in SUBSET Below(j)
        /\ j \in Below(j)
        /\ j \notin Below(i)
        /\ Below(j) \in SUBSET D
    BY <1>1, <1>4
  <2> HIDE DEF Below
  <2>2. IsFiniteSet(Below(j)) /\ IsFiniteSet(Below(i))
    BY <1>1, <2>1, FS_Subset
  <2>3. /\ Cardinality(Below(i)) <= Cardinality(Below(j))
        /\ Cardinality(Below(i)) # Cardinality(Below(j))
    BY <2>1, <2>2, FS_Subset
  <2>4. Cardinality(Below(i)) \in Nat /\ Cardinality(Below(j)) \in Nat
    BY <2>2, FS_CardinalityType
  <2> QED BY <2>3, <2>4
<1> HIDE DEF place
<1>5. \A i, j \in D : place[i] = place[j] => i = j
  <2> SUFFICES ASSUME NEW i \in D, NEW j \in D, place[i] = place[j], i # j
               PROVE  FALSE
    OBVIOUS
  <2>1. s[i].key # s[j].key
    BY <1>1
  <2>2. s[i].key < s[j].key \/ s[j].key < s[i].key
    BY <1>1, <2>1
  <2> QED BY <2>2, <1>3, <1>4
<1>6. place \in [D -> D]
  BY <1>3 DEF place
<1>7. place \in Injection(D, D)
  BY <1>5, <1>6 DEF Injection, IsInjective
<1>8. place \in Surjection(D, D)
  BY <1>1, <1>7, FS_Injection
<1>9. \A p \in D : \E j \in D : place[j] = p
  BY <1>8 DEF Surjection
<1>10. \A p \in D : from[p] \in D /\ place[from[p]] = p
  <2>1. \A j \in D : place[j] = Cardinality(Below(j))
    BY DEF place
  <2> HIDE DEF Below
  <2> QED BY <1>9, <2>1
<1>11. \A j \in D : from[place[j]] = j
  BY <1>3, <1>5, <1>10, ZenonT(60)
<1>12. SortByKey(s) = [p \in D |-> s[from[p]]]
  BY <1>2
<1> HIDE DEF from
<1> HIDE DEF D
<1>13. SortByKey(s) \in Seq(S) /\ Len(SortByKey(s)) = Len(s) /\ DOMAIN SortByKey(s) = D
  BY <1>1, <1>10, <1>12
<1>14. ToSet(SortByKey(s)) = ToSet(s)
  <2>1. ToSet(SortByKey(s)) = {s[from[p]] : p \in D}
    <3>1. \A p \in D : SortByKey(s)[p] = s[from[p]]
      BY <1>12
    <3> QED BY <1>13, <3>1 DEF ToSet
  <2>2. ToSet(s) = {s[j] : j \in D}
    BY DEF ToSet, D
  <2> QED BY <1>3, <1>10, <1>11, <2>1, <2>2
<1>15. ASSUME NEW p \in D, NEW q \in D, p < q
       PROVE  SortByKey(s)[p].key < SortByKey(s)[q].key
  <2>1. SortByKey(s)[p] = s[from[p]] /\ SortByKey(s)[q] = s[from[q]]
    BY <1>12
  <2>2. from[p] \in D /\ from[q] \in D /\ place[from[p]] = p /\ place[from[q]] = q
    BY <1>10
  <2>3. from[p] # from[q]
    BY <1>1, <1>15, <2>2
  <2>4. s[from[p]].key # s[from[q]].key
    BY <1>1, <2>2, <2>3
  <2>5. ~(s[from[q]].key < s[from[p]].key)
    <3>1. SUFFICES ASSUME s[from[q]].key < s[from[p]].key PROVE FALSE
      OBVIOUS
    <3>2. q < p
      BY <3>1, <1>4, <2>2
    <3> QED BY <1>1, <1>15, <3>2
  <2> QED BY <1>1, <2>1, <2>2, <2>4, <2>5
<1> QED BY <1>13, <1>14, <1>15 DEF Increasing

(* The two halves of a node that is one row over its size: each has rows,  *)
(* has room for them and is at least half full, and all keys of the first  *)
(* are below those of the second.                                          *)
LEMMA SplitInTwo ==
  ASSUME NEW S, \A e \in S : e.key \in Int, NEW n \in Nat \ {0},
         NEW t \in Seq(S), Len(t) = n + 1, Increasing(t)
  PROVE  LET h == (n + 1) \div 2
             a == SubSeq(t, 1, h)
             b == SubSeq(t, h + 1, n + 1)
         IN  /\ a \in Seq(S) /\ Len(a) \in 1 .. n /\ 2 * Len(a) >= n /\ Increasing(a)
             /\ b \in Seq(S) /\ Len(b) \in 1 .. n /\ 2 * Len(b) >= n /\ Increasing(b)
             /\ ToSet(a) \union ToSet(b) = ToSet(t)
             /\ \A x \in ToSet(a), y \in ToSet(b) : x.key < y.key
<1> DEFINE h == (n + 1) \div 2
           a == SubSeq(t, 1, h)
           b == SubSeq(t, h + 1, n + 1)
<1>1. h \in 1 .. n /\ 2 * h >= n /\ 2 * (n + 1 - h) >= n
  OBVIOUS
<1> HIDE DEF h
<1>2. DOMAIN t = 1 .. n + 1 /\ \A i \in 1 .. n + 1 : t[i] \in S /\ t[i].key \in Int
  OBVIOUS
<1>3. a \in Seq(S) /\ Len(a) = h /\ DOMAIN a = 1 .. h /\ \A i \in 1 .. h : a[i] = t[i]
  <2>1. 1 \in Int /\ h \in Int /\ \A i \in 1 .. h : t[i] \in S
    BY <1>1, <1>2
  <2>2. /\ a \in Seq(S)
        /\ Len(a) = IF 1 <= h THEN h - 1 + 1 ELSE 0
        /\ \A i \in 1 .. h - 1 + 1 : a[i] = t[1 + i - 1]
    BY <2>1, SubSeqProperties
  <2> HIDE DEF a
  <2> QED BY <1>1, <2>2
<1>4. /\ b \in Seq(S) /\ Len(b) = n + 1 - h /\ DOMAIN b = 1 .. n + 1 - h
      /\ \A i \in 1 .. n + 1 - h : b[i] = t[h + i]
  <2>1. h + 1 \in Int /\ n + 1 \in Int /\ \A i \in h + 1 .. n + 1 : t[i] \in S
    BY <1>1, <1>2
  <2>2. /\ b \in Seq(S)
        /\ Len(b) = IF h + 1 <= n + 1 THEN n + 1 - (h + 1) + 1 ELSE 0
        /\ \A i \in 1 .. n + 1 - (h + 1) + 1 : b[i] = t[h + 1 + i - 1]
    BY <2>1, SubSeqProperties
  <2>3. h \in Int /\ h + 1 <= n + 1 /\ n + 1 - (h + 1) + 1 = n + 1 - h
    BY <1>1
  <2> HIDE DEF b
  <2>4. Len(b) = n + 1 - h /\ DOMAIN b = 1 .. n + 1 - h
    BY <2>2, <2>3
  <2>5. \A i \in 1 .. n + 1 - h : h + 1 + i - 1 = h + i
    BY <2>3
  <2>6. \A i \in 1 .. n + 1 - h : b[i] = t[h + i]
    BY <2>2, <2>3, <2>5
  <2> QED BY <2>2, <2>4, <2>6
<1> HIDE DEF a, b
<1>5. Increasing(a)
  BY <1>1, <1>2, <1>3 DEF Increasing
<1>6. Increasing(b)
  <2>1. ASSUME NEW i \in 1 .. n + 1 - h, NEW j \in 1 .. n + 1 - h, i < j
        PROVE  b[i].key < b[j].key
    <3>1. h + i \in DOMAIN t /\ h + j \in DOMAIN t /\ h + i < h + j
      BY <1>1, <1>2, <2>1
    <3>2. b[i] = t[h + i] /\ b[j] = t[h + j]
      BY <1>4
    <3> QED BY <3>1, <3>2 DEF Increasing
  <2> QED BY <1>4, <2>1 DEF Increasing
<1>7. ToSet(a) = {t[i] : i \in 1 .. h}
  BY <1>3 DEF ToSet
<1>8. ToSet(b) = {t[i] : i \in h + 1 .. n + 1}
  <2>1. ToSet(b) = {b[i] : i \in 1 .. n + 1 - h}
    BY <1>4 DEF ToSet
  <2>2. \A i \in 1 .. n + 1 - h : h + i \in h + 1 .. n + 1 /\ b[i] = t[h + i]
    BY <1>1, <1>4
  <2>3. \A i \in h + 1 .. n + 1 :
          i - h \in 1 .. n + 1 - h /\ h + (i - h) = i /\ b[i - h] = t[h + (i - h)]
    BY <1>1, <1>4
  <2> DEFINE B == 1 .. n + 1 - h
             T == h + 1 .. n + 1
  <2>4. \A i \in B : \E j \in T : b[i] = t[j]
    BY <2>2
  <2>5. \A j \in T : \E i \in B : b[i] = t[j]
    BY <2>3
  <2> HIDE DEF B, T
  <2>6. {b[i] : i \in B} = {t[j] : j \in T}
    BY <2>4, <2>5
  <2> QED BY <2>1, <2>6 DEF B, T
<1>9. ToSet(t) = {t[i] : i \in 1 .. n + 1}
  BY <1>2 DEF ToSet
<1>10. ToSet(a) \union ToSet(b) = ToSet(t)
  BY <1>1, <1>7, <1>8, <1>9
<1>11. ASSUME NEW x \in ToSet(a), NEW y \in ToSet(b) PROVE x.key < y.key
  <2>1. PICK i \in 1 .. h : x = t[i]
    BY <1>7
  <2>2. PICK j \in h + 1 .. n + 1 : y = t[j]
    BY <1>8
  <2>3. i \in DOMAIN t /\ j \in DOMAIN t /\ i < j
    BY <1>1, <1>2
  <2> QED BY <2>1, <2>2, <2>3 DEF Increasing
<1> QED BY <1>1, <1>3, <1>4, <1>5, <1>6, <1>10, <1>11 DEF a, b, h

(* The key of the last row of a node, its max_value, is the largest. *)
LEMMA LastIsLargest ==
  ASSUME NEW S, \A e \in S : e.key \in Int, NEW s \in Seq(S), s # <<>>, Increasing(s)
  PROVE  /\ Last(s) \in ToSet(s)
         /\ Last(s) \in S
         /\ \A e \in ToSet(s) : e \in S /\ e.key <= Last(s).key
<1>1. /\ DOMAIN s = 1 .. Len(s) /\ Len(s) \in Nat /\ Len(s) >= 1
      /\ \A i \in 1 .. Len(s) : s[i] \in S /\ s[i].key \in Int
  OBVIOUS
<1>2. Last(s) = s[Len(s)] /\ ToSet(s) = {s[i] : i \in 1 .. Len(s)}
  BY <1>1 DEF Last, ToSet
<1>3. Len(s) \in 1 .. Len(s)
  BY <1>1
<1>4. \A i \in 1 .. Len(s) : s[i].key <= s[Len(s)].key
  BY <1>1, <1>3 DEF Increasing
<1> QED BY <1>1, <1>2, <1>3, <1>4

(* Two entries of the same key are the same entry. *)
LEMMA KeysAreDistinct ==
  ASSUME NEW S, \A e \in S : e.key \in Int, NEW s \in Seq(S), Increasing(s)
  PROVE  /\ \A i, j \in DOMAIN s : s[i].key = s[j].key => i = j
         /\ \A e, f \in ToSet(s) : e.key = f.key => e = f
<1>1. DOMAIN s = 1 .. Len(s) /\ \A i \in 1 .. Len(s) : s[i].key \in Int
  OBVIOUS
<1>2. ASSUME NEW i \in DOMAIN s, NEW j \in DOMAIN s, s[i].key = s[j].key
      PROVE  i = j
  <2>1. ~(i < j) /\ ~(j < i)
    BY <1>1, <1>2 DEF Increasing
  <2> QED BY <1>1, <2>1
<1> QED BY <1>2 DEF ToSet

-----------------------------------------------------------------------------
Links == [key : Int, pos : Int]

(* Every entry has a key to be ordered by. *)
LEMMA EntriesHaveKeys == \A e \in Links : e.key \in Int
BY DEF Links

(* set s with the elements of t for its element e *)
Exchanged(s, e, t) == (s \ {e}) \union t

(* the children Update leaves a node with *)
KidsRenamed(node, child) ==
  LET i == SelectInSeq(node.kids, LAMBDA e : e.key = child.old)
      kids == IF i = 0 THEN node.kids
              ELSE [node.kids EXCEPT ![i].key = child.max]
  IN  IF child.max = child.old THEN kids ELSE SortByKey(kids)

(* Update is a change of the children, and of max_value with them. *)
LEMMA UpdateIsRenamed ==
  ASSUME NEW node, NEW child
  PROVE  Update(node, child) = WithKids(node, KidsRenamed(node, child))
BY DEF Update, KidsRenamed

(* Update renames one entry and leaves the others. *)
LEMMA UpdateRenames ==
  ASSUME NEW node, NEW child, NEW p,
         node.kids \in Seq(Links), Increasing(node.kids),
         child.max \in Int, child.old \in Int,
         Entry(child.old, p) \in ToSet(node.kids),
         \A e \in ToSet(node.kids) : e.key = child.max => e.key = child.old
  PROVE  /\ KidsRenamed(node, child) \in Seq(Links)
         /\ Len(KidsRenamed(node, child)) = Len(node.kids)
         /\ Increasing(KidsRenamed(node, child))
         /\ ToSet(KidsRenamed(node, child)) =
              Exchanged(ToSet(node.kids), Entry(child.old, p), {Entry(child.max, p)})
<1> DEFINE s == node.kids
           D == DOMAIN s
<1>1. PICK j \in D : s[j] = Entry(child.old, p)
  BY DEF ToSet
<1> DEFINE u == [s EXCEPT ![j].key = child.max]
<1>2. /\ D = 1 .. Len(s)
      /\ \A i \in D : s[i] \in Links /\ s[i].key \in Int
      /\ s[j].key = child.old /\ s[j].pos = p
  <2>1. \A i \in D : s[i] \in Links
    OBVIOUS
  <2>2. s[j].key = child.old /\ s[j].pos = p
    BY <1>1 DEF Entry
  <2> QED BY <2>1, <2>2, EntriesHaveKeys
<1>3. \A i \in D : s[i].key = child.old => i = j
  BY <1>2, EntriesHaveKeys, KeysAreDistinct
<1>4. SelectInSeq(s, LAMBDA e : e.key = child.old) = j
  BY <1>1, <1>2, <1>3, KeyIsFound
<1>5. j # 0
  BY <1>2
<1>6. KidsRenamed(node, child) = IF child.max = child.old THEN u ELSE SortByKey(u)
  BY <1>4, <1>5 DEF KidsRenamed
<1>7. p \in Int
  BY <1>2 DEF Links
<1>8. /\ u \in Seq(Links) /\ Len(u) = Len(s) /\ DOMAIN u = D
      /\ \A i \in D : u[i] = IF i = j THEN Entry(child.max, p) ELSE s[i]
  <2>1. u = [i \in D |-> IF i = j THEN [s[j] EXCEPT !.key = child.max] ELSE s[i]]
    OBVIOUS
  <2>2. [s[j] EXCEPT !.key = child.max] = Entry(child.max, p)
    BY <1>1 DEF Entry
  <2>3. Entry(child.max, p) \in Links
    BY <1>7 DEF Entry, Links
  <2> HIDE DEF u
  <2> QED BY <1>2, <2>1, <2>2, <2>3
<1> HIDE DEF u
<1>9. ToSet(u) = Exchanged(ToSet(s), Entry(child.old, p), {Entry(child.max, p)})
  <2>1. ToSet(u) = {u[i] : i \in D}
    BY <1>8 DEF ToSet
  <2>2. ToSet(s) = {s[i] : i \in D}
    BY DEF ToSet
  <2>3. \A i \in D : i # j => s[i] # Entry(child.old, p)
    BY <1>3 DEF Entry
  <2> HIDE DEF D, s
  <2> QED BY <1>1, <1>8, <2>1, <2>2, <2>3 DEF Exchanged
<1>10. \A i \in D : i # j => s[i].key # child.max
  <2>1. \A i \in D : s[i] \in ToSet(s)
    BY DEF ToSet
  <2> QED BY <1>3, <2>1
<1>11. \A i \in D : u[i].key = IF i = j THEN child.max ELSE s[i].key
  BY <1>8 DEF Entry
<1>12. CASE child.max = child.old
  <2>1. \A i \in D : u[i].key = s[i].key
    BY <1>2, <1>11, <1>12
  <2>2. Increasing(u)
    BY <1>8, <2>1 DEF Increasing
  <2> QED BY <1>6, <1>8, <1>9, <1>12, <2>2
<1>13. CASE child.max # child.old
  <2>1. \A i, k \in DOMAIN u : u[i].key = u[k].key => i = k
    <3>1. \A i, k \in D : s[i].key = s[k].key => i = k
      BY EntriesHaveKeys, KeysAreDistinct
    <3> QED BY <1>8, <1>10, <1>11, <3>1
  <2>2. /\ SortByKey(u) \in Seq(Links)
        /\ Len(SortByKey(u)) = Len(u)
        /\ ToSet(SortByKey(u)) = ToSet(u)
        /\ Increasing(SortByKey(u))
    BY <1>8, <2>1, EntriesHaveKeys, SortByKeySorts
  <2> QED BY <1>6, <1>8, <1>9, <1>13, <2>2
<1> QED BY <1>12, <1>13

(* Append and sort: the entry is added, the others stay. *)
LEMMA AddedInOrder ==
  ASSUME NEW s \in Seq(Links), Increasing(s), NEW e \in Links,
         \A f \in ToSet(s) : f.key # e.key
  PROVE  LET t == SortByKey(Append(s, e)) IN
         /\ t \in Seq(Links)
         /\ Len(t) = Len(s) + 1
         /\ Increasing(t)
         /\ ToSet(t) = ToSet(s) \union {e}
<1> DEFINE u == Append(s, e)
<1>1. /\ u \in Seq(Links) /\ Len(u) = Len(s) + 1 /\ DOMAIN u = 1 .. Len(s) + 1
      /\ DOMAIN s = 1 .. Len(s) /\ Len(s) \in Nat
      /\ \A i \in 1 .. Len(s) : u[i] = s[i]
      /\ u[Len(s) + 1] = e
  OBVIOUS
<1> HIDE DEF u
<1>2. ToSet(u) = ToSet(s) \union {e}
  <2>1. \A i \in 1 .. Len(s) + 1 : i \in 1 .. Len(s) \/ i = Len(s) + 1
    BY <1>1
  <2>2. \A i \in 1 .. Len(s) : i \in 1 .. Len(s) + 1
    BY <1>1
  <2>3. Len(s) + 1 \in 1 .. Len(s) + 1
    BY <1>1
  <2> QED BY <1>1, <2>1, <2>2, <2>3 DEF ToSet
<1>3. \A i, j \in DOMAIN u : u[i].key = u[j].key => i = j
  <2>1. \A i \in 1 .. Len(s) : s[i] \in ToSet(s)
    BY <1>1 DEF ToSet
  <2>2. \A i, j \in 1 .. Len(s) : s[i].key = s[j].key => i = j
    BY <1>1, EntriesHaveKeys, KeysAreDistinct
  <2> QED BY <1>1, <2>1, <2>2
<1>4. /\ SortByKey(u) \in Seq(Links)
      /\ Len(SortByKey(u)) = Len(u)
      /\ ToSet(SortByKey(u)) = ToSet(u)
      /\ Increasing(SortByKey(u))
  BY <1>1, <1>3, EntriesHaveKeys, SortByKeySorts
<1> QED BY <1>1, <1>2, <1>4 DEF u

Pairs == [key : Int, val : Values]
Mids == [kids : Seq(Links), max : Int, old : Int, pos : Int]
Leafs == [arr : Seq(Pairs), max : Int, old : Int, pos : Int]

(* what a node holds *)
Rows(n) == IF "kids" \in DOMAIN n THEN n.kids ELSE n.arr
KeysIn(n) == {e.key : e \in ToSet(Rows(n))}

(* max_value is the key of the last row, the rows are in order *)
Tidy(n) == Rows(n) # <<>> /\ Increasing(Rows(n)) /\ n.max = Last(Rows(n)).key
IsMid(n) == n \in Mids /\ Tidy(n) /\ Len(n.kids) <= P2
IsLeaf(n) == n \in Leafs /\ Tidy(n) /\ Len(n.arr) <= C

Name(n) == Entry(n.max, n.pos)
Names(nodes) == {Name(n) : n \in nodes}

(* all that the nodes of a set hold *)
AllRows(nodes) == UNION {ToSet(Rows(n)) : n \in nodes}

(* what an operation on a node of at most cap rows left of it *)
Both(r) == {r.node} \union r.new
Outcome(r, d, cap) ==
  /\ r.node.old = d.old
  /\ r.node.pos = d.pos
  /\ \/ r.new = {} /\ Len(Rows(r.node)) >= Len(Rows(d))
     \/ \E b : /\ r.new = {b}
               /\ r.node.max < b.max
               /\ \A x \in KeysIn(b) : r.node.max < x
               /\ 2 * Len(Rows(r.node)) >= cap
               /\ 2 * Len(Rows(b)) >= cap

(* Every pair has a key to be ordered by. *)
LEMMA PairsHaveKeys == \A e \in Pairs : e.key \in Int
BY DEF Pairs

(* The rows of a midNode are its children. *)
LEMMA RowsOfMid == \A n \in Mids : Rows(n) = n.kids
BY DEF Mids, Rows

(* The rows of a leafNode are its pairs. *)
LEMMA RowsOfLeaf == \A n \in Leafs : Rows(n) = n.arr
BY DEF Leafs, Rows

(* The id of a leaf is the largest of its keys. *)
LEMMA LeafKeys ==
  ASSUME NEW n, IsLeaf(n)
  PROVE  /\ n.max \in KeysIn(n)
         /\ \A x \in KeysIn(n) : x \in Int /\ x <= n.max
<1>1. n.arr \in Seq(Pairs) /\ Rows(n) = n.arr
  BY RowsOfLeaf DEF IsLeaf, Leafs
<1> QED BY <1>1, PairsHaveKeys, LastIsLargest DEF IsLeaf, Tidy, KeysIn

(* A midNode given children in order is a midNode in order. *)
LEMMA WithKidsIsMid ==
  ASSUME NEW node \in Mids, NEW t \in Seq(Links), t # <<>>, Increasing(t), Len(t) <= P2
  PROVE  LET n == WithKids(node, t) IN
         /\ IsMid(n)
         /\ n.kids = t
         /\ n.max = Last(t).key
         /\ n.old = node.old
         /\ n.pos = node.pos
<1> DEFINE n == WithKids(node, t)
<1>1. Last(t).key \in Int
  BY EntriesHaveKeys, LastIsLargest
<1>2. /\ n \in Mids /\ n.kids = t /\ n.max = Last(t).key
      /\ n.old = node.old /\ n.pos = node.pos
  BY <1>1 DEF WithKids, Mids
<1> HIDE DEF n
<1>3. Rows(n) = t
  BY <1>2, RowsOfMid
<1>4. IsMid(n)
  BY <1>2, <1>3 DEF IsMid, Tidy
<1> QED BY <1>2, <1>4 DEF n

(* A leafNode given pairs in order is a leafNode in order. *)
LEMMA WithArrIsLeaf ==
  ASSUME NEW node \in Leafs, NEW t \in Seq(Pairs), t # <<>>, Increasing(t), Len(t) <= C
  PROVE  LET n == WithArr(node, t) IN
         /\ IsLeaf(n)
         /\ n.arr = t
         /\ n.max = Last(t).key
         /\ n.old = node.old
         /\ n.pos = node.pos
<1> DEFINE n == WithArr(node, t)
<1>1. Last(t).key \in Int
  BY PairsHaveKeys, LastIsLargest
<1>2. /\ n \in Leafs /\ n.arr = t /\ n.max = Last(t).key
      /\ n.old = node.old /\ n.pos = node.pos
  BY <1>1 DEF WithArr, Leafs
<1> HIDE DEF n
<1>3. Rows(n) = t
  BY <1>2, RowsOfLeaf
<1>4. IsLeaf(n)
  BY <1>2, <1>3 DEF IsLeaf, Tidy
<1> QED BY <1>2, <1>4 DEF n

(* midNode::Insert: the entry of the new child is added, and of the P2 + 1 *)
(* entries of a node that splits each part has at least half of P2.        *)
LEMMA MidInsertAdds ==
  ASSUME NEW node \in Mids, Len(node.kids) <= P2, Increasing(node.kids),
         NEW child, child.max \in Int, child.pos \in Int,
         \A e \in ToSet(node.kids) : e.key # child.max
  PROVE  LET g == MidInsert(node, child) IN
         /\ \A n \in Both(g) : IsMid(n)
         /\ Outcome(g, node, P2)
         /\ AllRows(Both(g)) = ToSet(node.kids) \union {Name(child)}
<1> DEFINE g == MidInsert(node, child)
           s == node.kids
           t == SortByKey(Append(s, Name(child)))
           h == (P2 + 1) \div 2
           a == SubSeq(t, 1, h)
           b == SubSeq(t, h + 1, P2 + 1)
<1>1. s \in Seq(Links) /\ Len(s) \in Nat
  BY DEF Mids
<1>2. Name(child) \in Links /\ Name(child).key = child.max
  BY DEF Name, Entry, Links
<1>3. /\ t \in Seq(Links)
      /\ Len(t) = Len(s) + 1
      /\ Increasing(t)
      /\ ToSet(t) = ToSet(s) \union {Name(child)}
  BY <1>1, <1>2, AddedInOrder
<1>4. g = IF Len(s) < P2
            THEN [node |-> WithKids(node, t), new |-> {}]
            ELSE [node |-> WithKids(node, a), new |-> {WithKids(NewMid, b)}]
  BY DEF MidInsert, Name, UpperHalf, Half
<1>5. CASE Len(s) < P2
  <2>1. t # <<>> /\ Len(t) <= P2
    BY <1>1, <1>3, <1>5, NodeSizes
  <2> DEFINE n == WithKids(node, t)
  <2> HIDE DEF t
  <2>2. IsMid(n) /\ n.kids = t /\ n.old = node.old /\ n.pos = node.pos
    BY <1>3, <2>1, WithKidsIsMid
  <2> HIDE DEF n
  <2>3. g.node = n /\ g.new = {} /\ Both(g) = {n}
    BY <1>4, <1>5 DEF n, Both
  <2>4. Rows(n) = t /\ Rows(node) = s
    BY <2>2, RowsOfMid DEF IsMid
  <2>5. Outcome(g, node, P2)
    BY <1>1, <1>3, <2>2, <2>3, <2>4 DEF Outcome
  <2>6. AllRows({n}) = ToSet(t)
    BY <2>4 DEF AllRows
  <2> QED BY <1>3, <2>2, <2>3, <2>5, <2>6
<1>6. CASE ~(Len(s) < P2)
  <2>1. Len(t) = P2 + 1 /\ P2 \in Nat \ {0}
    BY <1>1, <1>3, <1>6, NodeSizes
  <2> HIDE DEF t
  <2>2. /\ a \in Seq(Links) /\ Len(a) \in 1 .. P2 /\ 2 * Len(a) >= P2 /\ Increasing(a)
        /\ b \in Seq(Links) /\ Len(b) \in 1 .. P2 /\ 2 * Len(b) >= P2 /\ Increasing(b)
        /\ ToSet(a) \union ToSet(b) = ToSet(t)
        /\ \A x \in ToSet(a), y \in ToSet(b) : x.key < y.key
    BY <1>3, <2>1, EntriesHaveKeys, SplitInTwo
  <2> HIDE DEF h, a, b
  <2>3. a # <<>> /\ b # <<>> /\ Len(a) <= P2 /\ Len(b) <= P2
    BY <2>2, NodeSizes
  <2>4. NewMid \in Mids
    <3>1. <<>> \in Seq(Links)
      OBVIOUS
    <3> QED BY <3>1 DEF NewMid, Mids, NoKey, Unplaced
  <2> DEFINE n == WithKids(node, a)
             m == WithKids(NewMid, b)
  <2>5. /\ IsMid(n) /\ n.kids = a /\ n.old = node.old /\ n.pos = node.pos
        /\ n.max = Last(a).key
    BY <2>2, <2>3, WithKidsIsMid
  <2>6. IsMid(m) /\ m.kids = b /\ m.max = Last(b).key
    BY <2>2, <2>3, <2>4, WithKidsIsMid
  <2> HIDE DEF n, m
  <2>7. g.node = n /\ g.new = {m} /\ Both(g) = {n, m}
    BY <1>4, <1>6 DEF n, m, Both
  <2>8. Rows(n) = a /\ Rows(m) = b
    BY <2>5, <2>6, RowsOfMid DEF IsMid
  <2>9. Last(a) \in ToSet(a) /\ Last(b) \in ToSet(b)
    BY <2>2, <2>3, EntriesHaveKeys, LastIsLargest
  <2>10. n.max < m.max /\ \A x \in KeysIn(m) : n.max < x
    BY <2>2, <2>5, <2>6, <2>8, <2>9 DEF KeysIn
  <2>11. Outcome(g, node, P2)
    BY <2>2, <2>5, <2>7, <2>8, <2>10 DEF Outcome
  <2>12. AllRows({n, m}) = ToSet(a) \union ToSet(b)
    BY <2>8 DEF AllRows
  <2> QED BY <1>3, <2>2, <2>5, <2>6, <2>7, <2>11, <2>12
<1> QED BY <1>5, <1>6

(* Update when the child c became a *)
LEMMA UpdateExchanges ==
  ASSUME NEW p, p.kids \in Seq(Links), Increasing(p.kids),
         NEW c, Name(c) \in ToSet(p.kids),
         NEW a, a.old = c.max, a.pos = c.pos, a.max \in Int,
         \A e \in ToSet(p.kids) : e # Name(c) => e.key # a.max
  PROVE  /\ KidsRenamed(p, a) \in Seq(Links)
         /\ Len(KidsRenamed(p, a)) = Len(p.kids)
         /\ Increasing(KidsRenamed(p, a))
         /\ ToSet(KidsRenamed(p, a)) = Exchanged(ToSet(p.kids), Name(c), {Name(a)})
<1>1. Name(c) = Entry(a.old, c.pos) /\ Name(c).key = a.old /\ Name(a) = Entry(a.max, c.pos)
  BY DEF Name, Entry
<1>2. a.old \in Int
  <2>1. p.kids # <<>>
    BY DEF ToSet
  <2>2. \A e \in ToSet(p.kids) : e.key \in Int
    BY <2>1, EntriesHaveKeys, LastIsLargest
  <2> QED BY <1>1, <2>2
<1>3. \A e \in ToSet(p.kids) : e.key = a.max => e.key = a.old
  BY <1>1
<1>4. Entry(a.old, c.pos) \in ToSet(p.kids)
  BY <1>1
<1>5. /\ KidsRenamed(p, a) \in Seq(Links)
      /\ Len(KidsRenamed(p, a)) = Len(p.kids)
      /\ Increasing(KidsRenamed(p, a))
      /\ ToSet(KidsRenamed(p, a)) =
           Exchanged(ToSet(p.kids), Entry(a.old, c.pos), {Entry(a.max, c.pos)})
  BY <1>2, <1>3, <1>4, UpdateRenames
<1> QED BY <1>1, <1>5

(* A node whose child c became the nodes of r: the entry of c gives way to *)
(* theirs.                                                                 *)
LEMMA GrowReplaces ==
  ASSUME NEW p, IsMid(p), NEW c, Name(c) \in ToSet(p.kids), c.pos \in Int,
         NEW r, r.node.old = c.max, r.node.pos = c.pos, r.node.max \in Int,
         r.new = {} \/ \E b : /\ r.new = {b}
                              /\ r.node.max < b.max /\ b.max \in Int /\ b.pos \in Int,
         \A e \in ToSet(p.kids) : e # Name(c) => \A n \in Both(r) : e.key # n.max
  PROVE  LET g == Grow(p, r) IN
         /\ \A n \in Both(g) : IsMid(n)
         /\ Outcome(g, p, P2)
         /\ AllRows(Both(g)) = Exchanged(ToSet(p.kids), Name(c), Names(Both(r)))
<1> DEFINE a == r.node
           u == Update(p, a)
           rest == ToSet(p.kids) \ {Name(c)}
<1>1. /\ p \in Mids /\ p.kids \in Seq(Links) /\ Increasing(p.kids) /\ p.kids # <<>>
      /\ Len(p.kids) \in 1 .. P2 /\ Rows(p) = p.kids
  BY NodeSizes, RowsOfMid DEF IsMid, Tidy, Mids
<1>2. /\ a \in Both(r) /\ a.old = c.max /\ a.pos = c.pos /\ a.max \in Int
      /\ \A e \in ToSet(p.kids) : e # Name(c) => e.key # a.max
  BY DEF Both
<1> DEFINE t == KidsRenamed(p, a)
<1>5. /\ t \in Seq(Links)
      /\ u = WithKids(p, t)
      /\ Len(t) = Len(p.kids)
      /\ Increasing(t)
      /\ ToSet(t) = rest \union {Name(a)}
  <2>1. /\ t \in Seq(Links)
        /\ Len(t) = Len(p.kids)
        /\ Increasing(t)
        /\ ToSet(t) = Exchanged(ToSet(p.kids), Name(c), {Name(a)})
    <3> HIDE DEF a
    <3> QED BY <1>1, <1>2, UpdateExchanges
  <2> QED BY <2>1, UpdateIsRenamed DEF Exchanged
<1> HIDE DEF t
<1>7. t # <<>> /\ Len(t) <= P2
  BY <1>1, <1>5
<1> HIDE DEF u, rest
<1>8. /\ IsMid(u) /\ u.kids = t /\ u.old = p.old /\ u.pos = p.pos
      /\ u \in Mids /\ Rows(u) = t
  <2>1. IsMid(u) /\ u.kids = t /\ u.old = p.old /\ u.pos = p.pos
    BY <1>1, <1>5, <1>7, WithKidsIsMid
  <2> QED BY <2>1, RowsOfMid DEF IsMid
<1>9. CASE r.new = {}
  <2> DEFINE g == Grow(p, r)
  <2>1. g.node = u /\ g.new = {} /\ Both(g) = {u} /\ Both(r) = {a}
    BY <1>9 DEF Grow, Both, u
  <2> HIDE DEF g
  <2>2. Outcome(g, p, P2)
    BY <1>1, <1>5, <1>8, <2>1 DEF Outcome
  <2>3. AllRows(Both(g)) = ToSet(t)
    BY <1>8, <2>1 DEF AllRows
  <2>4. Names(Both(r)) = {Name(a)}
    BY <2>1 DEF Names
  <2> QED BY <1>5, <1>8, <2>1, <2>2, <2>3, <2>4 DEF g, rest, Exchanged
<1>10. CASE r.new # {}
  <2>1. PICK b : /\ r.new = {b}
                 /\ a.max < b.max /\ b.max \in Int /\ b.pos \in Int
    BY <1>10
  <2> DEFINE g == MidInsert(u, b)
  <2>2. Grow(p, r) = g /\ Both(r) = {a, b}
    BY <2>1 DEF Grow, Both, u
  <2>3. \A e \in ToSet(u.kids) : e.key # b.max
    <3>1. \A e \in rest : e.key # b.max
      BY <2>2 DEF rest
    <3>2. Name(a).key # b.max
      BY <2>1 DEF Name, Entry
    <3> QED BY <1>5, <1>8, <3>1, <3>2
  <2>4. /\ \A n \in Both(g) : IsMid(n)
        /\ Outcome(g, u, P2)
        /\ AllRows(Both(g)) = ToSet(u.kids) \union {Name(b)}
    <3>1. Increasing(u.kids) /\ Len(u.kids) <= P2
      BY <1>5, <1>7, <1>8
    <3> QED BY <1>8, <2>1, <2>3, <3>1, MidInsertAdds
  <2> HIDE DEF g
  <2>5. Outcome(g, p, P2)
    <3>1. Len(Rows(u)) = Len(Rows(p))
      BY <1>1, <1>5, <1>8
    <3> QED BY <1>8, <2>4, <3>1 DEF Outcome
  <2>6. Names(Both(r)) = {Name(a), Name(b)}
    BY <2>2 DEF Names
  <2> QED BY <1>5, <1>8, <2>2, <2>4, <2>5, <2>6 DEF rest, Exchanged
<1> QED BY <1>9, <1>10

Roots == [kids : Seq(Links), max : Int]

(* rootNode::Update and then rootNode::Insert *)
LEMMA RootReplaces ==
  ASSUME NEW p \in Roots, p.kids # <<>>, Increasing(p.kids),
         NEW c, Name(c) \in ToSet(p.kids), c.pos \in Int,
         NEW r, r.node.old = c.max, r.node.pos = c.pos, r.node.max \in Int,
         r.new = {} \/ \E b : /\ r.new = {b}
                              /\ r.node.max < b.max /\ b.max \in Int /\ b.pos \in Int,
         \A e \in ToSet(p.kids) : e # Name(c) => \A n \in Both(r) : e.key # n.max
  PROVE  LET u == Update(p, r.node)
             g == RootInsert(u, r.new)
         IN  /\ Len(u.kids) = Len(p.kids)
             /\ g \in Roots /\ g.kids # <<>> /\ Increasing(g.kids)
             /\ g.max = Last(g.kids).key
             /\ r.new # {} => Len(g.kids) = Len(p.kids) + 1
             /\ ToSet(g.kids) = Exchanged(ToSet(p.kids), Name(c), Names(Both(r)))
<1> DEFINE a == r.node
           u == Update(p, a)
           g == RootInsert(u, r.new)
           rest == ToSet(p.kids) \ {Name(c)}
<1>1. p.kids \in Seq(Links) /\ Len(p.kids) \in Nat /\ Len(p.kids) > 0
  BY DEF Roots
<1>2. /\ a \in Both(r) /\ a.old = c.max /\ a.pos = c.pos /\ a.max \in Int
      /\ \A e \in ToSet(p.kids) : e # Name(c) => e.key # a.max
  BY DEF Both
<1> DEFINE t == KidsRenamed(p, a)
<1>5. /\ t \in Seq(Links)
      /\ u = WithKids(p, t)
      /\ Len(t) = Len(p.kids)
      /\ Increasing(t)
      /\ ToSet(t) = rest \union {Name(a)}
  <2>1. /\ t \in Seq(Links)
        /\ Len(t) = Len(p.kids)
        /\ Increasing(t)
        /\ ToSet(t) = Exchanged(ToSet(p.kids), Name(c), {Name(a)})
    <3> HIDE DEF a
    <3> QED BY <1>1, <1>2, UpdateExchanges
  <2> QED BY <2>1, UpdateIsRenamed DEF Exchanged
<1> HIDE DEF t
<1>7. ASSUME NEW q \in Roots, NEW s \in Seq(Links), s # <<>>, Increasing(s)
      PROVE  /\ WithKids(q, s) \in Roots
             /\ WithKids(q, s).kids = s
             /\ WithKids(q, s).max = Last(s).key
  <2>1. Last(s).key \in Int
    BY <1>7, EntriesHaveKeys, LastIsLargest
  <2> QED BY <2>1 DEF WithKids, Roots
<1>8. u \in Roots /\ u.kids = t /\ u.max = Last(t).key
  <2>1. t # <<>>
    BY <1>1, <1>5
  <2> QED BY <1>5, <1>7, <2>1
<1> HIDE DEF u, rest
<1>9. CASE r.new = {}
  <2>1. g = u /\ Both(r) = {a} /\ Increasing(u.kids)
    BY <1>5, <1>8, <1>9 DEF RootInsert, Both
  <2>2. Names(Both(r)) = {Name(a)}
    BY <2>1 DEF Names
  <2> HIDE DEF g
  <2>3. Len(u.kids) = Len(p.kids) /\ Len(g.kids) = Len(p.kids)
    BY <1>5, <1>8, <2>1
  <2>4. ToSet(g.kids) = rest \union Names(Both(r))
    BY <1>5, <1>8, <2>1, <2>2
  <2>5. u \in Roots /\ u.max = Last(u.kids).key
    BY <1>8
  <2>6. g.kids # <<>>
    BY <1>1, <1>5, <1>8, <2>1
  <2>7. ToSet(g.kids) = Exchanged(ToSet(p.kids), Name(c), Names(Both(r)))
    BY <2>4 DEF rest, Exchanged
  <2> QED BY <1>9, <2>1, <2>3, <2>5, <2>6, <2>7 DEF g, u
<1>10. CASE r.new # {}
  <2>1. PICK b : /\ r.new = {b}
                 /\ a.max < b.max /\ b.max \in Int /\ b.pos \in Int
    BY <1>10
  <2> DEFINE s == SortByKey(Append(t, Name(b)))
  <2>2. g = WithKids(u, s) /\ Both(r) = {a, b}
    BY <1>8, <2>1 DEF RootInsert, Both, Name
  <2>3. \A e \in ToSet(t) : e.key # b.max
    <3>1. \A e \in rest : e.key # b.max
      BY <2>2 DEF rest
    <3>2. Name(a).key # b.max
      BY <2>1 DEF Name, Entry
    <3> QED BY <1>5, <3>1, <3>2
  <2>4. Name(b) \in Links /\ Name(b).key = b.max
    BY <2>1 DEF Name, Entry, Links
  <2>5. /\ s \in Seq(Links) /\ Len(s) = Len(t) + 1 /\ Increasing(s)
        /\ ToSet(s) = ToSet(t) \union {Name(b)}
    BY <1>5, <2>3, <2>4, AddedInOrder
  <2> HIDE DEF s
  <2>6. s # <<>>
    BY <1>1, <1>5, <2>5
  <2>7. g \in Roots /\ g.kids = s /\ g.max = Last(s).key
    BY <1>7, <1>8, <2>2, <2>5, <2>6
  <2>8. Names(Both(r)) = {Name(a), Name(b)}
    BY <2>2 DEF Names
  <2> HIDE DEF g
  <2>9. Len(u.kids) = Len(p.kids) /\ Len(g.kids) = Len(p.kids) + 1
    BY <1>1, <1>5, <1>8, <2>5, <2>7
  <2>10. ToSet(g.kids) = rest \union Names(Both(r))
    BY <1>5, <2>5, <2>7, <2>8
  <2> QED BY <1>10, <2>5, <2>6, <2>7, <2>9, <2>10 DEF g, u, rest, Exchanged
<1> QED BY <1>9, <1>10

(* pairs with k's value v *)
Having(pairs, k, v) == {p \in pairs : p.key # k} \union {Pair(k, v)}

(* u is s with e put at i, between smaller and larger keys *)
PutAt(s, u, i, e) ==
  /\ i \in 1 .. Len(s) + 1
  /\ Len(u) = Len(s) + 1
  /\ u[i] = e
  /\ \A j \in 1 .. i - 1 : u[j] = s[j] /\ s[j].key < e.key
  /\ \A j \in i .. Len(s) : u[j + 1] = s[j] /\ e.key < s[j].key

(* A pair put between the keys below its own and those above it leaves the *)
(* pairs in order.                                                         *)
LEMMA PutInOrder ==
  ASSUME NEW s \in Seq(Pairs), Increasing(s), NEW u \in Seq(Pairs), NEW e \in Pairs,
         NEW i, PutAt(s, u, i, e)
  PROVE  Increasing(u) /\ ToSet(u) = ToSet(s) \union {e}
<1> USE DEF PutAt
<1>1. /\ DOMAIN s = 1 .. Len(s) /\ DOMAIN u = 1 .. Len(s) + 1 /\ Len(s) \in Nat
      /\ \A j \in 1 .. Len(s) : s[j].key \in Int
      /\ e.key \in Int /\ i \in Int
  BY PairsHaveKeys
<1>2. \A j \in i + 1 .. Len(s) + 1 : u[j] = s[j - 1] /\ e.key < s[j - 1].key
  <2> TAKE j \in i + 1 .. Len(s) + 1
  <2>1. j - 1 \in i .. Len(s) /\ (j - 1) + 1 = j
    BY <1>1
  <2> QED BY <2>1
<1>3. ASSUME NEW j \in 1 .. Len(s) + 1, NEW l \in 1 .. Len(s) + 1, j < l
      PROVE  u[j].key < u[l].key
  <2>1. CASE l < i
    <3>1. u[j] = s[j] /\ u[l] = s[l] /\ j \in DOMAIN s /\ l \in DOMAIN s
      BY <1>1, <1>3, <2>1
    <3> QED BY <1>3, <3>1 DEF Increasing
  <2>2. CASE l = i
    BY <1>1, <1>3, <2>2
  <2>3. CASE j = i
    <3>1. l \in i + 1 .. Len(s) + 1
      BY <1>1, <1>3, <2>3
    <3> QED BY <1>2, <2>3, <3>1
  <2>4. CASE j < i /\ i < l
    <3>1. u[j] = s[j] /\ s[j].key < e.key /\ u[l] = s[l - 1] /\ e.key < s[l - 1].key
      BY <1>2, <2>4
    <3>2. s[j].key \in Int /\ s[l - 1].key \in Int
      BY <1>1, <2>4
    <3> QED BY <1>1, <3>1, <3>2
  <2>5. CASE i < j
    <3>1. u[j] = s[j - 1] /\ u[l] = s[l - 1]
      <4>1. j \in i + 1 .. Len(s) + 1 /\ l \in i + 1 .. Len(s) + 1
        BY <1>1, <1>3, <2>5
      <4> QED BY <1>2, <4>1
    <3>2. j - 1 \in DOMAIN s /\ l - 1 \in DOMAIN s /\ j - 1 < l - 1
      BY <1>1, <1>3, <2>5
    <3> QED BY <3>1, <3>2 DEF Increasing
  <2> QED BY <1>3, <2>1, <2>2, <2>3, <2>4, <2>5
<1>4. ToSet(u) = ToSet(s) \union {e}
  <2>1. ToSet(u) = {u[j] : j \in 1 .. Len(s) + 1} /\ ToSet(s) = {s[j] : j \in 1 .. Len(s)}
    BY <1>1 DEF ToSet
  <2>2. ASSUME NEW j \in 1 .. Len(s) + 1 PROVE u[j] = e \/ \E l \in 1 .. Len(s) : u[j] = s[l]
    <3>1. CASE j < i
      BY <3>1
    <3>2. CASE i < j
      <4>1. u[j] = s[j - 1] /\ j - 1 \in 1 .. Len(s)
        BY <1>1, <1>2, <3>2
      <4> QED BY <4>1
    <3> QED BY <3>1, <3>2
  <2>3. ASSUME NEW l \in 1 .. Len(s) PROVE \E j \in 1 .. Len(s) + 1 : u[j] = s[l]
    <3>1. CASE l < i
      BY <3>1
    <3>2. CASE ~(l < i)
      <4>1. l + 1 \in 1 .. Len(s) + 1 /\ u[l + 1] = s[l]
        BY <1>1, <3>2
      <4> QED BY <4>1
    <3> QED BY <3>1, <3>2
  <2> QED BY <2>1, <2>2, <2>3
<1> QED BY <1>1, <1>3, <1>4 DEF Increasing

(* A pair written over one of its key. *)
LEMMA OverwrittenHas ==
  ASSUME NEW d, IsLeaf(d), NEW k, NEW v \in Values,
         NEW i \in DOMAIN d.arr, d.arr[i].key = k
  PROVE  LET n == Overwritten(d, i, v) IN
         /\ IsLeaf(n) /\ n.old = d.old /\ n.pos = d.pos
         /\ Len(n.arr) = Len(d.arr)
         /\ ToSet(n.arr) = Having(ToSet(d.arr), k, v)
<1> DEFINE s == d.arr
           u == [s EXCEPT ![i].val = v]
           n == Overwritten(d, i, v)
<1>1. /\ s \in Seq(Pairs) /\ Increasing(s) /\ s # <<>> /\ d.max = Last(s).key
      /\ Len(s) <= C /\ d \in Leafs
      /\ DOMAIN s = 1 .. Len(s) /\ Len(s) \in Nat
      /\ \A j \in DOMAIN s : s[j] \in Pairs
  <2>1. s \in Seq(Pairs)
    BY DEF IsLeaf, Leafs
  <2> QED BY <2>1, RowsOfLeaf DEF IsLeaf, Tidy
<1>2. [s[i] EXCEPT !.val = v] = Pair(k, v) /\ Pair(k, v) \in Pairs /\ Pair(k, v).key = k
  <2>1. s[i] \in Pairs /\ s[i].key = k
    BY <1>1
  <2> QED BY <2>1 DEF Pairs, Pair
<1>3. /\ u \in Seq(Pairs) /\ Len(u) = Len(s) /\ DOMAIN u = DOMAIN s
      /\ \A j \in DOMAIN s : u[j] = IF j = i THEN Pair(k, v) ELSE s[j]
  <2>1. u = [j \in DOMAIN s |-> IF j = i THEN Pair(k, v) ELSE s[j]]
    BY <1>2
  <2> HIDE DEF u
  <2> QED BY <1>1, <1>2, <2>1
<1>4. n = [d EXCEPT !.arr = u]
  BY DEF Overwritten
<1>5. n \in Leafs /\ n.arr = u /\ n.max = d.max /\ n.old = d.old /\ n.pos = d.pos
  <2> HIDE DEF u, n
  <2> QED BY <1>1, <1>3, <1>4 DEF Leafs
<1> HIDE DEF u, n
<1>6. \A j \in DOMAIN s : u[j].key = s[j].key
  BY <1>2, <1>3
<1>7. Increasing(u)
  BY <1>1, <1>3, <1>6 DEF Increasing
<1>8. Last(u).key = Last(s).key
  <2>1. Last(u) = u[Len(s)] /\ Last(s) = s[Len(s)] /\ Len(s) \in DOMAIN s
    BY <1>1, <1>3 DEF Last
  <2> QED BY <1>6, <2>1
<1>9. IsLeaf(n)
  <2>1. Rows(n) = u /\ u # <<>>
    BY <1>1, <1>3, <1>5, RowsOfLeaf
  <2> QED BY <1>1, <1>3, <1>5, <1>7, <1>8, <2>1 DEF IsLeaf, Tidy
<1>10. ToSet(u) = Having(ToSet(s), k, v)
  <2>1. \A j \in DOMAIN s : s[j].key = k => j = i
    BY <1>1, PairsHaveKeys, KeysAreDistinct
  <2>2. ToSet(u) = {u[j] : j \in DOMAIN s} /\ ToSet(s) = {s[j] : j \in DOMAIN s}
    BY <1>3 DEF ToSet
  <2>3. u[i] = Pair(k, v)
    BY <1>3
  <2>4. \A j \in DOMAIN s : j # i => u[j] = s[j] /\ s[j].key # k
    BY <1>3, <2>1
  <2>5. \A x : x \in ToSet(u) <=> x = Pair(k, v) \/ (x \in ToSet(s) /\ x.key # k)
    BY <2>2, <2>3, <2>4
  <2> QED BY <2>5 DEF Having
<1> QED BY <1>3, <1>5, <1>9, <1>10 DEF n

(* A pair added where its key was not. *)
LEMMA WithoutKey ==
  ASSUME NEW s, NEW k, NEW v, \A e \in ToSet(s) : e.key # k
  PROVE  ToSet(s) \union {Pair(k, v)} = Having(ToSet(s), k, v)
BY DEF Having

(* leafNode::Insert, where the ends of the leaf are the only places the    *)
(* pair may go to while there is room                                      *)
LEMMA LeafInsertPuts ==
  ASSUME NEW d, IsLeaf(d), NEW k \in Int, NEW v \in Values,
         \/ Len(d.arr) = C
         \/ k <= Head(d.arr).key
         \/ k > Last(d.arr).key
  PROVE  LET g == LeafInsert(d, k, v) IN
         /\ \A n \in Both(g) : IsLeaf(n)
         /\ Outcome(g, d, C)
         /\ AllRows(Both(g)) = Having(ToSet(d.arr), k, v)
<1> DEFINE s == d.arr
           e == Pair(k, v)
           g == LeafInsert(d, k, v)
           i == FirstFrom(s, k)
           full == InsertAt(s, IF i = 0 THEN Len(s) + 1 ELSE i, e)
           h == (C + 1) \div 2
           a == SubSeq(full, 1, h)
           b == SubSeq(full, h + 1, C + 1)
<1>1. /\ s \in Seq(Pairs) /\ Increasing(s) /\ s # <<>> /\ d.max = Last(s).key
      /\ Len(s) <= C /\ d \in Leafs /\ Rows(d) = s
      /\ DOMAIN s = 1 .. Len(s) /\ Len(s) \in Nat /\ Len(s) >= 1
      /\ \A j \in 1 .. Len(s) : s[j] \in Pairs /\ s[j].key \in Int
  <2>1. s \in Seq(Pairs)
    BY DEF IsLeaf, Leafs
  <2>2. \A j \in DOMAIN s : s[j] \in Pairs /\ s[j].key \in Int
    BY <2>1, PairsHaveKeys
  <2> QED BY <2>1, <2>2, RowsOfLeaf DEF IsLeaf, Tidy
<1>2. e \in Pairs /\ e.key = k
  BY DEF Pair, Pairs
<1>3. g = IF Len(s) < C
            THEN [node |-> InsertWithRoom(d, k, v), new |-> {}]
          ELSE IF i # 0 /\ s[i].key = k
            THEN [node |-> Overwritten(d, i, v), new |-> {}]
          ELSE [node |-> WithArr(d, a), new |-> {WithArr(NewLeaf(k, v), b)}]
  BY DEF LeafInsert
<1>4. ASSUME NEW n, g.node = n, g.new = {}, IsLeaf(n), n.old = d.old, n.pos = d.pos,
             Len(n.arr) >= Len(s), ToSet(n.arr) = Having(ToSet(s), k, v)
      PROVE  /\ \A m \in Both(g) : IsLeaf(m)
             /\ Outcome(g, d, C)
             /\ AllRows(Both(g)) = Having(ToSet(s), k, v)
  <2>1. Both(g) = {n} /\ Rows(n) = n.arr
    BY <1>4, RowsOfLeaf DEF Both, IsLeaf
  <2> QED BY <1>1, <1>4, <2>1 DEF Outcome, AllRows
<1>5. CASE Len(s) < C /\ s[1].key = k
  <2> DEFINE n == Overwritten(d, 1, v)
  <2>1. g.node = n /\ g.new = {}
    BY <1>3, <1>5 DEF InsertWithRoom
  <2>2. 1 \in DOMAIN s
    BY <1>1
  <2>3. /\ IsLeaf(n) /\ n.old = d.old /\ n.pos = d.pos
        /\ Len(n.arr) = Len(s)
        /\ ToSet(n.arr) = Having(ToSet(s), k, v)
    BY <1>5, <2>2, OverwrittenHas
  <2> HIDE DEF n
  <2>4. Len(n.arr) >= Len(s)
    BY <1>1, <2>3
  <2> QED BY <1>4, <2>1, <2>3, <2>4
<1>6. ASSUME Len(s) < C, NEW u \in Seq(Pairs), Len(u) = Len(s) + 1, Increasing(u),
             ToSet(u) = ToSet(s) \union {e}, \A x \in ToSet(s) : x.key # k,
             InsertWithRoom(d, k, v) = WithArr(d, u)
      PROVE  /\ \A m \in Both(g) : IsLeaf(m)
             /\ Outcome(g, d, C)
             /\ AllRows(Both(g)) = Having(ToSet(s), k, v)
  <2> DEFINE n == WithArr(d, u)
  <2>1. g.node = n /\ g.new = {}
    BY <1>3, <1>6
  <2>2. u # <<>> /\ Len(u) <= C
    BY <1>1, <1>6, NodeSizes
  <2>3. /\ IsLeaf(n) /\ n.arr = u /\ n.old = d.old /\ n.pos = d.pos
    BY <1>1, <1>6, <2>2, WithArrIsLeaf
  <2>4. ToSet(u) = Having(ToSet(s), k, v)
    BY <1>6, WithoutKey
  <2>5. Len(u) >= Len(s)
    BY <1>1, <1>6
  <2> HIDE DEF n
  <2> QED BY <1>4, <2>1, <2>3, <2>4, <2>5
<1>7. CASE Len(s) < C /\ s[1].key > k
  <2> DEFINE u == <<e>> \o s
  <2>1. /\ u \in Seq(Pairs) /\ Len(u) = Len(s) + 1 /\ u[1] = e
        /\ \A j \in 1 .. Len(s) : u[j + 1] = s[j]
    BY <1>1, <1>2, SMTT(30)
  <2>2. \A j \in 1 .. Len(s) : k < s[j].key
    <3> TAKE j \in 1 .. Len(s)
    <3>1. j = 1 \/ s[1].key < s[j].key
      BY <1>1, SMTT(30) DEF Increasing
    <3> QED BY <1>1, <1>7, <3>1
  <2> HIDE DEF u, e
  <2>3. Increasing(u) /\ ToSet(u) = ToSet(s) \union {e}
    <3>1. PutAt(s, u, 1, e)
      BY <1>1, <1>2, <2>1, <2>2 DEF PutAt
    <3> QED BY <1>1, <1>2, <2>1, <3>1, PutInOrder
  <2>4. \A x \in ToSet(s) : x.key # k
    BY <1>1, <2>2 DEF ToSet
  <2>5. InsertWithRoom(d, k, v) = WithArr(d, u)
    BY <1>1, <1>7 DEF InsertWithRoom, u, e
  <2> QED BY <1>6, <1>7, <2>1, <2>3, <2>4, <2>5
<1>8. CASE Len(s) < C /\ s[1].key < k
  <2> DEFINE u == Append(s, e)
  <2>1. /\ u \in Seq(Pairs) /\ Len(u) = Len(s) + 1 /\ u[Len(s) + 1] = e
        /\ \A j \in 1 .. Len(s) : u[j] = s[j]
    BY <1>1, <1>2
  <2>2. \A j \in 1 .. Len(s) : s[j].key < k
    <3>1. Head(s) = s[1] /\ Last(s) = s[Len(s)]
      BY <1>1 DEF Last
    <3>2. s[Len(s)].key < k
      BY <1>1, <1>8, <3>1
    <3> TAKE j \in 1 .. Len(s)
    <3>3. j = Len(s) \/ s[j].key < s[Len(s)].key
      BY <1>1, SMTT(30) DEF Increasing
    <3> QED BY <1>1, <3>2, <3>3
  <2> HIDE DEF u, e
  <2>3. Increasing(u) /\ ToSet(u) = ToSet(s) \union {e}
    <3>1. PutAt(s, u, Len(s) + 1, e)
      BY <1>1, <1>2, <2>1, <2>2 DEF PutAt
    <3> QED BY <1>1, <1>2, <2>1, <3>1, PutInOrder
  <2>4. \A x \in ToSet(s) : x.key # k
    BY <1>1, <2>2 DEF ToSet
  <2>5. InsertWithRoom(d, k, v) = WithArr(d, u)
    BY <1>1, <1>8 DEF InsertWithRoom, u, e
  <2> QED BY <1>6, <1>8, <2>1, <2>3, <2>4, <2>5
<1>9. /\ i \in 0 .. Len(s)
      /\ i = 0 => \A j \in 1 .. Len(s) : s[j].key < k
      /\ i # 0 => s[i].key >= k /\ \A j \in 1 .. i - 1 : s[j].key < k
  BY <1>1, PairsHaveKeys, FirstFromFinds
<1> HIDE DEF i
<1>10. CASE Len(s) = C /\ i # 0 /\ s[i].key = k
  <2> DEFINE n == Overwritten(d, i, v)
  <2>1. g.node = n /\ g.new = {}
    BY <1>3, <1>10, NodeSizes
  <2>2. i \in DOMAIN s
    BY <1>1, <1>9, <1>10
  <2>3. /\ IsLeaf(n) /\ n.old = d.old /\ n.pos = d.pos
        /\ Len(n.arr) = Len(s)
        /\ ToSet(n.arr) = Having(ToSet(s), k, v)
    BY <1>10, <2>2, OverwrittenHas
  <2> HIDE DEF n
  <2>4. Len(n.arr) >= Len(s)
    BY <1>1, <2>3
  <2> QED BY <1>4, <2>1, <2>3, <2>4
<1>11. CASE Len(s) = C /\ ~(i # 0 /\ s[i].key = k)
  <2> DEFINE at == IF i = 0 THEN Len(s) + 1 ELSE i
  <2>1. /\ at \in 1 .. Len(s) + 1
        /\ \A j \in 1 .. at - 1 : s[j].key < k
    BY <1>1, <1>9
  <2>2. \A j \in at .. Len(s) : k < s[j].key
    <3> SUFFICES ASSUME NEW j \in at .. Len(s) PROVE k < s[j].key
      OBVIOUS
    <3>1. i # 0 /\ i \in 1 .. Len(s) /\ j \in 1 .. Len(s) /\ i <= j
      BY <1>1, <1>9, <2>1
    <3>2. k < s[i].key
      BY <1>1, <1>9, <1>11, <3>1
    <3>3. i = j \/ s[i].key < s[j].key
      BY <1>1, <3>1 DEF Increasing
    <3> QED BY <1>1, <3>1, <3>2, <3>3
  <2> HIDE DEF at
  <2>3. full = SubSeq(s, 1, at - 1) \o <<e>> \o SubSeq(s, at, Len(s))
    BY DEF InsertAt, at
  <2> HIDE DEF full, e
  <2>4. /\ full \in Seq(Pairs) /\ Len(full) = Len(s) + 1 /\ full[at] = e
        /\ \A j \in 1 .. at - 1 : full[j] = s[j]
        /\ \A j \in at .. Len(s) : full[j + 1] = s[j]
    <3> DEFINE x == SubSeq(s, 1, at - 1)
               y == SubSeq(s, at, Len(s))
    <3>1. /\ x \in Seq(Pairs) /\ Len(x) = at - 1
          /\ \A j \in 1 .. at - 1 : x[j] = s[j]
      <4>1. 1 \in Int /\ at - 1 \in Int /\ \A j \in 1 .. at - 1 : s[j] \in Pairs
        BY <1>1, <2>1
      <4>2. /\ x \in Seq(Pairs)
            /\ Len(x) = IF 1 <= at - 1 THEN at - 1 - 1 + 1 ELSE 0
            /\ \A j \in 1 .. at - 1 - 1 + 1 : x[j] = s[1 + j - 1]
        BY <4>1, SubSeqProperties
      <4> HIDE DEF x
      <4> QED BY <1>1, <2>1, <4>2
    <3>2. /\ y \in Seq(Pairs) /\ Len(y) = Len(s) - at + 1
          /\ \A j \in at .. Len(s) : y[j - at + 1] = s[j]
      <4>1. at \in Int /\ Len(s) \in Int /\ \A j \in at .. Len(s) : s[j] \in Pairs
        BY <1>1, <2>1
      <4>2. /\ y \in Seq(Pairs)
            /\ Len(y) = IF at <= Len(s) THEN Len(s) - at + 1 ELSE 0
            /\ \A j \in 1 .. Len(s) - at + 1 : y[j] = s[at + j - 1]
        BY <4>1, SubSeqProperties
      <4> HIDE DEF y
      <4>3. \A j \in at .. Len(s) : j - at + 1 \in 1 .. Len(s) - at + 1 /\ at + (j - at + 1) - 1 = j
        <5>1. at \in Int /\ Len(s) \in Int
          BY <1>1, <2>1
        <5> HIDE DEF s
        <5> QED BY <5>1
      <4> QED BY <1>1, <2>1, <4>2, <4>3
    <3> HIDE DEF x, y
    <3>3. full = x \o <<e>> \o y
      BY <2>3 DEF x, y
    <3>4. \A j \in at .. Len(s) : j + 1 > at /\ j + 1 - at = j - at + 1
      BY <1>1, <2>1
    <3> DEFINE z == <<e>> \o y
    <3>5. z \in Seq(Pairs) /\ Len(z) = Len(s) - at + 2 /\ z[1] = e
      BY <1>1, <1>2, <2>1, <3>2
    <3>6. \A j \in at .. Len(s) : z[j - at + 2] = s[j]
      <4> TAKE j \in at .. Len(s)
      <4>1. j - at + 1 \in 1 .. Len(y) /\ j - at + 2 = j - at + 1 + 1
        BY <1>1, <2>1, <3>2
      <4>2. z[j - at + 1 + 1] = y[j - at + 1]
        BY <1>2, <3>2, <4>1
      <4> QED BY <3>2, <4>1, <4>2
    <3>7. full = x \o z
      BY <1>2, <3>1, <3>2, <3>3, SMTT(30)
    <3> HIDE DEF z
    <3>8. full \in Seq(Pairs) /\ Len(full) = Len(s) + 1
      <4>1. x \o z \in Seq(Pairs) /\ Len(x \o z) = Len(x) + Len(z)
        BY <3>1, <3>5, ConcatProperties
      <4>2. Len(x) + Len(z) = Len(s) + 1
        <5>1. at \in Int /\ Len(s) \in Int
          BY <1>1, <2>1
        <5> QED BY <3>1, <3>5, <5>1
      <4> QED BY <3>7, <4>1, <4>2
    <3>9. full[at] = e
      <4>1. at = at - 1 + 1 /\ 1 \in 1 .. Len(z)
        BY <1>1, <2>1, <3>5
      <4>2. full[at - 1 + 1] = z[1]
        BY <2>1, <3>1, <3>5, <3>7, <4>1
      <4> QED BY <3>5, <4>1, <4>2
    <3>10. \A j \in 1 .. at - 1 : full[j] = s[j]
      BY <2>1, <3>1, <3>5, <3>7
    <3>11. \A j \in at .. Len(s) : full[j + 1] = s[j]
      <4> TAKE j \in at .. Len(s)
      <4>1. j - at + 2 \in 1 .. Len(z) /\ j + 1 = at - 1 + (j - at + 2)
        BY <1>1, <2>1, <3>5
      <4>2. full[at - 1 + (j - at + 2)] = z[j - at + 2]
        BY <2>1, <3>1, <3>5, <3>7, <4>1, SMTT(30)
      <4> QED BY <3>6, <4>1, <4>2
    <3> QED BY <3>8, <3>9, <3>10, <3>11
  <2>5. Increasing(full) /\ ToSet(full) = ToSet(s) \union {e}
    <3>1. PutAt(s, full, at, e)
      BY <1>2, <2>1, <2>2, <2>4 DEF PutAt
    <3> QED BY <1>1, <1>2, <2>4, <3>1, PutInOrder
  <2>6. ToSet(full) = Having(ToSet(s), k, v)
    <3>1. \A j \in 1 .. Len(s) : s[j].key # k
      BY <1>1, <2>1, <2>2
    <3>2. \A x \in ToSet(s) : x.key # k
      BY <1>1, <3>1 DEF ToSet
    <3> QED BY <2>5, <3>2, WithoutKey DEF e
  <2>7. Len(full) = C + 1 /\ C \in Nat \ {0}
    BY <1>11, <2>4, NodeSizes
  <2>8. /\ a \in Seq(Pairs) /\ Len(a) \in 1 .. C /\ 2 * Len(a) >= C /\ Increasing(a)
        /\ b \in Seq(Pairs) /\ Len(b) \in 1 .. C /\ 2 * Len(b) >= C /\ Increasing(b)
        /\ ToSet(a) \union ToSet(b) = ToSet(full)
        /\ \A x \in ToSet(a), y \in ToSet(b) : x.key < y.key
    BY <2>4, <2>5, <2>7, PairsHaveKeys, SplitInTwo
  <2> HIDE DEF h, a, b
  <2>9. a # <<>> /\ b # <<>> /\ Len(a) <= C /\ Len(b) <= C
    BY <2>8, NodeSizes
  <2>10. NewLeaf(k, v) \in Leafs
    <3>1. <<Pair(k, v)>> \in Seq(Pairs)
      BY <1>2 DEF e
    <3> QED BY <3>1 DEF NewLeaf, Leafs, NoKey, Unplaced
  <2> DEFINE n == WithArr(d, a)
             m == WithArr(NewLeaf(k, v), b)
  <2>11. /\ IsLeaf(n) /\ n.arr = a /\ n.old = d.old /\ n.pos = d.pos
         /\ n.max = Last(a).key
    BY <1>1, <2>8, <2>9, WithArrIsLeaf
  <2>12. IsLeaf(m) /\ m.arr = b /\ m.max = Last(b).key
    BY <2>8, <2>9, <2>10, WithArrIsLeaf
  <2> HIDE DEF n, m
  <2>13. g.node = n /\ g.new = {m} /\ Both(g) = {n, m}
    <3>1. ~(Len(s) < C)
      BY <1>1, <1>11
    <3> QED BY <1>3, <1>11, <3>1 DEF n, m, Both
  <2>14. Rows(n) = a /\ Rows(m) = b
    BY <2>11, <2>12, RowsOfLeaf DEF IsLeaf
  <2>15. Last(a) \in ToSet(a) /\ Last(b) \in ToSet(b)
    BY <2>8, <2>9, PairsHaveKeys, LastIsLargest
  <2>16. n.max < m.max /\ \A x \in KeysIn(m) : n.max < x
    BY <2>8, <2>11, <2>12, <2>14, <2>15 DEF KeysIn
  <2>17. Outcome(g, d, C)
    BY <2>8, <2>11, <2>13, <2>14, <2>16 DEF Outcome
  <2>18. AllRows({n, m}) = ToSet(a) \union ToSet(b)
    BY <2>14 DEF AllRows
  <2> QED BY <2>6, <2>8, <2>11, <2>12, <2>13, <2>17, <2>18
<1>12. (Len(s) < C /\ (s[1].key = k \/ s[1].key > k \/ s[1].key < k)) \/ Len(s) = C
  BY <1>1, NodeSizes
<1> QED BY <1>5, <1>7, <1>8, <1>10, <1>11, <1>12

(* max_value is one of the node's keys, and none is above it *)
Keyed(n) == n.max \in KeysIn(n) /\ \A x \in KeysIn(n) : x \in Int /\ x <= n.max

(* all keys of n are above those of m *)
Before(m, n) == \A x \in KeysIn(n) : m.max < x
Apart(nodes) == \A m, n \in nodes : m # n => Before(m, n) \/ Before(n, m)

Crowded(nodes, cap) ==
  (\A m, n \in nodes : m = n) \/ (\A n \in nodes : 2 * Len(Rows(n)) >= cap)

(* the nodes of a layer, of at most cap rows each *)
Layer(nodes, cap) ==
  /\ \A n \in nodes : Keyed(n) /\ n.old = n.max /\ n.pos \in Int
  /\ Apart(nodes)
  /\ Crowded(nodes, cap)

(* Key x belongs in node d: it is above the nodes before d, and no higher  *)
(* than d unless d is the last.                                            *)
Covers(nodes, d, x) ==
  /\ x \in Int
  /\ \A m \in nodes : m.max < d.max => m.max < x
  /\ x <= d.max \/ \A m \in nodes : m.max <= d.max

(* The ids of the nodes of a layer tell the nodes apart, and are in the    *)
(* order of their keys.                                                    *)
LEMMA ApartMaxes ==
  ASSUME NEW X, \A n \in X : Keyed(n), Apart(X), NEW m \in X, NEW n \in X
  PROVE  /\ m.max \in Int
         /\ m # n => \/ m.max < n.max /\ Before(m, n)
                     \/ n.max < m.max /\ Before(n, m)
BY DEF Keyed, Apart, Before

(* a key that belongs in d is in no other node *)
LEMMA CoveredElsewhere ==
  ASSUME NEW X, \A n \in X : Keyed(n), Apart(X), NEW d \in X, NEW x, Covers(X, d, x),
         NEW m \in X, m # d
  PROVE  /\ m.max < d.max => m.max < x
         /\ d.max < m.max => \A y \in KeysIn(m) : x < y
         /\ m.max < d.max \/ d.max < m.max
         /\ x \notin KeysIn(m)
<1>1. m.max \in Int /\ d.max \in Int /\ x \in Int /\ \A y \in KeysIn(m) : y \in Int /\ y <= m.max
  BY DEF Keyed, Covers
<1>2. \/ m.max < d.max
      \/ d.max < m.max /\ Before(d, m)
  BY ApartMaxes
<1>3. CASE m.max < d.max
  BY <1>1, <1>3 DEF Covers
<1>4. CASE d.max < m.max /\ Before(d, m)
  <2>1. x <= d.max
    BY <1>1, <1>4 DEF Covers
  <2> QED BY <1>1, <1>4, <2>1 DEF Before
<1> QED BY <1>2, <1>3, <1>4

(* A key of a node belongs in that node. *)
LEMMA CoversOwn ==
  ASSUME NEW X, \A n \in X : Keyed(n), Apart(X), NEW d \in X, NEW x \in KeysIn(d)
  PROVE  Covers(X, d, x)
<1>1. x \in Int /\ x <= d.max
  BY DEF Keyed
<1>2. ASSUME NEW m \in X, m.max < d.max PROVE m.max < x
  <2>1. m # d
    BY <1>2, ApartMaxes
  <2>2. Before(m, d)
    BY <1>2, <2>1, ApartMaxes
  <2> QED BY <2>2 DEF Before
<1> QED BY <1>1, <1>2 DEF Covers

(* the names of a layer are what the nodes above it hold *)
LEMMA NameOf ==
  ASSUME NEW n, NEW e, Name(n) = e PROVE e.key = n.max /\ e.pos = n.pos
BY DEF Name, Entry

(* Every entry of a layer is the name of a node of the next one. *)
LEMMA LinkDown ==
  ASSUME NEW P, NEW X, AllRows(P) = Names(X), NEW q \in P, NEW e \in ToSet(Rows(q))
  PROVE  \E m \in X : Name(m) = e
BY DEF AllRows, Names

(* Every node of a layer has an entry in the layer above. *)
LEMMA LinkUp ==
  ASSUME NEW P, NEW X, AllRows(P) = Names(X), NEW m \in X
  PROVE  \E q \in P : Name(m) \in ToSet(Rows(q)) /\ m.max \in KeysIn(q)
<1>1. Name(m) \in AllRows(P)
  BY DEF Names
<1>2. PICK q \in P : Name(m) \in ToSet(Rows(q))
  BY <1>1 DEF AllRows
<1>3. Name(m).key = m.max
  BY DEF Name, Entry
<1> QED BY <1>2, <1>3 DEF KeysIn

(* Every key in a layer is the id of a node of the next one. *)
LEMMA KeyDown ==
  ASSUME NEW P, NEW X, AllRows(P) = Names(X), NEW q \in P, NEW x \in KeysIn(q)
  PROVE  \E m \in X : m.max = x /\ Name(m) \in ToSet(Rows(q))
<1>1. PICK e \in ToSet(Rows(q)) : e.key = x
  BY DEF KeysIn
<1>2. PICK m \in X : Name(m) = e
  BY <1>1, LinkDown
<1> QED BY <1>1, <1>2, NameOf

(* what belongs in a node belongs in its parent *)
LEMMA AscendCovers ==
  ASSUME NEW P, \A n \in P : Keyed(n), Apart(P), NEW p \in P,
         NEW X, \A n \in X : Keyed(n), NEW d \in X, AllRows(P) = Names(X),
         Name(d) \in ToSet(Rows(p)), NEW x, Covers(X, d, x)
  PROVE  Covers(P, p, x)
<1>1. d.max \in KeysIn(p)
  BY NameOf DEF KeysIn
<1>2. d.max \in Int /\ p.max \in Int /\ d.max <= p.max /\ x \in Int
  BY <1>1 DEF Keyed, Covers
<1>3. \A q \in P : \E m \in X : m.max = q.max
  BY KeyDown DEF Keyed
<1>4. ASSUME NEW q \in P, q.max < p.max PROVE q.max < x
  <2>1. q # p /\ Before(q, p)
    <3>1. q # p
      BY <1>2, <1>4
    <3> QED BY <1>4, <3>1, ApartMaxes
  <2>2. q.max < d.max
    BY <1>1, <2>1 DEF Before
  <2>3. PICK m \in X : m.max = q.max
    BY <1>3
  <2> QED BY <2>2, <2>3 DEF Covers
<1>5. x <= p.max \/ \A q \in P : q.max <= p.max
  <2>1. CASE x <= d.max
    BY <1>2, <2>1
  <2>2. CASE \A m \in X : m.max <= d.max
    <3>1. ASSUME NEW q \in P PROVE q.max <= p.max
      <4>1. PICK m \in X : m.max = q.max
        BY <1>3
      <4>2. q.max <= d.max /\ q.max \in Int
        BY <2>2, <4>1 DEF Keyed
      <4> QED BY <1>2, <4>2
    <3> QED BY <3>1
  <2> QED BY <2>1, <2>2 DEF Covers
<1> QED BY <1>2, <1>4, <1>5 DEF Covers

(* A layer after its node d became the nodes R, and R2 was written for     *)
(* them.                                                                   *)
Alike(m, n) ==
  /\ m.max = n.max
  /\ KeysIn(m) = KeysIn(n)
  /\ Len(Rows(m)) = Len(Rows(n))
Copies(R2, R) ==
  /\ \A m \in R2 : \E n \in R : Alike(m, n)
  /\ \A m, n \in R2 : m.max = n.max => m = n
Instead(nodes, d, written) == (nodes \ {d}) \union written

(* A layer stays in order when a node of it gives way to what an operation *)
(* made of it: the keys are where the node was, and a node that split was  *)
(* full.                                                                   *)
LEMMA LayerReplaced ==
  ASSUME NEW cap \in Nat, NEW X, Layer(X, cap), NEW d \in X,
         NEW r, Outcome(r, d, cap), \A n \in Both(r) : Keyed(n),
         Len(Rows(d)) \in Nat, \A n \in Both(r) : Len(Rows(n)) \in Nat,
         \A n \in Both(r) : \A x \in KeysIn(n) : Covers(X, d, x),
         NEW R2, Copies(R2, Both(r)), \A n \in R2 : n.old = n.max /\ n.pos \in Int
  PROVE  Layer(Instead(X, d, R2), cap)
<1> DEFINE Y == Instead(X, d, R2)
<1>1. \A n \in X : Keyed(n) /\ n.old = n.max /\ n.pos \in Int
  BY DEF Layer
<1>2. Apart(X) /\ Crowded(X, cap)
  BY DEF Layer
<1>3. \A m \in R2 : Keyed(m) /\ \A x \in KeysIn(m) : Covers(X, d, x)
  <2> TAKE m \in R2
  <2>1. PICK n \in Both(r) : Alike(m, n)
    BY DEF Copies
  <2>2. Keyed(n) /\ (\A x \in KeysIn(n) : Covers(X, d, x)) /\ m.max = n.max /\ KeysIn(m) = KeysIn(n)
    BY <2>1 DEF Alike
  <2> QED BY <2>2 DEF Keyed
<1>4. \A m \in Y : m \in R2 \/ (m \in X /\ m # d)
  BY DEF Instead
<1>5. \A m \in Y : Keyed(m) /\ m.old = m.max /\ m.pos \in Int
  BY <1>1, <1>3, <1>4
<1>6. ASSUME NEW m \in X, m # d, NEW n \in R2 PROVE Before(m, n) \/ Before(n, m)
  <2>1. \A x \in KeysIn(n) : Covers(X, d, x)
    BY <1>3
  <2>2. n.max \in KeysIn(n)
    BY <1>3 DEF Keyed
  <2>3. \A x \in KeysIn(n) : /\ m.max < d.max => m.max < x
                             /\ d.max < m.max => \A y \in KeysIn(m) : x < y
                             /\ m.max < d.max \/ d.max < m.max
    BY <1>1, <1>2, <1>6, <2>1, CoveredElsewhere
  <2> QED BY <2>2, <2>3 DEF Before
<1>7. ASSUME NEW m \in R2, NEW n \in R2, m # n PROVE Before(m, n) \/ Before(n, m)
  <2>1. PICK a \in Both(r) : Alike(m, a)
    BY DEF Copies
  <2>2. PICK b \in Both(r) : Alike(n, b)
    BY DEF Copies
  <2>3. m.max # n.max
    BY <1>7 DEF Copies
  <2>4. a # b
    BY <2>1, <2>2, <2>3 DEF Alike
  <2>5. Before(a, b) \/ Before(b, a)
    BY <2>4 DEF Outcome, Both, Before
  <2> QED BY <2>1, <2>2, <2>5 DEF Alike, Before
<1>8. Apart(Y)
  <2> SUFFICES ASSUME NEW m \in Y, NEW n \in Y, m # n PROVE Before(m, n) \/ Before(n, m)
    BY DEF Apart
  <2>1. (m \in R2 \/ (m \in X /\ m # d)) /\ (n \in R2 \/ (n \in X /\ n # d))
    BY <1>4
  <2>2. m \in X /\ n \in X => Before(m, n) \/ Before(n, m)
    BY <1>2 DEF Apart
  <2> QED BY <1>6, <1>7, <2>1, <2>2
<1>9. Crowded(Y, cap)
  <2>1. CASE r.new = {}
    <3>1. Both(r) = {r.node} /\ Len(Rows(r.node)) >= Len(Rows(d))
      BY <2>1 DEF Outcome, Both
    <3>2. \A m \in R2 : m.max = r.node.max /\ Len(Rows(m)) = Len(Rows(r.node))
      BY <3>1 DEF Copies, Alike
    <3>3. \A m, n \in R2 : m = n
      BY <3>2 DEF Copies
    <3>4. CASE \A m, n \in X : m = n
      <4>1. \A m \in Y : m \in R2
        BY <1>4, <3>4
      <4> QED BY <3>3, <4>1 DEF Crowded
    <3>5. CASE \A n \in X : 2 * Len(Rows(n)) >= cap
      <4>1. 2 * Len(Rows(r.node)) >= cap
        <5>1. 2 * Len(Rows(d)) >= cap /\ r.node \in Both(r)
          BY <3>1, <3>5
        <5> QED BY <3>1, <5>1
      <4>2. \A n \in Y : 2 * Len(Rows(n)) >= cap
        BY <1>4, <3>2, <3>5, <4>1
      <4> QED BY <4>2 DEF Crowded
    <3> QED BY <1>2, <3>4, <3>5 DEF Crowded
  <2>2. CASE r.new # {}
    <3>1. \A n \in Both(r) : 2 * Len(Rows(n)) >= cap
      BY <2>2 DEF Outcome, Both
    <3>2. \A m \in R2 : 2 * Len(Rows(m)) >= cap
      BY <3>1 DEF Copies, Alike
    <3>3. CASE \A m, n \in X : m = n
      <4>1. \A m \in Y : m \in R2
        BY <1>4, <3>3
      <4> QED BY <3>2, <4>1 DEF Crowded
    <3>4. CASE \A n \in X : 2 * Len(Rows(n)) >= cap
      <4>1. \A n \in Y : 2 * Len(Rows(n)) >= cap
        BY <1>4, <3>2, <3>4
      <4> QED BY <4>1 DEF Crowded
    <3> QED BY <1>2, <3>3, <3>4 DEF Crowded
  <2> QED BY <2>1, <2>2
<1> QED BY <1>5, <1>8, <1>9 DEF Layer

(* a node with entries: a midNode or the root once it is not empty *)
Kidded(p) == p.kids \in Seq(Links) /\ Tidy(p) /\ Rows(p) = p.kids

(* A midNode in order has children in order. *)
LEMMA MidIsKidded == ASSUME NEW p, IsMid(p) PROVE Kidded(p)
BY RowsOfMid DEF IsMid, Mids, Kidded

(* The id of a node with children is the largest of their keys. *)
LEMMA KiddedKeys ==
  ASSUME NEW p, Kidded(p) PROVE Keyed(p)
<1>1. p.kids \in Seq(Links) /\ p.kids # <<>> /\ Increasing(p.kids) /\ p.max = Last(p.kids).key
  BY DEF Kidded, Tidy
<1> QED BY <1>1, EntriesHaveKeys, LastIsLargest DEF Kidded, Keyed, KeysIn

(* Search goes to the first child whose key is not below k, to the last    *)
(* one when there is none.                                                 *)
LEMMA SearchFinds ==
  ASSUME NEW p, Kidded(p), NEW k \in Int
  PROVE  LET e == Search(p, k) IN
         /\ e \in ToSet(p.kids)
         /\ k <= p.max => k <= e.key /\ \A f \in ToSet(p.kids) : f.key < e.key => f.key < k
         /\ ~(k <= p.max) => e.key = p.max
<1> DEFINE s == p.kids
           i == FirstFrom(s, k)
           e == Search(p, k)
<1>1. s \in Seq(Links) /\ s # <<>> /\ Increasing(s) /\ p.max = Last(s).key
  BY DEF Kidded, Tidy
<1>2. /\ Last(s) \in ToSet(s) /\ Last(s) \in Links
      /\ \A f \in ToSet(s) : f \in Links /\ f.key <= p.max
  BY <1>1, EntriesHaveKeys, LastIsLargest
<1>3. /\ i \in 0 .. Len(s)
      /\ i = 0 => \A j \in 1 .. Len(s) : s[j].key < k
      /\ i # 0 => s[i].key >= k /\ \A j \in 1 .. i - 1 : s[j].key < k
  BY <1>1, EntriesHaveKeys, FirstFromFinds
<1>4. /\ DOMAIN s = 1 .. Len(s) /\ Len(s) \in Nat
      /\ \A j \in 1 .. Len(s) : s[j] \in ToSet(s) /\ s[j].key \in Int
  BY <1>1, EntriesHaveKeys DEF ToSet
<1>5. \A f \in ToSet(s) : \E j \in 1 .. Len(s) : f = s[j]
  BY <1>4 DEF ToSet
<1>6. p.max \in Int
  BY <1>1, <1>2, EntriesHaveKeys
<1>7. e = IF i # 0 THEN s[i] ELSE Entry(p.max, Last(s).pos)
  BY DEF Search
<1> HIDE DEF i, s
<1>8. CASE i = 0
  <2>1. ~(k <= p.max)
    BY <1>1, <1>2, <1>3, <1>4, <1>5, <1>6, <1>8
  <2>2. e = Last(s)
    BY <1>1, <1>2, <1>7, <1>8 DEF Entry, Links
  <2> HIDE DEF e
  <2> QED BY <1>1, <1>2, <2>1, <2>2 DEF e, s
<1>9. CASE i # 0
  <2>1. e = s[i] /\ i \in 1 .. Len(s) /\ k <= e.key
    BY <1>3, <1>4, <1>7, <1>9
  <2> HIDE DEF e
  <2>2. e \in ToSet(s) /\ e.key \in Int /\ e.key <= p.max
    BY <1>2, <1>4, <2>1
  <2>3. k <= p.max
    BY <1>6, <2>1, <2>2
  <2>4. ASSUME NEW f \in ToSet(s), f.key < e.key PROVE f.key < k
    <3>1. PICK j \in 1 .. Len(s) : f = s[j]
      BY <1>5
    <3>2. ~(i <= j)
      <4>1. i = j \/ i > j \/ i < j
        BY <1>4, <2>1
      <4>2. i < j => s[i].key < s[j].key
        BY <1>1, <1>4, <2>1 DEF Increasing
      <4> QED BY <1>4, <2>1, <2>4, <3>1, <4>1, <4>2
    <3>3. j \in 1 .. i - 1
      BY <1>4, <2>1, <3>2
    <3> QED BY <1>3, <1>9, <3>1, <3>3
  <2> QED BY <2>1, <2>2, <2>3, <2>4 DEF e, s
<1> QED BY <1>8, <1>9

(* The way down stays with the nodes the key belongs in. *)
LEMMA DescendCovers ==
  ASSUME NEW P, \A n \in P : Keyed(n), Apart(P), NEW p \in P, Kidded(p),
         NEW X, \A n \in X : Keyed(n), NEW d \in X, AllRows(P) = Names(X),
         NEW k, Covers(P, p, k), Name(d) = Search(p, k)
  PROVE  Covers(X, d, k) /\ Name(d) \in ToSet(Rows(p))
<1>1. k \in Int
  BY DEF Covers
<1>2. /\ Name(d) \in ToSet(p.kids)
      /\ k <= p.max => k <= d.max /\ \A f \in ToSet(p.kids) : f.key < d.max => f.key < k
      /\ ~(k <= p.max) => d.max = p.max
  BY <1>1, SearchFinds, NameOf
<1>3. Rows(p) = p.kids
  BY DEF Kidded
<1>4. d.max \in KeysIn(p) /\ d.max \in Int /\ p.max \in Int /\ d.max <= p.max
  <2>1. d.max \in KeysIn(p)
    BY <1>2, <1>3, NameOf DEF KeysIn
  <2> QED BY <2>1 DEF Keyed
<1>5. \A m \in X : m.max \in Int /\ \E q \in P : /\ Name(m) \in ToSet(Rows(q))
                                                /\ m.max \in KeysIn(q)
  BY LinkUp DEF Keyed
<1>6. CASE k <= p.max
  <2>1. ASSUME NEW m \in X, m.max < d.max PROVE m.max < k
    <3>1. PICK q \in P : Name(m) \in ToSet(Rows(q)) /\ m.max \in KeysIn(q)
      BY <1>5
    <3>2. CASE q = p
      <4>1. Name(m) \in ToSet(p.kids) /\ Name(m).key = m.max
        BY <1>3, <3>1, <3>2, NameOf
      <4> QED BY <1>2, <1>6, <2>1, <4>1
    <3>3. CASE q # p
      <4>1. m.max <= q.max /\ q.max \in Int /\ m.max \in Int
        BY <3>1 DEF Keyed
      <4>2. CASE Before(p, q)
        <5>1. p.max < m.max
          BY <3>1, <4>2 DEF Before
        <5> QED BY <1>4, <2>1, <4>1, <5>1
      <4>3. CASE Before(q, p)
        <5>1. q.max < p.max
          BY <4>3 DEF Before, Keyed
        <5>2. q.max < k
          BY <5>1 DEF Covers
        <5> QED BY <1>1, <4>1, <5>2
      <4> QED BY <3>3, <4>2, <4>3, ApartMaxes
    <3> QED BY <3>2, <3>3
  <2> QED BY <1>1, <1>2, <1>3, <1>6, <2>1 DEF Covers
<1>7. CASE ~(k <= p.max)
  <2>1. \A m \in X : m.max <= d.max
    <3> TAKE m \in X
    <3>1. PICK q \in P : m.max \in KeysIn(q)
      BY <1>5
    <3>2. m.max <= q.max /\ q.max \in Int /\ q.max <= p.max /\ m.max \in Int
      BY <1>7, <3>1 DEF Keyed, Covers
    <3> QED BY <1>2, <1>4, <1>7, <3>2
  <2>2. d.max < k
    BY <1>1, <1>2, <1>4, <1>7
  <2>3. \A m \in X : m.max < k
    BY <1>1, <1>4, <1>5, <2>1, <2>2
  <2> QED BY <1>1, <1>2, <1>3, <2>1, <2>3 DEF Covers
<1> QED BY <1>6, <1>7

-----------------------------------------------------------------------------
(* entries that follow the nodes drawn anew *)
Renewed(nodes, new) == {Entry(n.max, new[n.max]) : n \in nodes}
Repoint(e, new) == IF e.key \in DOMAIN new THEN Entry(e.key, new[e.key]) ELSE e
Repoints(entries, new) == {Repoint(e, new) : e \in entries}

(* Two layers stay linked when a node and the one above it give way to     *)
(* what an operation made of them, whatever positions are drawn.           *)
LEMMA LinkReplaced ==
  ASSUME NEW P, \A n \in P : Keyed(n), Apart(P), NEW p \in P,
         NEW X, \A n \in X : Keyed(n), Apart(X), NEW d \in X, AllRows(P) = Names(X),
         Name(d) \in ToSet(Rows(p)),
         NEW R, \A n \in R : Covers(X, d, n.max),
         NEW T, AllRows(T) = Exchanged(ToSet(Rows(p)), Name(d), Names(R)),
         NEW new, DOMAIN new = {n.max : n \in R},
         NEW X2, Names(X2) = Renewed(R, new),
         NEW P2w, AllRows(P2w) = Repoints(AllRows(T), new)
  PROVE  AllRows(Instead(P, p, P2w)) = Names(Instead(X, d, X2))
<1>1. ASSUME NEW m \in X, m # d
      PROVE  Name(m) # Name(d) /\ m.max \notin DOMAIN new
  <2>1. m.max # d.max
    BY <1>1, ApartMaxes
  <2>2. \A n \in R : n.max # m.max
    <3> TAKE n \in R
    <3>1. n.max \notin KeysIn(m)
      BY <1>1, CoveredElsewhere
    <3> QED BY <3>1 DEF Keyed
  <2> QED BY <2>1, <2>2, NameOf
<1>2. ASSUME NEW q \in P, q # p PROVE Name(d) \notin ToSet(Rows(q))
  <2> SUFFICES ASSUME Name(d) \in ToSet(Rows(q)) PROVE FALSE
    OBVIOUS
  <2>1. d.max \in KeysIn(q) /\ d.max \in KeysIn(p)
    BY NameOf DEF KeysIn
  <2>2. d.max \in Int /\ p.max \in Int /\ q.max \in Int /\ d.max <= p.max /\ d.max <= q.max
    BY <2>1 DEF Keyed
  <2>3. Before(p, q) \/ Before(q, p)
    BY <1>2, ApartMaxes
  <2> QED BY <2>1, <2>2, <2>3 DEF Before
<1>3. ASSUME NEW e \in ToSet(Rows(p)), e # Name(d) PROVE Repoint(e, new) = e
  <2>1. PICK m \in X : Name(m) = e
    BY LinkDown
  <2>2. e.key \notin DOMAIN new
    BY <1>1, <1>3, <2>1, NameOf
  <2> QED BY <2>2 DEF Repoint
<1>4. ASSUME NEW n \in R PROVE Repoint(Name(n), new) = Entry(n.max, new[n.max])
  BY DEF Repoint, Name, Entry
<1>5. Names(Instead(X, d, X2)) = (Names(X) \ {Name(d)}) \union Renewed(R, new)
  <2>1. Names(Instead(X, d, X2)) = {Name(m) : m \in X \ {d}} \union Names(X2)
    BY DEF Names, Instead
  <2>2. {Name(m) : m \in X \ {d}} = Names(X) \ {Name(d)}
    BY <1>1 DEF Names
  <2> QED BY <2>1, <2>2
<1>6. AllRows(P2w) = (ToSet(Rows(p)) \ {Name(d)}) \union Renewed(R, new)
  <2>1. AllRows(T) = (ToSet(Rows(p)) \ {Name(d)}) \union Names(R)
    BY DEF Exchanged
  <2>2. ASSUME NEW x \in AllRows(P2w)
        PROVE  x \in (ToSet(Rows(p)) \ {Name(d)}) \union Renewed(R, new)
    <3>1. PICK e \in AllRows(T) : x = Repoint(e, new)
      BY DEF Repoints
    <3>2. CASE e \in ToSet(Rows(p)) \ {Name(d)}
      BY <1>3, <3>1, <3>2
    <3>3. CASE e \in Names(R)
      <4>1. PICK n \in R : e = Name(n)
        BY <3>3 DEF Names
      <4> QED BY <1>4, <3>1, <4>1 DEF Renewed
    <3> QED BY <2>1, <3>2, <3>3
  <2>3. ASSUME NEW x \in (ToSet(Rows(p)) \ {Name(d)}) PROVE x \in AllRows(P2w)
    <3>1. x \in AllRows(T) /\ x = Repoint(x, new)
      BY <1>3, <2>1
    <3> QED BY <3>1 DEF Repoints
  <2>4. ASSUME NEW x \in Renewed(R, new) PROVE x \in AllRows(P2w)
    <3>1. PICK n \in R : x = Entry(n.max, new[n.max])
      BY DEF Renewed
    <3>2. Name(n) \in AllRows(T) /\ x = Repoint(Name(n), new)
      BY <1>4, <2>1, <3>1 DEF Names
    <3> QED BY <3>2 DEF Repoints
  <2> QED BY <2>2, <2>3, <2>4
<1>7. AllRows(Instead(P, p, P2w)) = (AllRows(P) \ {Name(d)}) \union Renewed(R, new)
  <2>1. AllRows(Instead(P, p, P2w)) = AllRows(P \ {p}) \union AllRows(P2w)
    BY DEF AllRows, Instead
  <2>2. AllRows(P) \ {Name(d)} =
          AllRows(P \ {p}) \union (ToSet(Rows(p)) \ {Name(d)})
    BY <1>2 DEF AllRows
  <2> QED BY <1>6, <2>1, <2>2
<1> QED BY <1>5, <1>7

(* the kids of a node that are repointed *)
Follow(s, new) == [i \in DOMAIN s |-> Repoint(s[i], new)]

(* Entries that take the new positions of the nodes they name keep their   *)
(* keys and their order.                                                   *)
LEMMA Follows ==
  ASSUME NEW s \in Seq(Links), NEW new, \A x \in DOMAIN new : new[x] \in Int
  PROVE  LET t == Follow(s, new) IN
         /\ t \in Seq(Links)
         /\ Len(t) = Len(s)
         /\ s # <<>> => t # <<>> /\ Last(t).key = Last(s).key
         /\ Increasing(s) => Increasing(t)
         /\ ToSet(t) = Repoints(ToSet(s), new)
         /\ {e.key : e \in ToSet(t)} = {e.key : e \in ToSet(s)}
<1> DEFINE t == Follow(s, new)
<1>1. \A e \in Links : Repoint(e, new) \in Links /\ Repoint(e, new).key = e.key
  BY DEF Repoint, Entry, Links
<1>2. /\ DOMAIN s = 1 .. Len(s) /\ Len(s) \in Nat
      /\ \A i \in 1 .. Len(s) : s[i] \in Links
  OBVIOUS
<1>3. /\ t \in Seq(Links) /\ Len(t) = Len(s) /\ DOMAIN t = 1 .. Len(s)
      /\ \A i \in 1 .. Len(s) : t[i] = Repoint(s[i], new) /\ t[i].key = s[i].key
  <2>1. t = [i \in 1 .. Len(s) |-> Repoint(s[i], new)]
    BY <1>2 DEF Follow
  <2> HIDE DEF t
  <2> QED BY <1>1, <1>2, <2>1
<1> HIDE DEF t
<1>4. s # <<>> => t # <<>> /\ Last(t).key = Last(s).key
  <2> SUFFICES ASSUME s # <<>> PROVE t # <<>> /\ Last(t).key = Last(s).key
    OBVIOUS
  <2>1. Len(s) \in 1 .. Len(s)
    BY <1>2
  <2>2. Last(s) = s[Len(s)] /\ Last(t) = t[Len(s)]
    BY <1>3 DEF Last
  <2> QED BY <1>3, <2>1, <2>2
<1>5. Increasing(s) => Increasing(t)
  BY <1>2, <1>3 DEF Increasing
<1>6. ToSet(t) = {t[i] : i \in 1 .. Len(s)} /\ ToSet(s) = {s[i] : i \in 1 .. Len(s)}
  BY <1>2, <1>3 DEF ToSet
<1>7. ToSet(t) = Repoints(ToSet(s), new)
  BY <1>3, <1>6 DEF Repoints
<1>8. {e.key : e \in ToSet(t)} = {e.key : e \in ToSet(s)}
  BY <1>3, <1>6
<1> QED BY <1>3, <1>4, <1>5, <1>7, <1>8 DEF t

(* A midNode that finish writes: a new position, its entries with those of *)
(* the nodes below, the rest as it was.                                    *)
LEMMA MidRepointed ==
  ASSUME NEW n, IsMid(n), NEW p \in Int, NEW new, \A x \in DOMAIN new : new[x] \in Int
  PROVE  LET m == Repointed([Linked(n) EXCEPT !.pos = p], new) IN
         /\ IsMid(m)
         /\ m.max = n.max /\ m.old = n.max /\ m.pos = p
         /\ Alike(m, n)
         /\ ToSet(Rows(m)) = Repoints(ToSet(Rows(n)), new)
<1> DEFINE t == Follow(n.kids, new)
           a == [Linked(n) EXCEPT !.pos = p]
           m == Repointed(a, new)
<1>1. /\ n \in Mids /\ n.kids \in Seq(Links) /\ Rows(n) = n.kids /\ n.kids # <<>>
      /\ Increasing(n.kids) /\ n.max = Last(n.kids).key /\ Len(n.kids) <= P2
  BY RowsOfMid DEF IsMid, Tidy, Mids
<1>2. /\ t \in Seq(Links)
      /\ Len(t) = Len(n.kids)
      /\ t # <<>> /\ Last(t).key = Last(n.kids).key
      /\ Increasing(t)
      /\ ToSet(t) = Repoints(ToSet(n.kids), new)
      /\ {e.key : e \in ToSet(t)} = {e.key : e \in ToSet(n.kids)}
  BY <1>1, Follows
<1>3. a \in Mids /\ a.kids = n.kids /\ a.max = n.max /\ a.old = n.max /\ a.pos = p
  BY <1>1 DEF Linked, Mids
<1>4. m = [a EXCEPT !.kids = t]
  <2>1. a.kids = n.kids
    BY <1>3
  <2> HIDE DEF a
  <2> QED BY <2>1 DEF Repointed, Follow, Repoint
<1> HIDE DEF a, t
<1>5. m \in Mids /\ m.kids = t /\ m.max = n.max /\ m.old = n.max /\ m.pos = p
  BY <1>2, <1>3, <1>4 DEF Mids
<1> HIDE DEF m
<1>6. Rows(m) = t
  BY <1>5, RowsOfMid
<1>7. IsMid(m)
  BY <1>1, <1>2, <1>5, <1>6 DEF IsMid, Tidy
<1>8. Alike(m, n)
  BY <1>1, <1>2, <1>5, <1>6 DEF Alike, KeysIn
<1> QED BY <1>1, <1>2, <1>5, <1>6, <1>7, <1>8 DEF m, a

(* A leafNode that finish writes: a new position, the rest as it was. *)
LEMMA LeafMoved ==
  ASSUME NEW n, IsLeaf(n), NEW p \in Int
  PROVE  LET m == [Linked(n) EXCEPT !.pos = p] IN
         /\ IsLeaf(m)
         /\ m.max = n.max /\ m.old = n.max /\ m.pos = p
         /\ Alike(m, n)
         /\ ToSet(Rows(m)) = ToSet(Rows(n)) /\ m.arr = n.arr
<1> DEFINE m == [Linked(n) EXCEPT !.pos = p]
<1>1. /\ n \in Leafs /\ n.arr \in Seq(Pairs) /\ Rows(n) = n.arr /\ Tidy(n) /\ Len(n.arr) <= C
  BY RowsOfLeaf DEF IsLeaf, Leafs
<1>2. m \in Leafs /\ m.arr = n.arr /\ m.max = n.max /\ m.old = n.max /\ m.pos = p
  BY <1>1 DEF Linked, Leafs
<1> HIDE DEF m
<1>3. Rows(m) = n.arr
  BY <1>2, RowsOfLeaf
<1>4. IsLeaf(m) /\ Alike(m, n)
  BY <1>1, <1>2, <1>3 DEF IsLeaf, Tidy, Alike, KeysIn
<1> QED BY <1>1, <1>2, <1>3, <1>4 DEF m

(* The root after finish: new positions, the keys as they were. *)
LEMMA RootRepointed ==
  ASSUME NEW rt \in Roots, rt.kids # <<>>, Increasing(rt.kids), rt.max = Last(rt.kids).key,
         NEW new, \A x \in DOMAIN new : new[x] \in Int
  PROVE  LET m == Repointed(rt, new) IN
         /\ m \in Roots /\ m.kids # <<>> /\ Increasing(m.kids) /\ m.max = Last(m.kids).key
         /\ Len(m.kids) = Len(rt.kids)
         /\ ToSet(m.kids) = Repoints(ToSet(rt.kids), new)
<1> DEFINE t == Follow(rt.kids, new)
           m == Repointed(rt, new)
<1>1. rt.kids \in Seq(Links)
  BY DEF Roots
<1>2. /\ t \in Seq(Links)
      /\ Len(t) = Len(rt.kids)
      /\ t # <<>> /\ Last(t).key = Last(rt.kids).key
      /\ Increasing(t)
      /\ ToSet(t) = Repoints(ToSet(rt.kids), new)
  BY <1>1, Follows
<1>3. m = [rt EXCEPT !.kids = t]
  BY DEF Repointed, Follow, Repoint
<1> HIDE DEF t
<1>4. m \in Roots /\ m.kids = t /\ m.max = rt.max
  BY <1>2, <1>3 DEF Roots
<1> QED BY <1>2, <1>4

(* the nodes of R as Finish writes them *)
MidsOf(nodes, new, newBelow) == {Repointed(n, newBelow) : n \in Moved(nodes, new)}
Linkeds(nodes) == {Linked(n) : n \in nodes}
Numbers(new, nodes) ==
  /\ DOMAIN new = {n.max : n \in nodes}
  /\ \A x \in DOMAIN new : new[x] \in Int

(* The midNodes that finish writes have the names the layer above is       *)
(* given, and hold the names of the nodes below.                           *)
LEMMA MidsWritten ==
  ASSUME NEW R, \A n \in R : IsMid(n), \A m, n \in R : m.max = n.max => m = n,
         NEW new, Numbers(new, R), NEW newBelow, \A x \in DOMAIN newBelow : newBelow[x] \in Int
  PROVE  LET F == MidsOf(Linkeds(R), new, newBelow) IN
         /\ \A m \in F : IsMid(m) /\ m.old = m.max /\ m.pos \in Int
         /\ Copies(F, R)
         /\ Names(F) = Renewed(R, new)
         /\ AllRows(F) = Repoints(AllRows(R), newBelow)
<1> DEFINE Filed(n) == Repointed([Linked(n) EXCEPT !.pos = new[n.max]], newBelow)
           F == MidsOf(Linkeds(R), new, newBelow)
<1>1. F = {Filed(n) : n \in R}
  <2>1. \A n \in R : Linked(n).max = n.max
    BY DEF Linked, IsMid, Mids
  <2>2. Moved(Linkeds(R), new) = {[Linked(n) EXCEPT !.pos = new[n.max]] : n \in R}
    BY <2>1 DEF Moved, Linkeds
  <2> QED BY <2>2 DEF MidsOf
<1>2. ASSUME NEW n \in R
      PROVE  /\ IsMid(Filed(n))
             /\ Filed(n).max = n.max /\ Filed(n).old = n.max /\ Filed(n).pos = new[n.max]
             /\ new[n.max] \in Int
             /\ Alike(Filed(n), n)
             /\ ToSet(Rows(Filed(n))) = Repoints(ToSet(Rows(n)), newBelow)
  <2>1. new[n.max] \in Int
    BY DEF Numbers
  <2> QED BY <2>1, MidRepointed
<1> HIDE DEF Filed, F
<1>3. \A m \in F : IsMid(m) /\ m.old = m.max /\ m.pos \in Int
  BY <1>1, <1>2
<1>4. Copies(F, R)
  <2>1. \A m \in F : \E n \in R : Alike(m, n)
    BY <1>1, <1>2
  <2>2. ASSUME NEW m \in F, NEW n \in F, m.max = n.max PROVE m = n
    <3>1. PICK a \in R : m = Filed(a)
      BY <1>1
    <3>2. PICK b \in R : n = Filed(b)
      BY <1>1
    <3>3. a.max = b.max
      BY <1>2, <2>2, <3>1, <3>2
    <3> QED BY <3>1, <3>2, <3>3
  <2> QED BY <2>1, <2>2 DEF Copies
<1>5. Names(F) = Renewed(R, new)
  <2>1. \A n \in R : Name(Filed(n)) = Entry(n.max, new[n.max])
    BY <1>2 DEF Name
  <2> QED BY <1>1, <2>1 DEF Names, Renewed
<1>6. AllRows(F) = Repoints(AllRows(R), newBelow)
  <2>1. ASSUME NEW e \in AllRows(F) PROVE e \in Repoints(AllRows(R), newBelow)
    <3>1. PICK n \in R : e \in ToSet(Rows(Filed(n)))
      BY <1>1 DEF AllRows
    <3>2. e \in Repoints(ToSet(Rows(n)), newBelow)
      BY <1>2, <3>1
    <3> QED BY <3>2 DEF Repoints, AllRows
  <2>2. ASSUME NEW e \in Repoints(AllRows(R), newBelow) PROVE e \in AllRows(F)
    <3>1. PICK f \in AllRows(R) : e = Repoint(f, newBelow)
      BY DEF Repoints
    <3>2. PICK n \in R : f \in ToSet(Rows(n))
      BY <3>1 DEF AllRows
    <3>3. e \in Repoints(ToSet(Rows(n)), newBelow)
      BY <3>1, <3>2 DEF Repoints
    <3>4. e \in ToSet(Rows(Filed(n))) /\ Filed(n) \in F
      BY <1>1, <1>2, <3>3
    <3> QED BY <3>4 DEF AllRows
  <2> QED BY <2>1, <2>2
<1> QED BY <1>3, <1>4, <1>5, <1>6 DEF F

(* The leafNodes that finish writes have the names the layer above is      *)
(* given, and hold what they held.                                         *)
LEMMA LeavesWritten ==
  ASSUME NEW R, \A n \in R : IsLeaf(n), \A m, n \in R : m.max = n.max => m = n,
         NEW new, Numbers(new, R)
  PROVE  LET F == Moved(Linkeds(R), new) IN
         /\ \A m \in F : IsLeaf(m) /\ m.old = m.max /\ m.pos \in Int
         /\ Copies(F, R)
         /\ Names(F) = Renewed(R, new)
         /\ AllRows(F) = AllRows(R)
<1> DEFINE Filed(n) == [Linked(n) EXCEPT !.pos = new[n.max]]
           F == Moved(Linkeds(R), new)
<1>1. F = {Filed(n) : n \in R}
  <2>1. \A n \in R : Linked(n).max = n.max
    BY DEF Linked, IsLeaf, Leafs
  <2> QED BY <2>1 DEF Moved, Linkeds
<1>2. ASSUME NEW n \in R
      PROVE  /\ IsLeaf(Filed(n))
             /\ Filed(n).max = n.max /\ Filed(n).old = n.max /\ Filed(n).pos = new[n.max]
             /\ new[n.max] \in Int
             /\ Alike(Filed(n), n)
             /\ ToSet(Rows(Filed(n))) = ToSet(Rows(n))
  <2>1. new[n.max] \in Int
    BY DEF Numbers
  <2> QED BY <2>1, LeafMoved
<1> HIDE DEF Filed, F
<1>3. \A m \in F : IsLeaf(m) /\ m.old = m.max /\ m.pos \in Int
  BY <1>1, <1>2
<1>4. Copies(F, R)
  <2>1. \A m \in F : \E n \in R : Alike(m, n)
    BY <1>1, <1>2
  <2>2. ASSUME NEW m \in F, NEW n \in F, m.max = n.max PROVE m = n
    <3>1. PICK a \in R : m = Filed(a)
      BY <1>1
    <3>2. PICK b \in R : n = Filed(b)
      BY <1>1
    <3>3. a.max = b.max
      BY <1>2, <2>2, <3>1, <3>2
    <3> QED BY <3>1, <3>2, <3>3
  <2> QED BY <2>1, <2>2 DEF Copies
<1>5. Names(F) = Renewed(R, new)
  <2>1. \A n \in R : Name(Filed(n)) = Entry(n.max, new[n.max])
    BY <1>2 DEF Name
  <2> QED BY <1>1, <2>1 DEF Names, Renewed
<1>6. AllRows(F) = AllRows(R)
  BY <1>1, <1>2 DEF AllRows
<1> QED BY <1>3, <1>4, <1>5, <1>6 DEF F

PairsOfMap == [key : Keys, val : Values]

(* The four layers are in order: what makes the tree a map.                *)
Sorted(rt, m1, m2, ls) ==
  /\ rt \in Roots /\ Increasing(rt.kids)
  /\ rt.kids # <<>> => rt.max = Last(rt.kids).key
  /\ \A n \in m1 \union m2 : IsMid(n)
  /\ \A n \in ls : IsLeaf(n) /\ ToSet(n.arr) \subseteq PairsOfMap
  /\ Layer(m1, P2) /\ Layer(m2, P2) /\ Layer(ls, C)
  /\ AllRows({rt}) = Names(m1) /\ AllRows(m1) = Names(m2) /\ AllRows(m2) = Names(ls)

(* r is what an operation made of the node d of a layer *)
Grows(nodes, d, r, cap) ==
  /\ Outcome(r, d, cap)
  /\ \A n \in Both(r) :
       /\ Keyed(n) /\ n.pos \in Int /\ Len(Rows(n)) \in Nat
       /\ \A x \in KeysIn(n) : Covers(nodes, d, x)

(* What the lemmas on layers ask of a node, of a midNode in order. *)
LEMMA MidFacts ==
  ASSUME NEW n, IsMid(n)
  PROVE  Keyed(n) /\ n.pos \in Int /\ Len(Rows(n)) \in Nat /\ Kidded(n) /\ Rows(n) = n.kids
<1>1. n.kids \in Seq(Links) /\ n.pos \in Int
  BY DEF IsMid, Mids
<1>2. Kidded(n)
  BY MidIsKidded
<1> QED BY <1>1, <1>2, KiddedKeys DEF Kidded

(* What the lemmas on layers ask of a node, of a leafNode in order. *)
LEMMA LeafFacts ==
  ASSUME NEW n, IsLeaf(n)
  PROVE  Keyed(n) /\ n.pos \in Int /\ Len(Rows(n)) \in Nat /\ Rows(n) = n.arr
<1>1. n.arr \in Seq(Pairs) /\ n.pos \in Int /\ Rows(n) = n.arr
  BY RowsOfLeaf DEF IsLeaf, Leafs
<1> QED BY <1>1, LeafKeys DEF Keyed

(* A node and the one that split off it differ in their ids. *)
LEMMA BothApart ==
  ASSUME NEW r, NEW d, NEW cap, Outcome(r, d, cap), \A n \in Both(r) : Keyed(n)
  PROVE  \A m, n \in Both(r) : m.max = n.max => m = n
<1>1. \A n \in Both(r) : n.max \in Int
  BY DEF Keyed
<1>2. CASE r.new = {}
  BY <1>2 DEF Both
<1>3. CASE r.new # {}
  <2>1. PICK b : r.new = {b} /\ r.node.max < b.max
    BY <1>3 DEF Outcome
  <2>2. Both(r) = {r.node, b}
    BY <2>1 DEF Both
  <2> QED BY <1>1, <2>1, <2>2
<1> QED BY <1>2, <1>3

(* The root is a layer of its own, in which every key belongs. *)
LEMMA RootFacts ==
  ASSUME NEW rt \in Roots, rt.kids # <<>>, Increasing(rt.kids), rt.max = Last(rt.kids).key
  PROVE  /\ Kidded(rt) /\ Keyed(rt) /\ Rows(rt) = rt.kids /\ Apart({rt})
         /\ AllRows({rt}) = ToSet(rt.kids)
         /\ \A x \in Int : Covers({rt}, rt, x)
<1>1. Rows(rt) = rt.kids
  BY DEF Roots, Rows
<1>2. Kidded(rt)
  BY <1>1 DEF Kidded, Tidy, Roots
<1>3. Keyed(rt)
  BY <1>2, KiddedKeys
<1>4. Apart({rt}) /\ AllRows({rt}) = ToSet(rt.kids)
  BY <1>1 DEF Apart, AllRows
<1>5. rt.max \in Int
  BY <1>3 DEF Keyed
<1>6. \A x \in Int : Covers({rt}, rt, x)
  BY <1>5 DEF Covers
<1> QED BY <1>1, <1>2, <1>3, <1>4, <1>6

(* The parent of a node that an operation changed, after Update and Insert *)
LEMMA Grown ==
  ASSUME NEW P, \A n \in P : IsMid(n), Apart(P), NEW p \in P,
         NEW X, \A n \in X : Keyed(n) /\ n.old = n.max /\ n.pos \in Int, Apart(X),
         NEW d \in X, AllRows(P) = Names(X), Name(d) \in ToSet(Rows(p)),
         NEW r, NEW cap, Grows(X, d, r, cap)
  PROVE  LET g == Grow(p, r) IN
         /\ \A n \in Both(g) : IsMid(n)
         /\ Grows(P, p, g, P2)
         /\ AllRows(Both(g)) = Exchanged(ToSet(Rows(p)), Name(d), Names(Both(r)))
<1> DEFINE g == Grow(p, r)
<1>1. IsMid(p) /\ Rows(p) = p.kids /\ \A n \in P : Keyed(n)
  BY MidFacts
<1>2. Outcome(r, d, cap) /\ \A n \in Both(r) : Keyed(n) /\ n.pos \in Int /\ \A x \in KeysIn(n) : Covers(X, d, x)
  BY DEF Grows
<1>3. /\ d.pos \in Int /\ d.old = d.max /\ d.max \in Int
  BY DEF Keyed
<1>4. r.node \in Both(r) /\ r.new \subseteq Both(r)
  BY DEF Both
<1>5. r.node.old = d.max /\ r.node.pos = d.pos /\ r.node.max \in Int
  BY <1>2, <1>3, <1>4 DEF Outcome, Keyed
<1>6. r.new = {} \/ \E b : /\ r.new = {b}
                           /\ r.node.max < b.max /\ b.max \in Int /\ b.pos \in Int
  <2> SUFFICES ASSUME r.new # {}
               PROVE  \E b : /\ r.new = {b}
                             /\ r.node.max < b.max /\ b.max \in Int /\ b.pos \in Int
    OBVIOUS
  <2>1. PICK b : r.new = {b} /\ r.node.max < b.max
    BY <1>2 DEF Outcome
  <2>2. b \in Both(r)
    BY <1>4, <2>1
  <2>3. b.max \in Int /\ b.pos \in Int
    BY <1>2, <2>2 DEF Keyed
  <2> QED BY <2>1, <2>3
<1>7. ASSUME NEW e \in ToSet(p.kids), e # Name(d), NEW n \in Both(r) PROVE e.key # n.max
  <2>1. PICK m \in X : Name(m) = e
    BY <1>1, LinkDown
  <2>2. m # d /\ e.key = m.max /\ m.max \in KeysIn(m)
    BY <1>7, <2>1, NameOf DEF Keyed
  <2>3. Covers(X, d, n.max)
    BY <1>2 DEF Keyed
  <2>4. n.max \notin KeysIn(m)
    BY <2>2, <2>3, CoveredElsewhere
  <2> QED BY <2>2, <2>4
<1>8. \A e \in ToSet(p.kids) : e # Name(d) => \A n \in Both(r) : e.key # n.max
  BY <1>7
<1>9. Name(d) \in ToSet(p.kids)
  BY <1>1
<1>10. /\ \A n \in Both(g) : IsMid(n)
       /\ Outcome(g, p, P2)
       /\ AllRows(Both(g)) = Exchanged(ToSet(p.kids), Name(d), Names(Both(r)))
  BY <1>1, <1>3, <1>5, <1>6, <1>8, <1>9, GrowReplaces
<1> HIDE DEF g
<1>11. ASSUME NEW n \in Both(g), NEW x \in KeysIn(n) PROVE Covers(P, p, x)
  <2>1. PICK e \in ToSet(Rows(n)) : e.key = x
    BY DEF KeysIn
  <2>2. e \in AllRows(Both(g))
    BY <2>1 DEF AllRows
  <2>3. e \in ToSet(p.kids) \/ e \in Names(Both(r))
    BY <1>10, <2>2 DEF Exchanged
  <2>4. CASE e \in ToSet(p.kids)
    <3>1. x \in KeysIn(p)
      BY <1>1, <2>1, <2>4 DEF KeysIn
    <3> QED BY <1>1, <3>1, CoversOwn
  <2>5. CASE e \in Names(Both(r))
    <3>1. PICK a \in Both(r) : e = Name(a)
      BY <2>5 DEF Names
    <3>2. x = a.max /\ x \in KeysIn(a)
      BY <1>2, <2>1, <3>1, NameOf DEF Keyed
    <3>3. Covers(X, d, x)
      BY <1>2, <3>2
    <3>4. \A m \in X : Keyed(m)
      OBVIOUS
    <3> QED BY <1>1, <3>3, <3>4, AscendCovers
  <2> QED BY <2>3, <2>4, <2>5
<1>12. Grows(P, p, g, P2)
  BY <1>10, <1>11, MidFacts DEF Grows
<1> QED BY <1>1, <1>10, <1>12 DEF g

(* and the root *)
LEMMA RootGrown ==
  ASSUME NEW p \in Roots, p.kids # <<>>, Increasing(p.kids), p.max = Last(p.kids).key,
         NEW X, \A n \in X : Keyed(n) /\ n.old = n.max /\ n.pos \in Int, Apart(X),
         NEW d \in X, AllRows({p}) = Names(X), Name(d) \in ToSet(p.kids),
         NEW r, NEW cap, Grows(X, d, r, cap)
  PROVE  LET u == Update(p, r.node)
             g == RootInsert(u, r.new)
         IN  /\ Len(u.kids) = Len(p.kids)
             /\ g \in Roots /\ g.kids # <<>> /\ Increasing(g.kids)
             /\ g.max = Last(g.kids).key
             /\ r.new # {} => Len(g.kids) = Len(p.kids) + 1
             /\ ToSet(g.kids) = Exchanged(ToSet(p.kids), Name(d), Names(Both(r)))
<1>1. Rows(p) = p.kids
  BY RootFacts
<1>2. Outcome(r, d, cap) /\ \A n \in Both(r) : Keyed(n) /\ n.pos \in Int /\ \A x \in KeysIn(n) : Covers(X, d, x)
  BY DEF Grows
<1>3. /\ d.pos \in Int /\ d.old = d.max /\ d.max \in Int
  BY DEF Keyed
<1>4. r.node \in Both(r) /\ r.new \subseteq Both(r)
  BY DEF Both
<1>5. r.node.old = d.max /\ r.node.pos = d.pos /\ r.node.max \in Int
  BY <1>2, <1>3, <1>4 DEF Outcome, Keyed
<1>6. r.new = {} \/ \E b : /\ r.new = {b}
                           /\ r.node.max < b.max /\ b.max \in Int /\ b.pos \in Int
  <2> SUFFICES ASSUME r.new # {}
               PROVE  \E b : /\ r.new = {b}
                             /\ r.node.max < b.max /\ b.max \in Int /\ b.pos \in Int
    OBVIOUS
  <2>1. PICK b : r.new = {b} /\ r.node.max < b.max
    BY <1>2 DEF Outcome
  <2>2. b \in Both(r)
    BY <1>4, <2>1
  <2>3. b.max \in Int /\ b.pos \in Int
    BY <1>2, <2>2 DEF Keyed
  <2> QED BY <2>1, <2>3
<1>7. ASSUME NEW e \in ToSet(p.kids), e # Name(d), NEW n \in Both(r) PROVE e.key # n.max
  <2>1. PICK m \in X : Name(m) = e
    <3>1. p \in {p} /\ e \in ToSet(Rows(p))
      BY <1>1
    <3> QED BY <3>1, LinkDown
  <2>2. m # d /\ e.key = m.max /\ m.max \in KeysIn(m)
    BY <1>7, <2>1, NameOf DEF Keyed
  <2>3. Covers(X, d, n.max)
    BY <1>2 DEF Keyed
  <2>4. n.max \notin KeysIn(m)
    BY <2>2, <2>3, CoveredElsewhere
  <2> QED BY <2>2, <2>4
<1>8. \A e \in ToSet(p.kids) : e # Name(d) => \A n \in Both(r) : e.key # n.max
  BY <1>7
<1> DEFINE u == Update(p, r.node)
           g == RootInsert(u, r.new)
<1>9. /\ Len(u.kids) = Len(p.kids)
      /\ g \in Roots /\ g.kids # <<>> /\ Increasing(g.kids)
      /\ g.max = Last(g.kids).key
      /\ r.new # {} => Len(g.kids) = Len(p.kids) + 1
      /\ ToSet(g.kids) = Exchanged(ToSet(p.kids), Name(d), Names(Both(r)))
  BY <1>3, <1>5, <1>6, <1>8, RootReplaces
<1> QED BY <1>9

(* One layer of Finish: the node d of it has become Both(r).               *)
LEMMA MidLayerStep ==
  ASSUME NEW X, Layer(X, P2), \A n \in X : IsMid(n), NEW d \in X,
         NEW r, Grows(X, d, r, P2), \A n \in Both(r) : IsMid(n),
         NEW new, Numbers(new, Both(r)),
         NEW newBelow, \A x \in DOMAIN newBelow : newBelow[x] \in Int
  PROVE  LET F == MidsOf(Linkeds(Both(r)), new, newBelow)
             Y == Instead(X, d, F)
         IN  /\ Layer(Y, P2)
             /\ \A n \in Y : IsMid(n)
             /\ Names(F) = Renewed(Both(r), new)
             /\ AllRows(F) = Repoints(AllRows(Both(r)), newBelow)
<1> DEFINE R == Both(r)
           F == MidsOf(Linkeds(R), new, newBelow)
           Y == Instead(X, d, F)
<1>1. Outcome(r, d, P2) /\ \A n \in R : Keyed(n) /\ Len(Rows(n)) \in Nat /\ \A x \in KeysIn(n) : Covers(X, d, x)
  BY DEF Grows
<1>2. \A m, n \in R : m.max = n.max => m = n
  BY <1>1, BothApart
<1>3. /\ \A m \in F : IsMid(m) /\ m.old = m.max /\ m.pos \in Int
      /\ Copies(F, R)
      /\ Names(F) = Renewed(R, new)
      /\ AllRows(F) = Repoints(AllRows(R), newBelow)
  <2> HIDE DEF R
  <2>1. /\ \A n \in R : IsMid(n)
        /\ Numbers(new, R)
    BY DEF R
  <2> QED BY <1>2, <2>1, MidsWritten
<1>4. Len(Rows(d)) \in Nat /\ P2 \in Nat
  BY MidFacts, NodeSizes
<1>5. Layer(Y, P2)
  <2> HIDE DEF F
  <2>1. \A n \in F : n.old = n.max /\ n.pos \in Int
    BY <1>3
  <2> QED BY <1>1, <1>3, <1>4, <2>1, LayerReplaced
<1>6. \A n \in Y : IsMid(n)
  BY <1>3 DEF Instead
<1> QED BY <1>3, <1>5, <1>6

(* The same of the leaves. *)
LEMMA LeafLayerStep ==
  ASSUME NEW X, Layer(X, C), \A n \in X : IsLeaf(n), NEW d \in X,
         NEW r, Grows(X, d, r, C), \A n \in Both(r) : IsLeaf(n),
         NEW new, Numbers(new, Both(r))
  PROVE  LET F == Moved(Linkeds(Both(r)), new)
             Y == Instead(X, d, F)
         IN  /\ Layer(Y, C)
             /\ \A n \in Y : IsLeaf(n)
             /\ Names(F) = Renewed(Both(r), new)
             /\ AllRows(F) = AllRows(Both(r))
<1> DEFINE R == Both(r)
           F == Moved(Linkeds(R), new)
           Y == Instead(X, d, F)
<1>1. Outcome(r, d, C) /\ \A n \in R : Keyed(n) /\ Len(Rows(n)) \in Nat /\ \A x \in KeysIn(n) : Covers(X, d, x)
  BY DEF Grows
<1>2. \A m, n \in R : m.max = n.max => m = n
  BY <1>1, BothApart
<1>3. /\ \A m \in F : IsLeaf(m) /\ m.old = m.max /\ m.pos \in Int
      /\ Copies(F, R)
      /\ Names(F) = Renewed(R, new)
      /\ AllRows(F) = AllRows(R)
  <2> HIDE DEF R
  <2>1. /\ \A n \in R : IsLeaf(n)
        /\ Numbers(new, R)
    BY DEF R
  <2> QED BY <1>2, <2>1, LeavesWritten
<1>4. Len(Rows(d)) \in Nat /\ C \in Nat
  BY LeafFacts, NodeSizes
<1>5. Layer(Y, C)
  <2> HIDE DEF F
  <2>1. \A n \in F : n.old = n.max /\ n.pos \in Int
    BY <1>3
  <2> QED BY <1>1, <1>3, <1>4, <2>1, LayerReplaced
<1>6. \A n \in Y : IsLeaf(n)
  BY <1>3 DEF Instead
<1> QED BY <1>3, <1>5, <1>6

(* the nodes that insert and search read *)
Way(rt, m1, m2, ls, d) ==
  /\ d[1] \in m1 /\ Name(d[1]) \in ToSet(rt.kids)
  /\ d[2] \in m2 /\ Name(d[2]) \in ToSet(Rows(d[1]))
  /\ d[3] \in ls /\ Name(d[3]) \in ToSet(Rows(d[2]))

(* what they become: each node gives way to those of r                     *)
Changes(rt, m1, m2, ls, d, rt2, r1, r2, r3) ==
  /\ Grows(ls, d[3], r3, C) /\ \A n \in Both(r3) : IsLeaf(n) /\ ToSet(n.arr) \subseteq PairsOfMap
  /\ Grows(m2, d[2], r2, P2) /\ \A n \in Both(r2) : IsMid(n)
  /\ AllRows(Both(r2)) = Exchanged(ToSet(Rows(d[2])), Name(d[3]), Names(Both(r3)))
  /\ Grows(m1, d[1], r1, P2) /\ \A n \in Both(r1) : IsMid(n)
  /\ AllRows(Both(r1)) = Exchanged(ToSet(Rows(d[1])), Name(d[2]), Names(Both(r2)))
  /\ rt2 \in Roots /\ rt2.kids # <<>> /\ Increasing(rt2.kids) /\ rt2.max = Last(rt2.kids).key
  /\ ToSet(rt2.kids) = Exchanged(ToSet(rt.kids), Name(d[1]), Names(Both(r1)))

(* What the order of the layers says of their nodes. *)
LEMMA SortedFacts ==
  ASSUME NEW rt, NEW m1, NEW m2, NEW ls, Sorted(rt, m1, m2, ls)
  PROVE  /\ \A n \in m1 : IsMid(n) /\ Keyed(n) /\ n.old = n.max /\ n.pos \in Int
         /\ \A n \in m2 : IsMid(n) /\ Keyed(n) /\ n.old = n.max /\ n.pos \in Int
         /\ \A n \in ls : IsLeaf(n) /\ Keyed(n) /\ n.old = n.max /\ n.pos \in Int
         /\ Apart(m1) /\ Apart(m2) /\ Apart(ls)
BY DEF Sorted, Layer

HeldWithout(ls, l, written) == AllRows(ls \ {l}) \union AllRows(written)

(* The layers stay in order when the nodes that an operation read give way *)
(* to what it made of them, and the pairs of the other leaves stay.        *)
LEMMA StepSorted ==
  ASSUME NEW rt, NEW m1, NEW m2, NEW ls, Sorted(rt, m1, m2, ls), rt.kids # <<>>,
         NEW d, Way(rt, m1, m2, ls, d),
         NEW rt2, NEW r1, NEW r2, NEW r3, Changes(rt, m1, m2, ls, d, rt2, r1, r2, r3),
         NEW new1, Numbers(new1, Both(r1)), NEW new2, Numbers(new2, Both(r2)),
         NEW new3, Numbers(new3, Both(r3))
  PROVE  LET F3 == Moved(Linkeds(Both(r3)), new3)
             F2 == MidsOf(Linkeds(Both(r2)), new2, new3)
             F1 == MidsOf(Linkeds(Both(r1)), new1, new2)
         IN  /\ Sorted(Repointed(rt2, new1), Instead(m1, d[1], F1), Instead(m2, d[2], F2),
                       Instead(ls, d[3], F3))
             /\ AllRows(Instead(ls, d[3], F3)) = HeldWithout(ls, d[3], Both(r3))
<1> DEFINE F3 == Moved(Linkeds(Both(r3)), new3)
           F2 == MidsOf(Linkeds(Both(r2)), new2, new3)
           F1 == MidsOf(Linkeds(Both(r1)), new1, new2)
           Y3 == Instead(ls, d[3], F3)
           Y2 == Instead(m2, d[2], F2)
           Y1 == Instead(m1, d[1], F1)
           u == Repointed(rt2, new1)
<1>1. /\ \A n \in m1 : IsMid(n) /\ Keyed(n) /\ n.old = n.max /\ n.pos \in Int
      /\ \A n \in m2 : IsMid(n) /\ Keyed(n) /\ n.old = n.max /\ n.pos \in Int
      /\ \A n \in ls : IsLeaf(n) /\ Keyed(n) /\ n.old = n.max /\ n.pos \in Int
      /\ Apart(m1) /\ Apart(m2) /\ Apart(ls)
  BY SortedFacts
<1>2. /\ rt \in Roots /\ Increasing(rt.kids) /\ rt.max = Last(rt.kids).key
      /\ Layer(m1, P2) /\ Layer(m2, P2) /\ Layer(ls, C)
      /\ AllRows({rt}) = Names(m1) /\ AllRows(m1) = Names(m2) /\ AllRows(m2) = Names(ls)
      /\ \A n \in ls : ToSet(n.arr) \subseteq PairsOfMap
  BY DEF Sorted
<1>3. /\ d[1] \in m1 /\ Name(d[1]) \in ToSet(rt.kids)
      /\ d[2] \in m2 /\ Name(d[2]) \in ToSet(Rows(d[1]))
      /\ d[3] \in ls /\ Name(d[3]) \in ToSet(Rows(d[2]))
  BY DEF Way
<1>4. /\ Grows(ls, d[3], r3, C) /\ \A n \in Both(r3) : IsLeaf(n) /\ ToSet(n.arr) \subseteq PairsOfMap
      /\ Grows(m2, d[2], r2, P2) /\ \A n \in Both(r2) : IsMid(n)
      /\ AllRows(Both(r2)) = Exchanged(ToSet(Rows(d[2])), Name(d[3]), Names(Both(r3)))
      /\ Grows(m1, d[1], r1, P2) /\ \A n \in Both(r1) : IsMid(n)
      /\ AllRows(Both(r1)) = Exchanged(ToSet(Rows(d[1])), Name(d[2]), Names(Both(r2)))
      /\ rt2 \in Roots /\ rt2.kids # <<>> /\ Increasing(rt2.kids) /\ rt2.max = Last(rt2.kids).key
      /\ ToSet(rt2.kids) = Exchanged(ToSet(rt.kids), Name(d[1]), Names(Both(r1)))
  BY DEF Changes
<1>5. /\ \A x \in DOMAIN new1 : new1[x] \in Int
      /\ \A x \in DOMAIN new2 : new2[x] \in Int
      /\ \A x \in DOMAIN new3 : new3[x] \in Int
      /\ DOMAIN new1 = {n.max : n \in Both(r1)}
      /\ DOMAIN new2 = {n.max : n \in Both(r2)}
      /\ DOMAIN new3 = {n.max : n \in Both(r3)}
  BY DEF Numbers
<1>6. /\ \A n \in Both(r1) : Covers(m1, d[1], n.max)
      /\ \A n \in Both(r2) : Covers(m2, d[2], n.max)
      /\ \A n \in Both(r3) : Covers(ls, d[3], n.max)
  BY <1>4 DEF Grows, Keyed
<1>7. /\ Layer(Y3, C)
      /\ \A n \in Y3 : IsLeaf(n)
      /\ Names(F3) = Renewed(Both(r3), new3)
      /\ AllRows(F3) = AllRows(Both(r3))
  <2>1. /\ Layer(ls, C) /\ \A n \in ls : IsLeaf(n)
        /\ d[3] \in ls /\ Grows(ls, d[3], r3, C) /\ \A n \in Both(r3) : IsLeaf(n)
    BY <1>1, <1>2, <1>3, <1>4
  <2> QED BY <2>1, LeafLayerStep
<1>8. /\ Layer(Y2, P2)
      /\ \A n \in Y2 : IsMid(n)
      /\ Names(F2) = Renewed(Both(r2), new2)
      /\ AllRows(F2) = Repoints(AllRows(Both(r2)), new3)
  <2>1. /\ Layer(m2, P2) /\ \A n \in m2 : IsMid(n)
        /\ d[2] \in m2 /\ Grows(m2, d[2], r2, P2) /\ \A n \in Both(r2) : IsMid(n)
    BY <1>1, <1>2, <1>3, <1>4
  <2> QED BY <1>5, <2>1, MidLayerStep
<1>9. /\ Layer(Y1, P2)
      /\ \A n \in Y1 : IsMid(n)
      /\ Names(F1) = Renewed(Both(r1), new1)
      /\ AllRows(F1) = Repoints(AllRows(Both(r1)), new2)
  <2>1. /\ Layer(m1, P2) /\ \A n \in m1 : IsMid(n)
        /\ d[1] \in m1 /\ Grows(m1, d[1], r1, P2) /\ \A n \in Both(r1) : IsMid(n)
    BY <1>1, <1>2, <1>3, <1>4
  <2> QED BY <1>5, <2>1, MidLayerStep
<1>10. /\ u \in Roots /\ u.kids # <<>> /\ Increasing(u.kids) /\ u.max = Last(u.kids).key
       /\ ToSet(u.kids) = Repoints(ToSet(rt2.kids), new1)
  BY <1>4, <1>5, RootRepointed
<1> HIDE DEF F1, F2, F3, u
<1>11. AllRows(Y2) = Names(Y3)
  <2>1. \A n \in m2 : Keyed(n)
    BY <1>1
  <2>2. \A n \in ls : Keyed(n)
    BY <1>1
  <2> QED BY <1>1, <1>2, <1>3, <1>4, <1>5, <1>6, <1>7, <1>8, <2>1, <2>2, LinkReplaced
<1>12. AllRows(Y1) = Names(Y2)
  <2>1. \A n \in m1 : Keyed(n)
    BY <1>1
  <2>2. \A n \in m2 : Keyed(n)
    BY <1>1
  <2> QED BY <1>1, <1>2, <1>3, <1>4, <1>5, <1>6, <1>8, <1>9, <2>1, <2>2, LinkReplaced
<1>13. AllRows({u}) = Names(Y1)
  <2>1. \A n \in m1 : Keyed(n)
    BY <1>1
  <2>2. Keyed(rt) /\ Rows(rt) = rt.kids /\ Apart({rt})
    BY <1>2, RootFacts
  <2>3. \A n \in {rt} : Keyed(n)
    BY <2>2
  <2>4. AllRows({rt2}) = ToSet(rt2.kids)
    BY <1>4, RootFacts
  <2>5. AllRows({u}) = ToSet(u.kids)
    BY <1>10, RootFacts
  <2>6. AllRows({rt2}) = Exchanged(ToSet(Rows(rt)), Name(d[1]), Names(Both(r1)))
    BY <1>4, <2>2, <2>4
  <2>7. AllRows({u}) = Repoints(AllRows({rt2}), new1)
    BY <1>10, <2>4, <2>5
  <2>8. Name(d[1]) \in ToSet(Rows(rt)) /\ rt \in {rt}
    BY <1>3, <2>2
  <2>9. AllRows(Instead({rt}, rt, {u})) = Names(Y1)
    BY <1>1, <1>2, <1>3, <1>5, <1>6, <1>9, <2>1, <2>2, <2>3, <2>6, <2>7, <2>8, LinkReplaced
  <2>10. Instead({rt}, rt, {u}) = {u}
    BY DEF Instead
  <2> QED BY <2>9, <2>10
<1>14. AllRows(Y3) = AllRows(ls \ {d[3]}) \union AllRows(Both(r3))
  <2>1. AllRows(Y3) = AllRows(ls \ {d[3]}) \union AllRows(F3)
    BY DEF AllRows, Instead
  <2> QED BY <1>7, <2>1
<1>15. \A n \in Y3 : ToSet(n.arr) \subseteq PairsOfMap
  <2> SUFFICES ASSUME NEW n \in Y3, NEW p \in ToSet(n.arr) PROVE p \in PairsOfMap
    OBVIOUS
  <2>1. p \in AllRows(Y3)
    <3>1. Rows(n) = n.arr
      BY <1>7, LeafFacts
    <3> QED BY <3>1 DEF AllRows
  <2>2. CASE p \in AllRows(ls \ {d[3]})
    <3>1. PICK m \in ls : p \in ToSet(Rows(m))
      BY <2>2 DEF AllRows
    <3>2. Rows(m) = m.arr
      BY <1>1, LeafFacts
    <3> QED BY <1>2, <3>1, <3>2
  <2>3. CASE p \in AllRows(Both(r3))
    <3>1. PICK m \in Both(r3) : p \in ToSet(Rows(m))
      BY <2>3 DEF AllRows
    <3>2. Rows(m) = m.arr
      BY <1>4, LeafFacts
    <3> QED BY <1>4, <3>1, <3>2
  <2> QED BY <1>14, <2>1, <2>2, <2>3
<1>16. Sorted(u, Y1, Y2, Y3)
  BY <1>7, <1>8, <1>9, <1>10, <1>11, <1>12, <1>13, <1>15 DEF Sorted
<1>17. AllRows(Y3) = HeldWithout(ls, d[3], Both(r3))
  BY <1>14 DEF HeldWithout
<1> QED BY <1>16, <1>17 DEF F1, F2, F3, u

(* The rows of a layer have different keys: there are no more of them than *)
(* keys.                                                                   *)
LEMMA RowsCount ==
  ASSUME NEW X, \A n \in X : Keyed(n), Apart(X),
         NEW K, IsFiniteSet(K), \A n \in X : KeysIn(n) \subseteq K,
         NEW h \in Nat, \A n \in X : /\ \A i \in 1 .. h : i \in DOMAIN Rows(n)
                                     /\ Increasing(Rows(n))
                                     /\ \A i \in DOMAIN Rows(n) : Rows(n)[i].key \in Int
  PROVE  /\ IsFiniteSet(X)
         /\ Cardinality(X) \in Nat
         /\ Cardinality(X) * h <= Cardinality(K)
<1> DEFINE f == [n \in X |-> n.max]
           g == [e \in X \X (1 .. h) |-> Rows(e[1])[e[2]].key]
<1>1. f \in Injection(X, K)
  <2>1. \A n \in X : n.max \in K
    BY DEF Keyed
  <2>2. \A m, n \in X : m.max = n.max => m = n
    BY ApartMaxes
  <2> QED BY <2>1, <2>2 DEF Injection, IsInjective
<1>2. IsFiniteSet(X) /\ Cardinality(X) \in Nat
  BY <1>1, FS_Injection, FS_CardinalityType
<1>3. \A n \in X, i \in 1 .. h : Rows(n)[i].key \in KeysIn(n) /\ Rows(n)[i].key \in K
  BY DEF KeysIn, ToSet
<1>4. ASSUME NEW m \in X, NEW i \in 1 .. h, NEW n \in X, NEW j \in 1 .. h,
             Rows(m)[i].key = Rows(n)[j].key
      PROVE  m = n /\ i = j
  <2> DEFINE x == Rows(m)[i].key
  <2>1. x \in KeysIn(m) /\ x \in KeysIn(n) /\ x \in Int
    BY <1>3, <1>4
  <2>2. m = n
    <3> SUFFICES ASSUME m # n PROVE FALSE
      OBVIOUS
    <3> HIDE DEF x
    <3>1. Covers(X, m, x)
      BY <2>1, CoversOwn
    <3>2. x \notin KeysIn(n)
      BY <3>1, CoveredElsewhere
    <3> QED BY <2>1, <3>2
  <2>3. i \in DOMAIN Rows(m) /\ j \in DOMAIN Rows(m) /\ Increasing(Rows(m))
    BY <2>2
  <2>4. ~(i < j) /\ ~(j < i)
    BY <1>4, <2>1, <2>2, <2>3 DEF Increasing
  <2> QED BY <2>2, <2>4
<1>5. g \in Injection(X \X (1 .. h), K)
  <2>1. g \in [X \X (1 .. h) -> K]
    BY <1>3
  <2>2. ASSUME NEW a \in X \X (1 .. h), NEW b \in X \X (1 .. h), g[a] = g[b]
        PROVE  a = b
    <3>1. a = <<a[1], a[2]>> /\ b = <<b[1], b[2]>>
      OBVIOUS
    <3>2. a[1] \in X /\ a[2] \in 1 .. h /\ b[1] \in X /\ b[2] \in 1 .. h
      OBVIOUS
    <3>3. Rows(a[1])[a[2]].key = Rows(b[1])[b[2]].key
      BY <2>2
    <3>4. a[1] = b[1] /\ a[2] = b[2]
      BY <1>4, <3>2, <3>3
    <3> QED BY <3>1, <3>4
  <2> HIDE DEF g
  <2> QED BY <2>1, <2>2 DEF Injection, IsInjective
<1> HIDE DEF g
<1>6. Cardinality(X \X (1 .. h)) <= Cardinality(K)
  BY <1>5, FS_Injection
<1>7. IsFiniteSet(1 .. h) /\ Cardinality(1 .. h) = h
  <2>1. 1 \in Int /\ h \in Int
    OBVIOUS
  <2> QED BY <2>1, FS_Interval
<1>8. Cardinality(X \X (1 .. h)) = Cardinality(X) * Cardinality(1 .. h)
  BY <1>2, <1>7, FS_Product
<1> QED BY <1>2, <1>6, <1>7, <1>8

Maxes(nodes) == {n.max : n \in nodes}

(* There are no more ids than nodes. *)
LEMMA MaxesCount ==
  ASSUME NEW X, IsFiniteSet(X)
  PROVE  /\ IsFiniteSet(Maxes(X))
         /\ Cardinality(Maxes(X)) \in Nat
         /\ Cardinality(Maxes(X)) <= Cardinality(X)
<1> DEFINE f == [n \in X |-> n.max]
<1>1. f \in Surjection(X, Maxes(X))
  BY DEF Surjection, Maxes
<1> QED BY <1>1, FS_Surjection, FS_CardinalityType

(* nodes that are alone or at least half full *)
LEMMA CrowdedCount ==
  ASSUME NEW X, NEW cap \in Nat \ {0}, Layer(X, cap), NEW K, IsFiniteSet(K),
         \A n \in X : /\ KeysIn(n) \subseteq K
                      /\ Len(Rows(n)) \in Nat /\ DOMAIN Rows(n) = 1 .. Len(Rows(n))
                      /\ Increasing(Rows(n))
                      /\ \A i \in DOMAIN Rows(n) : Rows(n)[i].key \in Int
  PROVE  /\ IsFiniteSet(X)
         /\ Cardinality(X) \in Nat
         /\ Cardinality(X) <= 1 \/ Cardinality(X) * HalfOf(cap) <= Cardinality(K)
<1>1. (\A n \in X : Keyed(n)) /\ Apart(X) /\ Crowded(X, cap)
  BY DEF Layer
<1>2. IsFiniteSet(X) /\ Cardinality(X) \in Nat
  <2>1. \A n \in X : \A i \in 1 .. 0 : i \in DOMAIN Rows(n)
    OBVIOUS
  <2> QED BY <1>1, <2>1, RowsCount
<1>3. CASE \A m, n \in X : m = n
  <2>1. CASE X = {}
    BY <1>2, <2>1, FS_EmptySet
  <2>2. CASE X # {}
    <3>1. PICK n \in X : X = {n}
      BY <1>3, <2>2
    <3>2. Cardinality(X) = 1
      BY <3>1, FS_Singleton
    <3> QED BY <1>2, <3>2
  <2> QED BY <2>1, <2>2
<1>4. CASE \A n \in X : 2 * Len(Rows(n)) >= cap
  <2>1. HalfOf(cap) \in Nat
    BY DEF HalfOf
  <2>2. \A n \in X : \A i \in 1 .. HalfOf(cap) : i \in DOMAIN Rows(n)
    <3> TAKE n \in X
    <3>1. Len(Rows(n)) \in Nat /\ 2 * Len(Rows(n)) >= cap
      BY <1>4
    <3>2. HalfOf(cap) <= Len(Rows(n))
      BY <3>1 DEF HalfOf
    <3> QED BY <2>1, <3>1, <3>2
  <2>3. Cardinality(X) * HalfOf(cap) <= Cardinality(K)
    BY <1>1, <2>1, <2>2, RowsCount
  <2> QED BY <1>2, <2>3
<1> QED BY <1>1, <1>3, <1>4 DEF Crowded

(* The entries of a midNode, by their indices. *)
LEMMA MidRows ==
  ASSUME NEW n, IsMid(n)
  PROVE  /\ Len(Rows(n)) \in Nat /\ DOMAIN Rows(n) = 1 .. Len(Rows(n))
         /\ Increasing(Rows(n))
         /\ \A i \in DOMAIN Rows(n) : Rows(n)[i].key \in Int
<1>1. Rows(n) \in Seq(Links) /\ Increasing(Rows(n))
  BY RowsOfMid DEF IsMid, Mids, Tidy
<1> QED BY <1>1, EntriesHaveKeys

(* The pairs of a leafNode, by their indices. *)
LEMMA LeafRows ==
  ASSUME NEW n, IsLeaf(n)
  PROVE  /\ Len(Rows(n)) \in Nat /\ DOMAIN Rows(n) = 1 .. Len(Rows(n))
         /\ Increasing(Rows(n))
         /\ \A i \in DOMAIN Rows(n) : Rows(n)[i].key \in Int
<1>1. Rows(n) \in Seq(Pairs) /\ Increasing(Rows(n))
  BY RowsOfLeaf DEF IsLeaf, Leafs, Tidy
<1> QED BY <1>1, PairsHaveKeys

(* The keys of a layer are the ids of the next one. *)
LEMMA KeysBelow ==
  ASSUME NEW P, NEW X, AllRows(P) = Names(X)
  PROVE  \A n \in P : KeysIn(n) \subseteq Maxes(X)
BY KeyDown DEF Maxes

(* What a division rounds down to. *)
LEMMA Divide ==
  ASSUME NEW a \in Nat, NEW b \in Nat \ {0}, NEW x \in Nat, x * b <= a
  PROVE  a \div b \in Nat /\ x <= a \div b
<1>1. a \div b \in Nat /\ a < (a \div b) * b + b
  OBVIOUS
<1>2. SUFFICES ASSUME x >= (a \div b) + 1 PROVE FALSE
  BY <1>1
<1>3. x * b >= ((a \div b) + 1) * b
  BY <1>1, <1>2
<1>4. ((a \div b) + 1) * b = (a \div b) * b + b
  BY <1>1
<1> QED BY <1>1, <1>3, <1>4

(* Layers of half full nodes above n keys leave the root p children at     *)
(* most.                                                                   *)
LEMMA Room ==
  ASSUME NEW a \in Nat, NEW x \in Nat, NEW y \in Nat, NEW z \in Nat, NEW n \in Nat,
         NEW h \in Nat \ {0}, NEW hc \in Nat \ {0}, NEW p \in Nat \ {0},
         a <= x, x <= 1 \/ x * h <= y, y <= 1 \/ y * h <= z, z <= 1 \/ z * hc <= n,
         (n \div hc) \div (h * h) <= p
  PROVE  a <= p
<1>1. CASE x <= 1
  BY <1>1
<1>2. CASE x > 1
  <2>1. x * h <= y /\ y >= x
    BY <1>2
  <2>2. y * h <= z /\ z >= y
    BY <1>2, <2>1
  <2>3. z * hc <= n
    BY <1>2, <2>1, <2>2
  <2>4. n \div hc \in Nat /\ z <= n \div hc
    BY <2>3, Divide
  <2>5. x * (h * h) <= n \div hc
    <3>1. (x * h) * h <= y * h
      BY <2>1
    <3>2. (x * h) * h = x * (h * h)
      OBVIOUS
    <3> QED BY <2>2, <2>4, <3>1, <3>2
  <2>6. h * h \in Nat \ {0}
    OBVIOUS
  <2> DEFINE q == n \div hc
             b == h * h
  <2>7. q \in Nat /\ b \in Nat \ {0} /\ x * b <= q /\ q \div b <= p
    BY <2>4, <2>5, <2>6
  <2> HIDE DEF q, b
  <2>8. q \div b \in Nat /\ x <= q \div b
    BY <2>7, Divide
  <2> QED BY <2>7, <2>8
<1> QED BY <1>1, <1>2

(* The root has at most P1 children. *)
LEMMA RootHasRoom ==
  ASSUME NEW rt, NEW m1, NEW m2, NEW ls, Sorted(rt, m1, m2, ls)
  PROVE  Len(rt.kids) <= P1
<1>1. /\ \A n \in m1 : IsMid(n) /\ Keyed(n)
      /\ \A n \in m2 : IsMid(n) /\ Keyed(n)
      /\ \A n \in ls : IsLeaf(n) /\ Keyed(n)
      /\ Apart(m1) /\ Apart(m2) /\ Apart(ls)
  BY SortedFacts
<1>2. /\ rt \in Roots /\ Increasing(rt.kids)
      /\ rt.kids # <<>> => rt.max = Last(rt.kids).key
      /\ Layer(m1, P2) /\ Layer(m2, P2) /\ Layer(ls, C)
      /\ AllRows({rt}) = Names(m1) /\ AllRows(m1) = Names(m2) /\ AllRows(m2) = Names(ls)
      /\ \A n \in ls : ToSet(n.arr) \subseteq PairsOfMap
  BY DEF Sorted
<1>3. IsFiniteSet(Keys) /\ P1 \in Nat \ {0} /\ C \in Nat \ {0} /\ P2 \in Nat \ {0}
  BY MapBounds, NodeSizes
<1>4. \A n \in ls : KeysIn(n) \subseteq Keys
  <2> SUFFICES ASSUME NEW n \in ls, NEW x \in KeysIn(n) PROVE x \in Keys
    OBVIOUS
  <2>1. PICK p \in ToSet(Rows(n)) : p.key = x
    BY DEF KeysIn
  <2>2. p \in PairsOfMap
    BY <1>1, <1>2, <2>1, LeafFacts
  <2> QED BY <2>1, <2>2 DEF PairsOfMap
<1>5. /\ IsFiniteSet(ls) /\ Cardinality(ls) \in Nat
      /\ Cardinality(ls) <= 1 \/ Cardinality(ls) * HalfOf(C) <= Cardinality(Keys)
  <2>1. \A n \in ls : /\ Len(Rows(n)) \in Nat /\ DOMAIN Rows(n) = 1 .. Len(Rows(n))
                      /\ Increasing(Rows(n))
                      /\ \A i \in DOMAIN Rows(n) : Rows(n)[i].key \in Int
    BY <1>1, LeafRows
  <2> QED BY <1>2, <1>3, <1>4, <2>1, CrowdedCount
<1>6. ASSUME NEW P, NEW X, Layer(P, P2), \A n \in P : IsMid(n), AllRows(P) = Names(X),
             IsFiniteSet(X), Cardinality(X) \in Nat
      PROVE  /\ IsFiniteSet(P) /\ Cardinality(P) \in Nat
             /\ Cardinality(P) <= 1 \/ Cardinality(P) * HalfOf(P2) <= Cardinality(X)
  <2>1. \A n \in P : /\ Len(Rows(n)) \in Nat /\ DOMAIN Rows(n) = 1 .. Len(Rows(n))
                     /\ Increasing(Rows(n))
                     /\ \A i \in DOMAIN Rows(n) : Rows(n)[i].key \in Int
    BY <1>6, MidRows
  <2>2. \A n \in P : KeysIn(n) \subseteq Maxes(X)
    BY <1>6, KeysBelow
  <2>3. /\ IsFiniteSet(Maxes(X))
        /\ Cardinality(Maxes(X)) \in Nat
        /\ Cardinality(Maxes(X)) <= Cardinality(X)
    BY <1>6, MaxesCount
  <2>4. /\ IsFiniteSet(P) /\ Cardinality(P) \in Nat
        /\ Cardinality(P) <= 1 \/ Cardinality(P) * HalfOf(P2) <= Cardinality(Maxes(X))
    BY <1>3, <1>6, <2>1, <2>2, <2>3, CrowdedCount
  <2>5. HalfOf(P2) \in Nat
    BY <1>3 DEF HalfOf
  <2>6. Cardinality(P) * HalfOf(P2) \in Nat
    BY <2>4, <2>5
  <2> QED BY <1>6, <2>3, <2>4, <2>6
<1>7. /\ IsFiniteSet(m2) /\ Cardinality(m2) \in Nat
      /\ Cardinality(m2) <= 1 \/ Cardinality(m2) * HalfOf(P2) <= Cardinality(ls)
  BY <1>1, <1>2, <1>5, <1>6
<1>8. /\ IsFiniteSet(m1) /\ Cardinality(m1) \in Nat
      /\ Cardinality(m1) <= 1 \/ Cardinality(m1) * HalfOf(P2) <= Cardinality(m2)
  BY <1>1, <1>2, <1>6, <1>7
<1>9. rt.kids \in Seq(Links) /\ Len(rt.kids) \in Nat
  BY <1>2 DEF Roots
<1>10. CASE rt.kids = <<>>
  BY <1>3, <1>10
<1>11. CASE rt.kids # <<>>
  <2>1. Kidded(rt) /\ Keyed(rt) /\ Rows(rt) = rt.kids /\ Apart({rt})
    BY <1>2, <1>11, RootFacts
  <2>2. \A n \in {rt} : KeysIn(n) \subseteq Maxes(m1)
    BY <1>2, KeysBelow
  <2>3. /\ IsFiniteSet(Maxes(m1))
        /\ Cardinality(Maxes(m1)) \in Nat
        /\ Cardinality(Maxes(m1)) <= Cardinality(m1)
    BY <1>8, MaxesCount
  <2>4. \A n \in {rt} : /\ \A i \in 1 .. Len(rt.kids) : i \in DOMAIN Rows(n)
                        /\ Increasing(Rows(n))
                        /\ \A i \in DOMAIN Rows(n) : Rows(n)[i].key \in Int
    BY <1>2, <1>9, <2>1, EntriesHaveKeys
  <2>5. Cardinality({rt}) * Len(rt.kids) <= Cardinality(Maxes(m1))
    BY <1>9, <2>1, <2>2, <2>3, <2>4, RowsCount
  <2>6. Cardinality({rt}) = 1
    BY FS_Singleton
  <2>7. Len(rt.kids) <= Cardinality(m1)
    BY <1>8, <1>9, <2>3, <2>5, <2>6
  <2>8. HalfOf(P2) \in Nat \ {0} /\ HalfOf(C) \in Nat \ {0}
    BY <1>3 DEF HalfOf
  <2>9. (Cardinality(Keys) \div HalfOf(C)) \div (HalfOf(P2) * HalfOf(P2)) <= P1
    BY MapBounds
  <2>10. Cardinality(Keys) \in Nat
    BY <1>3, FS_CardinalityType
  <2> QED BY <1>3, <1>5, <1>7, <1>8, <1>9, <2>7, <2>8, <2>9, <2>10, Room
<1> QED BY <1>10, <1>11

-----------------------------------------------------------------------------
(* What a map of these pairs has for a key                                 *)
Value(pairs, k) ==
  IF \E p \in pairs : p.key = k THEN (CHOOSE p \in pairs : p.key = k).val ELSE -1

KeyIndex(s, k) == SelectInSeq(s, LAMBDA e : e.key = k)

(* The index a lookup by key finds is the one that has the key, 0 if none  *)
(* has.                                                                    *)
LEMMA KeyIndexIs ==
  ASSUME NEW S, NEW s \in Seq(S), NEW k
  PROVE  /\ \A j \in 1 .. Len(s) :
              s[j].key = k /\ (\A i \in 1 .. Len(s) : s[i].key = k => i = j)
                => KeyIndex(s, k) = j
         /\ (\A i \in 1 .. Len(s) : s[i].key # k) => KeyIndex(s, k) = 0
<1> DEFINE I == {i \in 1 .. Len(s) : s[i].key = k}
<1>1. KeyIndex(s, k) = IF I # {} THEN Min(I) ELSE 0
  BY DEF KeyIndex, SelectInSeq
<1>2. ASSUME NEW j \in 1 .. Len(s), s[j].key = k,
             \A i \in 1 .. Len(s) : s[i].key = k => i = j
      PROVE  KeyIndex(s, k) = j
  <2>1. I = {j}
    BY <1>2
  <2>2. Min({j}) = j
    BY DEF Min
  <2> QED BY <1>1, <2>1, <2>2
<1>3. ASSUME \A i \in 1 .. Len(s) : s[i].key # k PROVE KeyIndex(s, k) = 0
  BY <1>1, <1>3
<1> QED BY <1>2, <1>3

(* leafNode::Search finds the value of a key that the leaf has. *)
LEMMA LeafSearchIs ==
  ASSUME NEW n, IsLeaf(n), NEW k
  PROVE  /\ \A p \in ToSet(n.arr) : p.key = k => LeafSearch(n, k) = {p.val}
         /\ (\A p \in ToSet(n.arr) : p.key # k) => LeafSearch(n, k) = {}
<1>1. n.arr \in Seq(Pairs) /\ Increasing(n.arr)
  BY RowsOfLeaf DEF IsLeaf, Leafs, Tidy
<1>2. DOMAIN n.arr = 1 .. Len(n.arr)
  BY <1>1
<1>3. ASSUME NEW p \in ToSet(n.arr), p.key = k PROVE LeafSearch(n, k) = {p.val}
  <2>1. PICK j \in 1 .. Len(n.arr) : n.arr[j] = p
    BY <1>2 DEF ToSet
  <2>2. \A i \in 1 .. Len(n.arr) : n.arr[i].key = k => i = j
    BY <1>1, <1>2, <1>3, <2>1, PairsHaveKeys, KeysAreDistinct
  <2>3. KeyIndex(n.arr, k) = j
    BY <1>1, <1>3, <2>1, <2>2, KeyIndexIs
  <2>4. j # 0
    OBVIOUS
  <2> QED BY <2>1, <2>3, <2>4 DEF LeafSearch, KeyIndex
<1>4. ASSUME \A p \in ToSet(n.arr) : p.key # k PROVE LeafSearch(n, k) = {}
  <2>1. \A i \in 1 .. Len(n.arr) : n.arr[i].key # k
    BY <1>2, <1>4 DEF ToSet
  <2>2. KeyIndex(n.arr, k) = 0
    BY <1>1, <2>1, KeyIndexIs
  <2> QED BY <2>2 DEF LeafSearch, KeyIndex
<1> QED BY <1>3, <1>4

(* no key has two pairs *)
LEMMA PairsDiffer ==
  ASSUME NEW X, \A n \in X : IsLeaf(n) /\ Keyed(n), Apart(X),
         NEW p \in AllRows(X), NEW q \in AllRows(X), p.key = q.key
  PROVE  p = q
<1>1. PICK m \in X : p \in ToSet(Rows(m))
  BY DEF AllRows
<1>2. PICK n \in X : q \in ToSet(Rows(n))
  BY DEF AllRows
<1>3. p.key \in KeysIn(m) /\ p.key \in KeysIn(n)
  BY <1>1, <1>2 DEF KeysIn
<1>4. \A a \in X : Keyed(a)
  OBVIOUS
<1>5. m = n
  <2>1. Covers(X, m, p.key)
    BY <1>3, <1>4, CoversOwn
  <2> QED BY <1>3, <1>4, <2>1, CoveredElsewhere
<1>6. Rows(m) \in Seq(Pairs) /\ Increasing(Rows(m))
  BY RowsOfLeaf DEF IsLeaf, Leafs, Tidy
<1> QED BY <1>1, <1>2, <1>5, <1>6, PairsHaveKeys, KeysAreDistinct

(* A map whose root has no children has no nodes. *)
LEMMA NothingInEmpty ==
  ASSUME NEW rt, NEW m1, NEW m2, NEW ls, Sorted(rt, m1, m2, ls), rt.kids = <<>>
  PROVE  m1 = {} /\ m2 = {} /\ ls = {} /\ AllRows(ls) = {}
<1>1. rt \in Roots /\ AllRows({rt}) = Names(m1) /\ AllRows(m1) = Names(m2) /\ AllRows(m2) = Names(ls)
  BY DEF Sorted
<1>2. Rows(rt) = <<>>
  BY <1>1 DEF Roots, Rows
<1>3. AllRows({rt}) = {}
  BY <1>2 DEF AllRows, ToSet
<1>4. AllRows({}) = {}
  BY DEF AllRows
<1>5. \A X : Names(X) = {} => X = {}
  BY DEF Names
<1> QED BY <1>1, <1>3, <1>4, <1>5

(* What leafNode::Search returns, -1 for a key not found *)
ValueIn(leaf, k) ==
  IF LeafSearch(leaf, k) = {} THEN -1 ELSE CHOOSE v \in LeafSearch(leaf, k) : TRUE

(* The leaf a key belongs in has for it what the map has.                  *)
LEMMA LeafHas ==
  ASSUME NEW X, \A n \in X : IsLeaf(n) /\ Keyed(n), Apart(X), NEW d \in X,
         NEW k, Covers(X, d, k)
  PROVE  ValueIn(d, k) = Value(AllRows(X), k)
<1>1. \A n \in X : Keyed(n)
  OBVIOUS
<1>2. Rows(d) = d.arr /\ IsLeaf(d)
  BY LeafFacts
<1>3. CASE \E p \in ToSet(d.arr) : p.key = k
  <2>1. PICK p \in ToSet(d.arr) : p.key = k
    BY <1>3
  <2>2. ValueIn(d, k) = p.val
    <3>1. LeafSearch(d, k) = {p.val}
      BY <1>2, <2>1, LeafSearchIs
    <3> QED BY <3>1 DEF ValueIn
  <2>3. p \in AllRows(X)
    BY <1>2, <2>1 DEF AllRows
  <2>4. \A q \in AllRows(X) : q.key = k => q = p
    BY <2>1, <2>3, PairsDiffer
  <2>5. Value(AllRows(X), k) = p.val
    BY <2>1, <2>3, <2>4 DEF Value
  <2> QED BY <2>2, <2>5
<1>4. CASE \A p \in ToSet(d.arr) : p.key # k
  <2>1. ValueIn(d, k) = -1
    <3>1. LeafSearch(d, k) = {}
      BY <1>2, <1>4, LeafSearchIs
    <3> QED BY <3>1 DEF ValueIn
  <2>2. ASSUME NEW p \in AllRows(X), p.key = k PROVE FALSE
    <3>1. PICK n \in X : p \in ToSet(Rows(n))
      BY DEF AllRows
    <3>2. k \in KeysIn(n)
      BY <2>2, <3>1 DEF KeysIn
    <3>3. n = d
      BY <1>1, <3>2, CoveredElsewhere
    <3> QED BY <1>2, <1>4, <2>2, <3>1, <3>3
  <2>3. Value(AllRows(X), k) = -1
    BY <2>2 DEF Value
  <2> QED BY <2>1, <2>3
<1> QED BY <1>3, <1>4

(* An insert changes what the map has for its key and for no other.        *)
LEMMA ValueAfter ==
  ASSUME NEW pairs, NEW k, NEW v,
         \A p, q \in pairs : p.key = q.key => p = q
  PROVE  /\ Value(Having(pairs, k, v), k) = v
         /\ \A j : j # k => Value(Having(pairs, k, v), j) = Value(pairs, j)
<1>1. Pair(k, v).key = k /\ Pair(k, v).val = v
  BY DEF Pair
<1>2. \A p \in Having(pairs, k, v) : p = Pair(k, v) \/ (p \in pairs /\ p.key # k)
  BY DEF Having
<1>3. Pair(k, v) \in Having(pairs, k, v) /\ \A p \in pairs : p.key # k => p \in Having(pairs, k, v)
  BY DEF Having
<1>4. Value(Having(pairs, k, v), k) = v
  <2>1. \A p \in Having(pairs, k, v) : p.key = k => p = Pair(k, v)
    BY <1>2
  <2>2. \E p \in Having(pairs, k, v) : p.key = k
    BY <1>1, <1>3
  <2> QED BY <1>1, <2>1, <2>2 DEF Value
<1>5. ASSUME NEW j, j # k PROVE Value(Having(pairs, k, v), j) = Value(pairs, j)
  <2>1. CASE \E p \in pairs : p.key = j
    <3>1. PICK p \in pairs : p.key = j
      BY <2>1
    <3>2. Value(pairs, j) = p.val
      BY <3>1 DEF Value
    <3>3. p \in Having(pairs, k, v)
      BY <1>3, <1>5, <3>1
    <3>4. \A q \in Having(pairs, k, v) : q.key = j => q = p
      BY <1>1, <1>2, <1>5, <3>1
    <3>5. Value(Having(pairs, k, v), j) = p.val
      BY <3>1, <3>3, <3>4 DEF Value
    <3> QED BY <3>2, <3>5
  <2>2. CASE ~ \E p \in pairs : p.key = j
    <3>1. ~ \E p \in Having(pairs, k, v) : p.key = j
      BY <1>1, <1>2, <1>5, <2>2
    <3> QED BY <2>2, <3>1 DEF Value
  <2> QED BY <2>1, <2>2
<1> QED BY <1>4, <1>5

AtAnEnd(l, k) == Len(l.arr) = C \/ k <= Head(l.arr).key \/ k > Last(l.arr).key

(* the leaf of an insert *)
LEMMA LeafGrows ==
  ASSUME NEW X, \A n \in X : IsLeaf(n) /\ ToSet(n.arr) \subseteq PairsOfMap,
         \A n \in X : Keyed(n), Apart(X), NEW d \in X,
         NEW k \in Keys, NEW v \in Values, Covers(X, d, k), AtAnEnd(d, k)
  PROVE  LET g == LeafInsert(d, k, v) IN
         /\ Grows(X, d, g, C)
         /\ \A n \in Both(g) : IsLeaf(n) /\ ToSet(n.arr) \subseteq PairsOfMap
         /\ AllRows(Both(g)) = Having(ToSet(Rows(d)), k, v)
<1> DEFINE g == LeafInsert(d, k, v)
<1>1. k \in Int /\ IsLeaf(d) /\ ToSet(d.arr) \subseteq PairsOfMap /\ Rows(d) = d.arr
  BY MapBounds, LeafFacts
<1>2. /\ \A n \in Both(g) : IsLeaf(n)
      /\ Outcome(g, d, C)
      /\ AllRows(Both(g)) = Having(ToSet(d.arr), k, v)
  BY <1>1, LeafInsertPuts DEF AtAnEnd
<1> HIDE DEF g
<1>3. Pair(k, v) \in PairsOfMap /\ Pair(k, v).key = k
  BY DEF Pair, PairsOfMap
<1>4. \A p \in AllRows(Both(g)) : p = Pair(k, v) \/ p \in ToSet(d.arr)
  BY <1>2 DEF Having
<1>5. ASSUME NEW n \in Both(g)
      PROVE  /\ Keyed(n) /\ n.pos \in Int /\ Len(Rows(n)) \in Nat
             /\ ToSet(n.arr) \subseteq PairsOfMap
             /\ \A x \in KeysIn(n) : Covers(X, d, x)
  <2>1. Keyed(n) /\ n.pos \in Int /\ Len(Rows(n)) \in Nat /\ Rows(n) = n.arr
    BY <1>2, LeafFacts
  <2>2. ToSet(n.arr) \subseteq AllRows(Both(g))
    BY <2>1 DEF AllRows
  <2>3. ToSet(n.arr) \subseteq PairsOfMap
    BY <1>1, <1>3, <1>4, <2>2
  <2>4. ASSUME NEW x \in KeysIn(n) PROVE Covers(X, d, x)
    <3>1. PICK p \in ToSet(n.arr) : p.key = x
      BY <2>1 DEF KeysIn
    <3>2. CASE p = Pair(k, v)
      BY <1>3, <3>1, <3>2
    <3>3. CASE p \in ToSet(d.arr)
      <4>1. x \in KeysIn(d)
        BY <1>1, <3>1, <3>3 DEF KeysIn
      <4> QED BY <4>1, CoversOwn
    <3> QED BY <1>4, <2>2, <3>2, <3>3
  <2> QED BY <2>1, <2>3, <2>4
<1>6. Grows(X, d, g, C)
  BY <1>2, <1>5 DEF Grows
<1> QED BY <1>1, <1>2, <1>5, <1>6 DEF g

OneLonger(s, t) == Len(s) = Len(t) + 1

(* client::insert on its way up *)
LEMMA InsertChanges ==
  ASSUME NEW rt, NEW m1, NEW m2, NEW ls, Sorted(rt, m1, m2, ls), rt.kids # <<>>,
         NEW d, Way(rt, m1, m2, ls, d), NEW k \in Keys, NEW v \in Values,
         Covers(ls, d[3], k), AtAnEnd(d[3], k)
  PROVE  LET r3 == LeafInsert(d[3], k, v)
             r2 == Grow(d[2], r3)
             r1 == Grow(d[1], r2)
             u  == Update(rt, r1.node)
             g  == RootInsert(u, r1.new)
         IN  /\ Changes(rt, m1, m2, ls, d, g, r1, r2, r3)
             /\ AllRows(Both(r3)) = Having(ToSet(Rows(d[3])), k, v)
             /\ Len(u.kids) = Len(rt.kids)
             /\ r1.new # {} => OneLonger(g.kids, rt.kids)
<1> DEFINE r3 == LeafInsert(d[3], k, v)
           r2 == Grow(d[2], r3)
           r1 == Grow(d[1], r2)
           u  == Update(rt, r1.node)
           g  == RootInsert(u, r1.new)
<1>1. /\ \A n \in m1 : IsMid(n)
      /\ \A n \in m1 : Keyed(n) /\ n.old = n.max /\ n.pos \in Int
      /\ \A n \in m2 : IsMid(n)
      /\ \A n \in m2 : Keyed(n) /\ n.old = n.max /\ n.pos \in Int
      /\ \A n \in ls : Keyed(n)
      /\ \A n \in ls : Keyed(n) /\ n.old = n.max /\ n.pos \in Int
      /\ Apart(m1) /\ Apart(m2) /\ Apart(ls)
  BY SortedFacts
<1>2. /\ rt \in Roots /\ Increasing(rt.kids) /\ rt.max = Last(rt.kids).key
      /\ AllRows({rt}) = Names(m1) /\ AllRows(m1) = Names(m2) /\ AllRows(m2) = Names(ls)
      /\ \A n \in ls : IsLeaf(n) /\ ToSet(n.arr) \subseteq PairsOfMap
  BY DEF Sorted
<1>3. /\ d[1] \in m1 /\ Name(d[1]) \in ToSet(rt.kids)
      /\ d[2] \in m2 /\ Name(d[2]) \in ToSet(Rows(d[1]))
      /\ d[3] \in ls /\ Name(d[3]) \in ToSet(Rows(d[2]))
  BY DEF Way
<1>4. /\ Grows(ls, d[3], r3, C)
      /\ \A n \in Both(r3) : IsLeaf(n) /\ ToSet(n.arr) \subseteq PairsOfMap
      /\ AllRows(Both(r3)) = Having(ToSet(Rows(d[3])), k, v)
  BY <1>1, <1>2, <1>3, LeafGrows
<1> HIDE DEF r3
<1>5. /\ \A n \in Both(r2) : IsMid(n)
      /\ Grows(m2, d[2], r2, P2)
      /\ AllRows(Both(r2)) = Exchanged(ToSet(Rows(d[2])), Name(d[3]), Names(Both(r3)))
  BY <1>1, <1>2, <1>3, <1>4, Grown
<1> HIDE DEF r2
<1>6. /\ \A n \in Both(r1) : IsMid(n)
      /\ Grows(m1, d[1], r1, P2)
      /\ AllRows(Both(r1)) = Exchanged(ToSet(Rows(d[1])), Name(d[2]), Names(Both(r2)))
  BY <1>1, <1>2, <1>3, <1>5, Grown
<1> HIDE DEF r1
<1>7. /\ Len(u.kids) = Len(rt.kids)
      /\ g \in Roots /\ g.kids # <<>> /\ Increasing(g.kids)
      /\ g.max = Last(g.kids).key
      /\ r1.new # {} => Len(g.kids) = Len(rt.kids) + 1
      /\ ToSet(g.kids) = Exchanged(ToSet(rt.kids), Name(d[1]), Names(Both(r1)))
  <2> DEFINE c == d[1]
  <2>1. /\ rt \in Roots /\ Increasing(rt.kids) /\ rt.max = Last(rt.kids).key
        /\ \A n \in m1 : Keyed(n) /\ n.old = n.max /\ n.pos \in Int
        /\ Apart(m1) /\ c \in m1 /\ AllRows({rt}) = Names(m1)
        /\ Name(c) \in ToSet(rt.kids)
        /\ Grows(m1, c, r1, P2)
    BY <1>1, <1>2, <1>3, <1>6
  <2> HIDE DEF c
  <2>2. /\ Len(u.kids) = Len(rt.kids)
        /\ g \in Roots /\ g.kids # <<>> /\ Increasing(g.kids)
        /\ g.max = Last(g.kids).key
        /\ r1.new # {} => Len(g.kids) = Len(rt.kids) + 1
        /\ ToSet(g.kids) = Exchanged(ToSet(rt.kids), Name(c), Names(Both(r1)))
    BY <2>1, RootGrown
  <2> QED BY <2>2 DEF c
<1> HIDE DEF u, g
<1>8. Changes(rt, m1, m2, ls, d, g, r1, r2, r3)
  BY <1>4, <1>5, <1>6, <1>7 DEF Changes
<1>9. r1.new # {} => OneLonger(g.kids, rt.kids)
  BY <1>7 DEF OneLonger
<1> QED BY <1>4, <1>7, <1>8, <1>9 DEF u, g, r1, r2, r3

(* no other leaf has the key *)
LEMMA OnlyHere ==
  ASSUME NEW X, \A n \in X : Keyed(n), Apart(X), NEW d \in X, NEW k, Covers(X, d, k), NEW v
  PROVE  AllRows(X \ {d}) \union Having(ToSet(Rows(d)), k, v) = Having(AllRows(X), k, v)
<1>1. \A p \in AllRows(X \ {d}) : p.key # k
  <2> SUFFICES ASSUME NEW p \in AllRows(X \ {d}), p.key = k PROVE FALSE
    OBVIOUS
  <2>1. PICK n \in X \ {d} : p \in ToSet(Rows(n))
    BY DEF AllRows
  <2>2. k \in KeysIn(n)
    BY <2>1 DEF KeysIn
  <2> QED BY <2>1, <2>2, CoveredElsewhere
<1>2. AllRows(X) = AllRows(X \ {d}) \union ToSet(Rows(d))
  BY DEF AllRows
<1> QED BY <1>1, <1>2 DEF Having

(* The midNodes of a first insert have one child. *)
LEMMA FirstMid ==
  ASSUME NEW child, child.max \in Int, child.pos \in Int
  PROVE  LET m == MidInsert(NewMid, child).node IN
         /\ IsMid(m)
         /\ AllRows({m}) = {Name(child)}
<1> DEFINE t == SortByKey(Append(<<>>, Name(child)))
           m == MidInsert(NewMid, child).node
<1>1. <<>> \in Seq(Links) /\ Increasing(<<>>) /\ ToSet(<<>>) = {} /\ Len(<<>>) = 0
  BY DEF Increasing, ToSet
<1>2. NewMid \in Mids /\ NewMid.kids = <<>>
  BY <1>1 DEF NewMid, Mids, NoKey, Unplaced
<1>3. m = WithKids(NewMid, t)
  <2>1. Len(NewMid.kids) < P2
    BY <1>1, <1>2, NodeSizes
  <2> QED BY <1>2, <2>1 DEF MidInsert, Name
<1>4. Name(child) \in Links
  BY DEF Name, Entry, Links
<1>5. t \in Seq(Links) /\ Len(t) = Len(<<>>) + 1 /\ Increasing(t) /\ ToSet(t) = {} \union {Name(child)}
  <2>1. \A f \in ToSet(<<>>) : f.key # Name(child).key
    BY <1>1
  <2> QED BY <1>1, <1>4, <2>1, AddedInOrder
<1> HIDE DEF t
<1>6. t # <<>> /\ Len(t) <= P2
  BY <1>1, <1>5, NodeSizes
<1>7. IsMid(m) /\ m.kids = t
  BY <1>2, <1>3, <1>5, <1>6, WithKidsIsMid
<1> HIDE DEF m
<1>8. Rows(m) = t
  BY <1>7, MidFacts
<1>9. AllRows({m}) = {Name(child)}
  BY <1>5, <1>8 DEF AllRows
<1> QED BY <1>7, <1>9 DEF m

(* The leafNode of a first insert has one pair. *)
LEMMA FirstLeaf ==
  ASSUME NEW k \in Keys, NEW v \in Values
  PROVE  /\ IsLeaf(NewLeaf(k, v))
         /\ ToSet(NewLeaf(k, v).arr) = {Pair(k, v)}
<1> DEFINE s == <<Pair(k, v)>>
           n == NewLeaf(k, v)
<1>1. Pair(k, v) \in Pairs /\ Pair(k, v).key = k
  BY MapBounds DEF Pair, Pairs
<1>2. s \in Seq(Pairs) /\ Len(s) = 1 /\ s # <<>> /\ s[1] = Pair(k, v) /\ DOMAIN s = 1 .. 1
  BY <1>1
<1>3. Increasing(s) /\ Last(s) = Pair(k, v) /\ ToSet(s) = {Pair(k, v)}
  BY <1>2 DEF Increasing, Last, ToSet
<1>4. n \in Leafs /\ n.arr = s /\ n.max = k
  BY <1>2, MapBounds DEF NewLeaf, Leafs, NoKey, Unplaced
<1> HIDE DEF n, s
<1>5. Rows(n) = s
  BY <1>4, RowsOfLeaf
<1>6. IsLeaf(n)
  <2>4. Len(n.arr) = 1
    BY <1>2, <1>4
  <2>1. Len(n.arr) <= C
    BY <2>4, NodeSizes
  <2>2. Rows(n) # <<>> /\ Increasing(Rows(n))
    BY <1>2, <1>3, <1>5
  <2>3. n.max = Last(Rows(n)).key
    BY <1>1, <1>3, <1>4, <1>5
  <2> QED BY <1>4, <2>1, <2>2, <2>3 DEF IsLeaf, Tidy
<1> QED BY <1>3, <1>4, <1>6 DEF n

(* layers of one node *)
LEMMA LoneLayer ==
  ASSUME NEW R, NEW n, R = {n}, NEW F, Copies(F, R),
         \A m \in F : Keyed(m) /\ m.old = m.max /\ m.pos \in Int, NEW cap
  PROVE  Layer(F, cap)
<1>1. \A a, b \in F : a = b
  BY DEF Copies, Alike
<1> QED BY <1>1 DEF Layer, Apart, Crowded

(* A child that is alone is named by one entry. *)
LEMMA LoneLink ==
  ASSUME NEW n, NEW new, Numbers(new, {n})
  PROVE  Repoints({Name(n)}, new) = Renewed({n}, new)
<1>1. Repoint(Name(n), new) = Entry(n.max, new[n.max])
  BY DEF Repoint, Name, Entry, Numbers
<1> QED BY <1>1 DEF Repoints, Renewed

(* A key that is among the pairs has a value, of the map's values. *)
LEMMA ValueType ==
  ASSUME NEW pairs \in SUBSET PairsOfMap, NEW k
  PROVE  /\ Value(pairs, k) \in Values \union {-1}
         /\ \A p \in pairs : p.key = k => Value(pairs, k) # -1
<1>1. ASSUME NEW p \in pairs, p.key = k PROVE Value(pairs, k) \in Values
  <2>1. \A q \in pairs : q.val \in Values
    BY DEF PairsOfMap
  <2> QED BY <1>1, <2>1 DEF Value
<1>2. CASE \A p \in pairs : p.key # k
  BY <1>2 DEF Value
<1>3. -1 \notin Values
  BY MapBounds
<1> QED BY <1>1, <1>2, <1>3

-----------------------------------------------------------------------------
(* The layers when a node is put in the store as it is: no position is     *)
(* drawn, no entry follows one.                                            *)
OwnPos(nodes) == [x \in {n.max : n \in nodes} |-> (CHOOSE n \in nodes : n.max = x).pos]

(* The position of a node is found under its name. *)
LEMMA OwnPosIs ==
  ASSUME NEW R, \A n \in R : n.pos \in Int, \A m, n \in R : m.max = n.max => m = n
  PROVE  /\ Numbers(OwnPos(R), R)
         /\ \A n \in R : OwnPos(R)[n.max] = n.pos
<1>1. \A n \in R : OwnPos(R)[n.max] = n.pos
  <2> TAKE n \in R
  <2>1. (CHOOSE m \in R : m.max = n.max) = n
    OBVIOUS
  <2> QED BY <2>1 DEF OwnPos
<1>2. DOMAIN OwnPos(R) = {n.max : n \in R}
  BY DEF OwnPos
<1> QED BY <1>1, <1>2 DEF Numbers

(* A node whose entries have these positions keeps them. *)
LEMMA KeepsEntries ==
  ASSUME NEW n, n.kids \in Seq(Links), n \in Mids \union Roots, NEW new,
         \A e \in ToSet(n.kids) : e.key \in DOMAIN new => new[e.key] = e.pos
  PROVE  Repointed(n, new) = n
<1> DEFINE t == [i \in DOMAIN n.kids |-> IF n.kids[i].key \in DOMAIN new
                           THEN Entry(n.kids[i].key, new[n.kids[i].key]) ELSE n.kids[i]]
<1>1. \A i \in DOMAIN n.kids : t[i] = n.kids[i]
  <2> TAKE i \in DOMAIN n.kids
  <2>1. n.kids[i] \in ToSet(n.kids) /\ n.kids[i] \in Links
    BY DEF ToSet
  <2>2. n.kids[i] = Entry(n.kids[i].key, n.kids[i].pos)
    BY <2>1 DEF Links, Entry
  <2> QED BY <2>1, <2>2
<1>2. n.kids = [i \in DOMAIN n.kids |-> n.kids[i]]
  OBVIOUS
<1>3. t = n.kids
  BY <1>1, <1>2
<1>4. Repointed(n, new) = [n EXCEPT !.kids = t]
  BY DEF Repointed
<1> HIDE DEF t
<1> QED BY <1>3, <1>4 DEF Mids, Roots

(* Nodes that take the positions they have stay as they are. *)
LEMMA KeepsPositions ==
  ASSUME NEW R, \A n \in R : IsMid(n) \/ IsLeaf(n), NEW new, \A n \in R : new[n.max] = n.pos
  PROVE  Moved(Linkeds(R), new) = Linkeds(R)
<1>1. \A m \in Linkeds(R) : [m EXCEPT !.pos = new[m.max]] = m
  <2> TAKE m \in Linkeds(R)
  <2>1. PICK n \in R : m = Linked(n)
    BY DEF Linkeds
  <2>2. n \in Mids \/ n \in Leafs
    BY DEF IsMid, IsLeaf
  <2>3. m.max = n.max /\ m.pos = n.pos /\ (m \in Mids \/ m \in Leafs)
    BY <2>1, <2>2 DEF Linked, Mids, Leafs
  <2>4. new[m.max] = m.pos
    BY <2>3
  <2> QED BY <2>3, <2>4 DEF Mids, Leafs
<1> QED BY <1>1 DEF Moved

(* The entries of what was made of a node name the nodes below as they are *)
LEMMA EntriesAgree ==
  ASSUME NEW P, \A n \in P : Keyed(n), Apart(P), NEW p \in P,
         NEW X, \A n \in X : Keyed(n), Apart(X), NEW d \in X, AllRows(P) = Names(X),
         NEW R, \A n \in R : Covers(X, d, n.max),
         NEW new, DOMAIN new = {n.max : n \in R}, \A n \in R : new[n.max] = n.pos,
         NEW e, e \in Exchanged(ToSet(Rows(p)), Name(d), Names(R)), e.key \in DOMAIN new
  PROVE  new[e.key] = e.pos
<1>1. CASE e \in Names(R)
  <2>1. PICK n \in R : e = Name(n)
    BY <1>1 DEF Names
  <2> QED BY <2>1, NameOf
<1>2. CASE e \in ToSet(Rows(p)) /\ e # Name(d)
  <2>1. PICK m \in X : Name(m) = e
    BY <1>2, LinkDown
  <2>2. m # d /\ e.key = m.max
    BY <1>2, <2>1, NameOf
  <2>3. PICK n \in R : n.max = m.max
    BY <2>2
  <2>4. n.max \notin KeysIn(m)
    BY <2>2, CoveredElsewhere
  <2> QED BY <2>3, <2>4 DEF Keyed
<1> QED BY <1>1, <1>2 DEF Exchanged

(* The layers stay in order when the nodes that an operation read give way *)
(* to what it made of them, at the positions these have.                   *)
LEMMA StepPlain ==
  ASSUME NEW rt, NEW m1, NEW m2, NEW ls, Sorted(rt, m1, m2, ls), rt.kids # <<>>,
         NEW d, Way(rt, m1, m2, ls, d),
         NEW rt2, NEW r1, NEW r2, NEW r3, Changes(rt, m1, m2, ls, d, rt2, r1, r2, r3)
  PROVE  /\ Sorted(rt2, Instead(m1, d[1], Linkeds(Both(r1))),
                   Instead(m2, d[2], Linkeds(Both(r2))),
                   Instead(ls, d[3], Linkeds(Both(r3))))
         /\ AllRows(Instead(ls, d[3], Linkeds(Both(r3)))) = HeldWithout(ls, d[3], Both(r3))
<1>1. /\ \A n \in m1 : IsMid(n) /\ Keyed(n) /\ n.old = n.max /\ n.pos \in Int
      /\ \A n \in m2 : IsMid(n) /\ Keyed(n) /\ n.old = n.max /\ n.pos \in Int
      /\ \A n \in ls : IsLeaf(n) /\ Keyed(n) /\ n.old = n.max /\ n.pos \in Int
      /\ Apart(m1) /\ Apart(m2) /\ Apart(ls)
  BY SortedFacts
<1>2. /\ rt \in Roots /\ Increasing(rt.kids) /\ rt.max = Last(rt.kids).key
      /\ AllRows({rt}) = Names(m1) /\ AllRows(m1) = Names(m2) /\ AllRows(m2) = Names(ls)
  BY DEF Sorted
<1>3. /\ d[1] \in m1 /\ d[2] \in m2 /\ d[3] \in ls
  BY DEF Way
<1>4. /\ Grows(ls, d[3], r3, C) /\ \A n \in Both(r3) : IsLeaf(n)
      /\ Grows(m2, d[2], r2, P2) /\ \A n \in Both(r2) : IsMid(n)
      /\ AllRows(Both(r2)) = Exchanged(ToSet(Rows(d[2])), Name(d[3]), Names(Both(r3)))
      /\ Grows(m1, d[1], r1, P2) /\ \A n \in Both(r1) : IsMid(n)
      /\ AllRows(Both(r1)) = Exchanged(ToSet(Rows(d[1])), Name(d[2]), Names(Both(r2)))
      /\ rt2 \in Roots
      /\ ToSet(rt2.kids) = Exchanged(ToSet(rt.kids), Name(d[1]), Names(Both(r1)))
  BY DEF Changes
<1> DEFINE new1 == OwnPos(Both(r1))
           new2 == OwnPos(Both(r2))
           new3 == OwnPos(Both(r3))
<1>5. ASSUME NEW X, NEW e, NEW r, NEW cap, Grows(X, e, r, cap)
      PROVE  /\ Numbers(OwnPos(Both(r)), Both(r))
             /\ \A n \in Both(r) : OwnPos(Both(r))[n.max] = n.pos
             /\ \A n \in Both(r) : Covers(X, e, n.max)
  <2>1. /\ Outcome(r, e, cap)
        /\ \A n \in Both(r) : Keyed(n) /\ n.pos \in Int /\ \A x \in KeysIn(n) : Covers(X, e, x)
    BY <1>5 DEF Grows
  <2>2. \A m, n \in Both(r) : m.max = n.max => m = n
    BY <2>1, BothApart
  <2>3. \A n \in Both(r) : Covers(X, e, n.max)
    BY <2>1 DEF Keyed
  <2> QED BY <2>1, <2>2, <2>3, OwnPosIs
<1>6. /\ Numbers(new1, Both(r1)) /\ \A n \in Both(r1) : new1[n.max] = n.pos
      /\ Numbers(new2, Both(r2)) /\ \A n \in Both(r2) : new2[n.max] = n.pos
      /\ Numbers(new3, Both(r3)) /\ \A n \in Both(r3) : new3[n.max] = n.pos
      /\ \A n \in Both(r1) : Covers(m1, d[1], n.max)
      /\ \A n \in Both(r2) : Covers(m2, d[2], n.max)
      /\ \A n \in Both(r3) : Covers(ls, d[3], n.max)
  BY <1>4, <1>5
<1> HIDE DEF new1, new2, new3
<1>7. /\ DOMAIN new1 = {n.max : n \in Both(r1)}
      /\ DOMAIN new2 = {n.max : n \in Both(r2)}
      /\ DOMAIN new3 = {n.max : n \in Both(r3)}
  BY <1>6 DEF Numbers
<1>8. /\ Moved(Linkeds(Both(r1)), new1) = Linkeds(Both(r1))
      /\ Moved(Linkeds(Both(r2)), new2) = Linkeds(Both(r2))
      /\ Moved(Linkeds(Both(r3)), new3) = Linkeds(Both(r3))
  BY <1>4, <1>6, KeepsPositions
<1>9. ASSUME NEW n, IsMid(n), NEW new, \A e \in ToSet(Rows(n)) : e.key \in DOMAIN new => new[e.key] = e.pos
      PROVE  Repointed(Linked(n), new) = Linked(n)
  <2>1. n \in Mids /\ Rows(n) = n.kids
    BY <1>9, MidFacts DEF IsMid
  <2>2. Linked(n) \in Mids /\ Linked(n).kids = n.kids /\ n.kids \in Seq(Links)
    BY <2>1 DEF Linked, Mids
  <2> HIDE DEF Linked
  <2>3. \A e \in ToSet(Linked(n).kids) : e.key \in DOMAIN new => new[e.key] = e.pos
    BY <1>9, <2>1, <2>2
  <2> QED BY <2>2, <2>3, KeepsEntries
<1>10. MidsOf(Linkeds(Both(r1)), new1, new2) = Linkeds(Both(r1))
  <2>1. ASSUME NEW n \in Both(r1), NEW e \in ToSet(Rows(n)), e.key \in DOMAIN new2
        PROVE  new2[e.key] = e.pos
    <3>1. e \in Exchanged(ToSet(Rows(d[1])), Name(d[2]), Names(Both(r2)))
      BY <1>4 DEF AllRows
    <3>2. /\ \A m \in m1 : Keyed(m)
          /\ \A m \in m2 : Keyed(m)
          /\ Apart(m1) /\ Apart(m2) /\ AllRows(m1) = Names(m2)
          /\ d[1] \in m1 /\ d[2] \in m2
      BY <1>1, <1>2, <1>3
    <3>3. /\ \A m \in Both(r2) : Covers(m2, d[2], m.max)
          /\ DOMAIN new2 = {m.max : m \in Both(r2)}
          /\ \A m \in Both(r2) : new2[m.max] = m.pos
      BY <1>6, <1>7
    <3> QED BY <2>1, <3>1, <3>2, <3>3, EntriesAgree
  <2>2. \A n \in Both(r1) : Repointed(Linked(n), new2) = Linked(n)
    BY <1>4, <1>9, <2>1
  <2> QED BY <1>8, <2>2 DEF MidsOf, Linkeds
<1>11. MidsOf(Linkeds(Both(r2)), new2, new3) = Linkeds(Both(r2))
  <2>1. ASSUME NEW n \in Both(r2), NEW e \in ToSet(Rows(n)), e.key \in DOMAIN new3
        PROVE  new3[e.key] = e.pos
    <3>1. e \in Exchanged(ToSet(Rows(d[2])), Name(d[3]), Names(Both(r3)))
      BY <1>4 DEF AllRows
    <3>2. /\ \A m \in m2 : Keyed(m)
          /\ \A m \in ls : Keyed(m)
          /\ Apart(m2) /\ Apart(ls) /\ AllRows(m2) = Names(ls)
          /\ d[2] \in m2 /\ d[3] \in ls
      BY <1>1, <1>2, <1>3
    <3>3. /\ \A m \in Both(r3) : Covers(ls, d[3], m.max)
          /\ DOMAIN new3 = {m.max : m \in Both(r3)}
          /\ \A m \in Both(r3) : new3[m.max] = m.pos
      BY <1>6, <1>7
    <3> QED BY <2>1, <3>1, <3>2, <3>3, EntriesAgree
  <2>2. \A n \in Both(r2) : Repointed(Linked(n), new3) = Linked(n)
    BY <1>4, <1>9, <2>1
  <2> QED BY <1>8, <2>2 DEF MidsOf, Linkeds
<1>12. Repointed(rt2, new1) = rt2
  <2>1. Keyed(rt) /\ Rows(rt) = rt.kids /\ Apart({rt}) /\ rt \in {rt} /\ rt2.kids \in Seq(Links)
    BY <1>2, <1>4, RootFacts DEF Roots
  <2>2. (\A m \in {rt} : Keyed(m)) /\ \A m \in m1 : Keyed(m)
    BY <1>1, <2>1
  <2>3. ASSUME NEW e \in ToSet(rt2.kids), e.key \in DOMAIN new1 PROVE new1[e.key] = e.pos
    <3>1. e \in Exchanged(ToSet(Rows(rt)), Name(d[1]), Names(Both(r1)))
      BY <1>4, <2>1
    <3>2. /\ \A m \in {rt} : Keyed(m)
          /\ \A m \in m1 : Keyed(m)
          /\ Apart({rt}) /\ Apart(m1) /\ AllRows({rt}) = Names(m1)
          /\ rt \in {rt} /\ d[1] \in m1
      BY <1>1, <1>2, <1>3, <2>1, <2>2
    <3>3. /\ \A m \in Both(r1) : Covers(m1, d[1], m.max)
          /\ DOMAIN new1 = {m.max : m \in Both(r1)}
          /\ \A m \in Both(r1) : new1[m.max] = m.pos
      BY <1>6, <1>7
    <3> QED BY <2>3, <3>1, <3>2, <3>3, EntriesAgree
  <2> QED BY <1>4, <2>1, <2>3, KeepsEntries
<1> QED BY <1>6, <1>8, <1>10, <1>11, <1>12, StepSorted

(* The layers of an empty map are in order. *)
LEMMA EmptySorted ==
  ASSUME NEW rt, rt = [kids |-> <<>>, max |-> NoKey]
  PROVE  Sorted(rt, {}, {}, {})
<1>1. rt.kids = <<>> /\ rt \in Roots
  <2>1. <<>> \in Seq(Links)
    OBVIOUS
  <2> QED BY <2>1 DEF Roots, NoKey
<1>2. Rows(rt) = <<>>
  BY <1>1 DEF Roots, Rows
<1>3. AllRows({rt}) = {} /\ AllRows({}) = {} /\ Names({}) = {}
  BY <1>2 DEF AllRows, Names, ToSet
<1>4. Increasing(rt.kids)
  BY <1>1 DEF Increasing
<1>5. \A cap : Layer({}, cap)
  BY DEF Layer, Apart, Crowded
<1> QED BY <1>1, <1>3, <1>4, <1>5 DEF Sorted

-----------------------------------------------------------------------------
(* What client::insert makes of the layers O[1], O[2] and O[3] below the   *)
(* root rt, and of the nodes it reads on its way down to key k             *)
InOrder(rt, O) == Sorted(rt, O[1], O[2], O[3])

Child(nodes, p, k) == CHOOSE n \in nodes : Name(n) = Search(p, k)
WayTo(rt, O, k) ==
  LET a == Child(O[1], rt, k)
      b == Child(O[2], a, k)
  IN  <<a, b, Child(O[3], b, k)>>

Made(d, k, v) ==
  LET r3 == LeafInsert(d[3], k, v)
      r2 == Grow(d[2], r3)
  IN  <<Grow(d[1], r2), r2, r3>>

(* the nodes of an empty map's first insert *)
Founded(k, v) ==
  LET leaf == NewLeaf(k, v)
      mid2 == MidInsert(NewMid, leaf).node
  IN  <<MidInsert(NewMid, mid2).node, mid2, leaf>>

(* In a leaf of two pairs or fewer every place is at an end.               *)
LEMMA SmallLeaf ==
  ASSUME C <= 2, NEW n, IsLeaf(n), NEW k \in Int
  PROVE  AtAnEnd(n, k)
<1> DEFINE s == n.arr
<1>1. s \in Seq(Pairs) /\ s # <<>> /\ Len(s) <= C /\ C \in Nat
  BY RowsOfLeaf, NodeSizes DEF IsLeaf, Leafs, Tidy
<1> HIDE DEF s
<1>2. Len(s) \in Nat /\ Len(s) # 0
  BY <1>1
<1>3. Len(s) = C \/ Len(s) = 1
  <2>1. \A m, c \in Nat : m # 0 /\ m <= c /\ c <= 2 => m = c \/ m = 1
    OBVIOUS
  <2> QED BY <1>1, <1>2, <2>1
<1>4. CASE Len(s) = 1
  <2>1. Head(s) = s[1] /\ Last(s) = s[1] /\ s[1].key \in Int
    BY <1>1, <1>4, PairsHaveKeys DEF Last
  <2>2. k <= Head(s).key \/ k > Last(s).key
    BY <2>1
  <2> QED BY <2>2 DEF AtAnEnd, s
<1> QED BY <1>3, <1>4 DEF AtAnEnd, s

(* Search leads from a node in whose range a key is to one in whose range  *)
(* it is.                                                                  *)
LEMMA ChildIs ==
  ASSUME NEW P, \A n \in P : Keyed(n), Apart(P), NEW p \in P, Kidded(p),
         NEW X, \A n \in X : Keyed(n), AllRows(P) = Names(X),
         NEW k \in Int, Covers(P, p, k)
  PROVE  LET d == Child(X, p, k) IN
         /\ d \in X
         /\ Name(d) = Search(p, k)
         /\ Covers(X, d, k) /\ Name(d) \in ToSet(Rows(p))
<1> DEFINE d == Child(X, p, k)
<1>1. Search(p, k) \in ToSet(Rows(p))
  BY SearchFinds DEF Kidded
<1>2. \E m \in X : Name(m) = Search(p, k)
  BY <1>1, LinkDown
<1>3. d \in X /\ Name(d) = Search(p, k)
  BY <1>2 DEF Child
<1> HIDE DEF d
<1>4. Covers(X, d, k) /\ Name(d) \in ToSet(Rows(p))
  BY <1>3, DescendCovers
<1> QED BY <1>3, <1>4 DEF d

(* The nodes a search or an insert reads on its way down.                  *)
LEMMA WayIs ==
  ASSUME NEW rt, NEW O, InOrder(rt, O), rt.kids # <<>>, NEW k \in Int,
         NEW d, d = WayTo(rt, O, k)
  PROVE  /\ Way(rt, O[1], O[2], O[3], d) /\ Covers(O[3], d[3], k)
         /\ Name(d[1]) = Search(rt, k)
         /\ Name(d[2]) = Search(d[1], k)
         /\ Name(d[3]) = Search(d[2], k)
<1>1. /\ rt \in Roots /\ Increasing(rt.kids) /\ rt.max = Last(rt.kids).key
      /\ AllRows({rt}) = Names(O[1]) /\ AllRows(O[1]) = Names(O[2])
      /\ AllRows(O[2]) = Names(O[3])
  BY DEF InOrder, Sorted
<1>2. /\ \A n \in O[1] : IsMid(n) /\ Keyed(n)
      /\ \A n \in O[2] : IsMid(n) /\ Keyed(n)
      /\ \A n \in O[3] : Keyed(n)
      /\ Apart(O[1]) /\ Apart(O[2])
  BY SortedFacts DEF InOrder
<1>3. /\ Kidded(rt) /\ Keyed(rt) /\ Rows(rt) = rt.kids /\ Apart({rt})
      /\ Covers({rt}, rt, k)
  BY <1>1, RootFacts
<1> DEFINE a == Child(O[1], rt, k)
           b == Child(O[2], a, k)
           c == Child(O[3], b, k)
<1>4. d[1] = a /\ d[2] = b /\ d[3] = c
  BY DEF WayTo
<1>5. /\ a \in O[1] /\ Name(a) = Search(rt, k) /\ Covers(O[1], a, k)
      /\ Name(a) \in ToSet(rt.kids)
  <2>1. \A n \in {rt} : Keyed(n)
    BY <1>3
  <2>2. /\ a \in O[1] /\ Name(a) = Search(rt, k) /\ Covers(O[1], a, k)
        /\ Name(a) \in ToSet(Rows(rt))
    BY <1>1, <1>2, <1>3, <2>1, ChildIs
  <2> QED BY <1>3, <2>2
<1> HIDE DEF a
<1>6. /\ b \in O[2] /\ Name(b) = Search(a, k) /\ Covers(O[2], b, k)
      /\ Name(b) \in ToSet(Rows(a))
  <2>1. Kidded(a)
    BY <1>2, <1>5, MidFacts
  <2> QED BY <1>1, <1>2, <1>5, <2>1, ChildIs
<1> HIDE DEF b
<1>7. /\ c \in O[3] /\ Name(c) = Search(b, k) /\ Covers(O[3], c, k)
      /\ Name(c) \in ToSet(Rows(b))
  <2>1. Kidded(b)
    BY <1>2, <1>6, MidFacts
  <2> QED BY <1>1, <1>2, <1>6, <2>1, ChildIs
<1> HIDE DEF c
<1>8. Way(rt, O[1], O[2], O[3], d)
  BY <1>4, <1>5, <1>6, <1>7 DEF Way
<1> QED BY <1>4, <1>5, <1>6, <1>7, <1>8

(* What an operation makes of a node takes no name of another node of the  *)
(* layer.                                                                  *)
LEMMA NamesFree ==
  ASSUME NEW X, \A n \in X : Keyed(n), Apart(X), NEW d \in X,
         NEW r, NEW cap, Grows(X, d, r, cap)
  PROVE  /\ \A m \in X \ {d}, n \in Both(r) : m.max # n.max
         /\ r.new = {} \/ \E b : r.new = {b} /\ b.max # r.node.max
<1>1. ASSUME NEW m \in X \ {d}, NEW n \in Both(r) PROVE m.max # n.max
  <2>1. Covers(X, d, n.max)
    BY DEF Grows, Keyed
  <2>2. n.max \notin KeysIn(m)
    BY <2>1, CoveredElsewhere
  <2>3. m.max \in KeysIn(m)
    BY DEF Keyed
  <2> QED BY <2>2, <2>3
<1>2. ASSUME NEW b, r.new = {b}, r.node.max < b.max PROVE b.max # r.node.max
  <2>1. r.node.max \in Int /\ b.max \in Int
    BY <1>2 DEF Grows, Keyed, Both
  <2> QED BY <1>2, <2>1
<1>3. r.new = {} \/ \E b : r.new = {b} /\ r.node.max < b.max
  BY DEF Grows, Outcome
<1> QED BY <1>1, <1>2, <1>3

(* The same of the nodes by name.                                          *)
LEMMA InsertMade ==
  ASSUME NEW rt, NEW m1, NEW m2, NEW ls, Sorted(rt, m1, m2, ls), rt.kids # <<>>,
         NEW d, Way(rt, m1, m2, ls, d), NEW k \in Keys, NEW v \in Values,
         Covers(ls, d[3], k), AtAnEnd(d[3], k),
         NEW r, r[3] = LeafInsert(d[3], k, v), r[2] = Grow(d[2], r[3]),
         r[1] = Grow(d[1], r[2]),
         NEW u, u = Update(rt, r[1].node), NEW g, g = RootInsert(u, r[1].new)
  PROVE  /\ Changes(rt, m1, m2, ls, d, g, r[1], r[2], r[3])
         /\ AllRows(Both(r[3])) = Having(ToSet(Rows(d[3])), k, v)
         /\ Len(u.kids) = Len(rt.kids)
         /\ r[1].new # {} => Len(g.kids) = Len(rt.kids) + 1
<1> DEFINE q3 == LeafInsert(d[3], k, v)
           q2 == Grow(d[2], q3)
           q1 == Grow(d[1], q2)
           w  == Update(rt, q1.node)
           h  == RootInsert(w, q1.new)
<1>1. /\ Changes(rt, m1, m2, ls, d, h, q1, q2, q3)
      /\ AllRows(Both(q3)) = Having(ToSet(Rows(d[3])), k, v)
      /\ Len(w.kids) = Len(rt.kids)
      /\ q1.new # {} => OneLonger(h.kids, rt.kids)
  BY InsertChanges
<1>2. q3 = r[3] /\ q2 = r[2] /\ q1 = r[1] /\ w = u /\ h = g
  OBVIOUS
<1> HIDE DEF q3, q2, q1, w, h
<1> QED BY <1>1, <1>2 DEF OneLonger

Remade(rt, O, d, r, k, v, u, g) ==
  /\ Changes(rt, O[1], O[2], O[3], d, g, r[1], r[2], r[3])
  /\ Sorted(g, Instead(O[1], d[1], Linkeds(Both(r[1]))),
               Instead(O[2], d[2], Linkeds(Both(r[2]))),
               Instead(O[3], d[3], Linkeds(Both(r[3]))))
  /\ \A j : Value(AllRows(Instead(O[3], d[3], Linkeds(Both(r[3])))), j) =
              IF j = k THEN v ELSE Value(AllRows(O[3]), j)
  /\ r[1].new # {} => Len(u.kids) < P1

(* What an insert leaves: layers in order, that have the value for its key *)
(* and for other keys what they had, under a root that had room.           *)
LEMMA MadeIs ==
  ASSUME NEW rt, NEW O, InOrder(rt, O), rt.kids # <<>>,
         NEW k \in Keys, NEW v \in Values, NEW d, d = WayTo(rt, O, k), AtAnEnd(d[3], k),
         NEW r, r = Made(d, k, v),
         NEW u, u = Update(rt, r[1].node), NEW g, g = RootInsert(u, r[1].new)
  PROVE  Remade(rt, O, d, r, k, v, u, g)
<1>1. /\ Way(rt, O[1], O[2], O[3], d) /\ Covers(O[3], d[3], k)
      /\ d[3] \in O[3] /\ k \in Int
  BY MapBounds, WayIs DEF Way
<1>2. /\ \A n \in O[3] : IsLeaf(n) /\ Keyed(n)
      /\ Apart(O[3])
  BY SortedFacts DEF InOrder
<1>3. AtAnEnd(d[3], k)
  OBVIOUS
<1>4. PICK m1, m2, ls : m1 = O[1] /\ m2 = O[2] /\ ls = O[3]
  OBVIOUS
<1>5. /\ r[3] = LeafInsert(d[3], k, v)
      /\ r[2] = Grow(d[2], r[3])
      /\ r[1] = Grow(d[1], r[2])
  BY DEF Made
<1>6. /\ Changes(rt, m1, m2, ls, d, g, r[1], r[2], r[3])
      /\ AllRows(Both(r[3])) = Having(ToSet(Rows(d[3])), k, v)
      /\ Len(u.kids) = Len(rt.kids)
      /\ r[1].new # {} => Len(g.kids) = Len(rt.kids) + 1
  <2>1. /\ Sorted(rt, m1, m2, ls) /\ rt.kids # <<>>
        /\ Way(rt, m1, m2, ls, d) /\ Covers(ls, d[3], k)
    BY <1>1, <1>4 DEF InOrder
  <2> QED BY <1>3, <1>5, <2>1, InsertMade
<1>7. PICK r1, r2, r3 : r1 = r[1] /\ r2 = r[2] /\ r3 = r[3]
  OBVIOUS
<1> DEFINE after == Instead(ls, d[3], Linkeds(Both(r3)))
<1>8. /\ Sorted(g, Instead(m1, d[1], Linkeds(Both(r1))),
                Instead(m2, d[2], Linkeds(Both(r2))), after)
      /\ AllRows(after) = HeldWithout(ls, d[3], Both(r3))
  <2>1. Sorted(rt, m1, m2, ls) /\ Way(rt, m1, m2, ls, d)
    BY <1>1, <1>4 DEF InOrder
  <2>2. Changes(rt, m1, m2, ls, d, g, r1, r2, r3)
    BY <1>6, <1>7
  <2> QED BY <2>1, <2>2, StepPlain
<1> HIDE DEF after
<1>9. AllRows(after) = Having(AllRows(ls), k, v)
  <2>1. AllRows(after) = AllRows(ls \ {d[3]}) \union Having(ToSet(Rows(d[3])), k, v)
    BY <1>6, <1>7, <1>8 DEF HeldWithout
  <2>2. PICK c : c = d[3]
    OBVIOUS
  <2>3. (\A n \in ls : Keyed(n)) /\ Apart(ls) /\ c \in ls /\ Covers(ls, c, k)
    BY <1>1, <1>2, <1>4, <2>2
  <2>4. AllRows(ls \ {c}) \union Having(ToSet(Rows(c)), k, v) = Having(AllRows(ls), k, v)
    BY <2>3, OnlyHere
  <2> QED BY <2>1, <2>2, <2>4
<1>10. \A j : Value(AllRows(after), j) = IF j = k THEN v ELSE Value(AllRows(ls), j)
  <2>1. \A p, q \in AllRows(ls) : p.key = q.key => p = q
    BY <1>2, <1>4, PairsDiffer
  <2> QED BY <1>9, <2>1, ValueAfter
<1>11. r[1].new # {} => Len(u.kids) < P1
  <2>1. Len(g.kids) <= P1
    BY <1>8, RootHasRoom
  <2>2. P1 \in Nat /\ Len(rt.kids) \in Nat
    BY MapBounds DEF InOrder, Sorted, Roots
  <2> QED BY <1>6, <2>1, <2>2
<1> QED BY <1>4, <1>6, <1>7, <1>8, <1>10, <1>11 DEF after, Remade

HasKey(p, x) == \E i \in DOMAIN p.kids : p.kids[i].key = x

(* The entries of a midNode, or of the root, are its rows. *)
LEMMA HasKeyIs ==
  ASSUME NEW p, Rows(p) = p.kids, NEW x
  PROVE  HasKey(p, x) <=> x \in KeysIn(p)
BY DEF HasKey, KeysIn, ToSet

Titled(O, d, r, g) ==
  /\ \A l \in 1 .. 3 :
       /\ d[l] \in O[l]
       /\ \A m, n \in O[l] : m.max = n.max => m = n
       /\ \A m \in O[l] \ {d[l]}, n \in Both(r[l]) : m.max # n.max
       /\ r[l].new = {} \/ \E b : r[l].new = {b} /\ b.max # r[l].node.max
  /\ \A n \in Both(r[1]) : HasKey(g, n.max)
  /\ \A l \in 2 .. 3 :
       \A n \in Both(r[l]) : \E p \in Both(r[l - 1]) : IsMid(p) /\ HasKey(p, n.max)

(* What the nodes of an insert are called, and that what was made of a     *)
(* node has entries for what was made of its child.                        *)
LEMMA MadeNames ==
  ASSUME NEW rt, NEW O, InOrder(rt, O), rt.kids # <<>>, NEW d,
         Way(rt, O[1], O[2], O[3], d),
         NEW r, NEW g, Changes(rt, O[1], O[2], O[3], d, g, r[1], r[2], r[3])
  PROVE  Titled(O, d, r, g)
<1>1. /\ d[1] \in O[1] /\ d[2] \in O[2] /\ d[3] \in O[3]
      /\ \A n \in O[1] : Keyed(n)
      /\ \A n \in O[2] : Keyed(n)
      /\ \A n \in O[3] : Keyed(n)
      /\ Apart(O[1]) /\ Apart(O[2]) /\ Apart(O[3])
  BY SortedFacts DEF InOrder, Way
<1>2. /\ Grows(O[1], d[1], r[1], P2) /\ \A n \in Both(r[1]) : IsMid(n)
      /\ Grows(O[2], d[2], r[2], P2) /\ \A n \in Both(r[2]) : IsMid(n)
      /\ Grows(O[3], d[3], r[3], C)
      /\ AllRows(Both(r[2])) = Exchanged(ToSet(Rows(d[2])), Name(d[3]), Names(Both(r[3])))
      /\ AllRows(Both(r[1])) = Exchanged(ToSet(Rows(d[1])), Name(d[2]), Names(Both(r[2])))
      /\ g \in Roots
      /\ ToSet(g.kids) = Exchanged(ToSet(rt.kids), Name(d[1]), Names(Both(r[1])))
  BY DEF Changes
<1>3. ASSUME NEW X, \A n \in X : Keyed(n), Apart(X), NEW e \in X, NEW q, NEW cap,
             Grows(X, e, q, cap)
      PROVE  /\ \A m, n \in X : m.max = n.max => m = n
             /\ \A m \in X \ {e}, n \in Both(q) : m.max # n.max
             /\ q.new = {} \/ \E b : q.new = {b} /\ b.max # q.node.max
  <2>1. \A m, n \in X : m.max = n.max => m = n
    <3> SUFFICES ASSUME NEW m \in X, NEW n \in X, m # n PROVE m.max # n.max
      OBVIOUS
    <3>1. m.max \in Int /\ n.max \in Int /\ (m.max < n.max \/ n.max < m.max)
      BY <1>3, ApartMaxes
    <3> QED BY <3>1
  <2>2. /\ \A m \in X \ {e}, n \in Both(q) : m.max # n.max
        /\ q.new = {} \/ \E b : q.new = {b} /\ b.max # q.node.max
    BY <1>3, NamesFree
  <2> QED BY <2>1, <2>2
<1>4. ASSUME NEW q, \A n \in Both(q) : IsMid(n), NEW s, NEW e, NEW R,
             AllRows(Both(q)) = Exchanged(s, e, Names(R)), NEW n \in R
      PROVE  \E p \in Both(q) : IsMid(p) /\ HasKey(p, n.max)
  <2>1. Name(n) \in AllRows(Both(q))
    BY <1>4 DEF Exchanged, Names
  <2>2. PICK p \in Both(q) : Name(n) \in ToSet(Rows(p))
    BY <2>1 DEF AllRows
  <2>3. n.max \in KeysIn(p)
    BY <2>2, NameOf DEF KeysIn
  <2>4. Rows(p) = p.kids
    BY <1>4, <2>2, MidFacts
  <2> QED BY <1>4, <2>2, <2>3, <2>4, HasKeyIs
<1>5. ASSUME NEW n \in Both(r[1]) PROVE HasKey(g, n.max)
  <2>1. Name(n) \in ToSet(g.kids) /\ Rows(g) = g.kids
    BY <1>2 DEF Exchanged, Names, Roots, Rows
  <2>2. n.max \in KeysIn(g)
    BY <2>1, NameOf DEF KeysIn
  <2> QED BY <2>1, <2>2, HasKeyIs
<1>6. ASSUME NEW l \in 1 .. 3
      PROVE  /\ d[l] \in O[l]
             /\ \A m, n \in O[l] : m.max = n.max => m = n
             /\ \A m \in O[l] \ {d[l]}, n \in Both(r[l]) : m.max # n.max
             /\ r[l].new = {} \/ \E b : r[l].new = {b} /\ b.max # r[l].node.max
  <2>1. PICK cap : Grows(O[l], d[l], r[l], cap)
    BY <1>2
  <2>2. d[l] \in O[l] /\ (\A n \in O[l] : Keyed(n)) /\ Apart(O[l])
    BY <1>1
  <2> QED BY <1>3, <2>1, <2>2
<1>7. ASSUME NEW l \in 2 .. 3, NEW n \in Both(r[l])
      PROVE  \E p \in Both(r[l - 1]) : IsMid(p) /\ HasKey(p, n.max)
  <2>1. CASE l = 2
    <3>1. \A m \in Both(r[2]) : \E p \in Both(r[1]) : IsMid(p) /\ HasKey(p, m.max)
      BY <1>2, <1>4
    <3> QED BY <2>1, <3>1
  <2>2. CASE l = 3
    <3>1. \A m \in Both(r[3]) : \E p \in Both(r[2]) : IsMid(p) /\ HasKey(p, m.max)
      BY <1>2, <1>4
    <3> QED BY <2>2, <3>1
  <2> QED BY <2>1, <2>2
<1> QED BY <1>5, <1>6, <1>7 DEF Titled

(* What insert makes of the nodes on its way and of the layers: what these *)
(* are called, and the entries there are for them.                         *)
Planned(rt, O, d, r, k, v) ==
  LET u == Update(rt, r[1].node)
      g == RootInsert(u, r[1].new)
  IN  /\ AtAnEnd(d[3], k)
      /\ r[3] = LeafInsert(d[3], k, v)
      /\ r[2] = Grow(d[2], r[3])
      /\ r[1] = Grow(d[1], r[2])
      /\ Remade(rt, O, d, r, k, v, u, g)
      /\ Titled(O, d, r, g)
      /\ \A l \in 1 .. 3 : \A n \in Both(r[l]) : IsMid(n) \/ IsLeaf(n)

(* It is what insert makes of them as long as the leaf gets its pair at an *)
(* end, or is full.                                                        *)
LEMMA PlanIs ==
  ASSUME NEW rt, NEW O, InOrder(rt, O), rt.kids # <<>>,
         NEW k \in Keys, NEW v \in Values,
         NEW d, d = WayTo(rt, O, k), AtAnEnd(d[3], k), NEW r, r = Made(d, k, v)
  PROVE  Planned(rt, O, d, r, k, v)
<1>1. PICK u, g : u = Update(rt, r[1].node) /\ g = RootInsert(u, r[1].new)
  OBVIOUS
<1>2. k \in Int
  BY MapBounds
<1>3. Remade(rt, O, d, r, k, v, u, g)
  BY <1>1, MadeIs
<1>4. Way(rt, O[1], O[2], O[3], d)
  BY <1>2, WayIs
<1>5. Changes(rt, O[1], O[2], O[3], d, g, r[1], r[2], r[3])
  BY <1>3 DEF Remade
<1>6. Titled(O, d, r, g)
  BY <1>4, <1>5, MadeNames
<1>7. \A l \in 1 .. 3 : \A n \in Both(r[l]) : IsMid(n) \/ IsLeaf(n)
  BY <1>5 DEF Changes
<1>8. r[3] = LeafInsert(d[3], k, v) /\ r[2] = Grow(d[2], r[3]) /\ r[1] = Grow(d[1], r[2])
  BY DEF Made
<1> QED BY <1>1, <1>3, <1>6, <1>7, <1>8 DEF Planned

(* The entries of a layer are the names of the next.                       *)
LEMMA EntriesAre ==
  ASSUME NEW P, \A p \in P : Rows(p) = p.kids, NEW X, AllRows(P) = Names(X), NEW x
  PROVE  (\E p \in P : HasKey(p, x)) <=> x \in Maxes(X)
<1>1. ASSUME NEW p \in P, HasKey(p, x) PROVE x \in Maxes(X)
  BY <1>1, HasKeyIs, KeyDown DEF Maxes
<1>2. ASSUME x \in Maxes(X) PROVE \E p \in P : HasKey(p, x)
  <2>1. PICK m \in X : x = m.max
    BY <1>2 DEF Maxes
  <2>2. PICK p \in P : m.max \in KeysIn(p)
    BY LinkUp
  <2> QED BY <2>1, <2>2, HasKeyIs
<1> QED BY <1>1, <1>2

(* What Insert and Update of a parent leave in a child is the child, under *)
(* the name its parent has for it.                                         *)
LEMMA LinkedIs ==
  ASSUME NEW n, IsMid(n) \/ IsLeaf(n)
  PROVE  LET m == Linked(n) IN
         /\ IsMid(n) => IsMid(m) /\ m.kids = n.kids
         /\ IsLeaf(n) => IsLeaf(m) /\ m.arr = n.arr
         /\ Keyed(m) /\ m.max = n.max /\ m.old = n.max /\ m.pos = n.pos /\ m.pos \in Int
         /\ Rows(m) = Rows(n) /\ Name(m) = Name(n)
<1> DEFINE m == Linked(n)
<1>1. CASE IsMid(n)
  <2>1. n \in Mids /\ Rows(n) = n.kids /\ Keyed(n) /\ n.pos \in Int
    BY <1>1, MidFacts DEF IsMid
  <2>2. /\ m \in Mids /\ m.kids = n.kids /\ m.max = n.max /\ m.old = n.max /\ m.pos = n.pos
    BY <2>1 DEF Linked, Mids
  <2> HIDE DEF m
  <2>3. Rows(m) = Rows(n)
    BY <2>1, <2>2, RowsOfMid
  <2>4. IsMid(m)
    BY <1>1, <2>2, <2>3 DEF IsMid, Tidy
  <2>5. Name(m) = Name(n) /\ Keyed(m)
    BY <2>2, <2>4, MidFacts DEF Name
  <2>6. ~IsLeaf(n)
    BY <2>1 DEF IsLeaf, Leafs, Mids
  <2> QED BY <2>1, <2>2, <2>3, <2>4, <2>5, <2>6 DEF m
<1>2. CASE IsLeaf(n)
  <2>1. n \in Leafs /\ Rows(n) = n.arr /\ Keyed(n) /\ n.pos \in Int
    BY <1>2, LeafFacts DEF IsLeaf
  <2>2. /\ m \in Leafs /\ m.arr = n.arr /\ m.max = n.max /\ m.old = n.max /\ m.pos = n.pos
    BY <2>1 DEF Linked, Leafs
  <2> HIDE DEF m
  <2>3. Rows(m) = Rows(n)
    BY <2>1, <2>2, RowsOfLeaf
  <2>4. IsLeaf(m)
    BY <1>2, <2>2, <2>3 DEF IsLeaf, Tidy
  <2>5. Name(m) = Name(n) /\ Keyed(m)
    BY <2>2, <2>4, LeafFacts DEF Name
  <2>6. ~IsMid(n)
    BY <2>1 DEF IsMid, Leafs, Mids
  <2> QED BY <2>1, <2>2, <2>3, <2>4, <2>5, <2>6 DEF m
<1> QED BY <1>1, <1>2

(* The nodes the first insert makes are a map of one pair.                 *)
LEMMA FoundedIs ==
  ASSUME NEW k \in Keys, NEW v \in Values, NEW f, f = Founded(k, v),
         NEW rt \in Roots, rt.kids = <<>>, NEW g, g = RootInsert(rt, {Linked(f[1])})
  PROVE  /\ Sorted(g, {Linked(f[1])}, {Linked(f[2])}, {Linked(f[3])})
         /\ AllRows({Linked(f[3])}) = {Pair(k, v)}
         /\ \A l \in 1 .. 3 : Linked(f[l]).max = f[l].max
<1>1. PICK a, b, c : a = f[1] /\ b = f[2] /\ c = f[3]
  OBVIOUS
<1>2. c = NewLeaf(k, v) /\ b = MidInsert(NewMid, c).node /\ a = MidInsert(NewMid, b).node
  BY <1>1 DEF Founded
<1>3. IsLeaf(c) /\ ToSet(c.arr) = {Pair(k, v)}
  BY <1>2, FirstLeaf
<1>4. /\ IsLeaf(c) /\ IsLeaf(Linked(c)) /\ c.max \in Int /\ c.pos \in Int /\ Linked(c).arr = c.arr
      /\ Keyed(Linked(c)) /\ Linked(c).old = Linked(c).max /\ Linked(c).pos \in Int
      /\ Rows(Linked(c)) = c.arr /\ Name(Linked(c)) = Name(c)
      /\ Linked(c).max = c.max
  BY <1>3, LinkedIs, LeafFacts DEF Keyed
<1>5. IsMid(b) /\ AllRows({b}) = {Name(c)}
  BY <1>2, <1>4, FirstMid
<1>6. /\ IsMid(Linked(b)) /\ b.max \in Int /\ b.pos \in Int
      /\ Keyed(Linked(b)) /\ Linked(b).old = Linked(b).max /\ Linked(b).pos \in Int
      /\ Rows(Linked(b)) = Rows(b) /\ Name(Linked(b)) = Name(b)
      /\ Linked(b).max = b.max
  BY <1>5, LinkedIs, MidFacts DEF Keyed
<1>7. IsMid(a) /\ AllRows({a}) = {Name(b)}
  BY <1>2, <1>6, FirstMid
<1>8. /\ IsMid(Linked(a)) /\ a.max \in Int /\ a.pos \in Int
      /\ Keyed(Linked(a)) /\ Linked(a).old = Linked(a).max /\ Linked(a).pos \in Int
      /\ Rows(Linked(a)) = Rows(a) /\ Name(Linked(a)) = Name(a)
      /\ Linked(a).max = a.max /\ Linked(a).pos = a.pos
  BY <1>7, LinkedIs, MidFacts DEF Keyed
<1> HIDE DEF Linked
<1>9. /\ AllRows({Linked(a)}) = Names({Linked(b)})
      /\ AllRows({Linked(b)}) = Names({Linked(c)})
      /\ AllRows({Linked(c)}) = {Pair(k, v)}
  BY <1>3, <1>4, <1>5, <1>6, <1>7, <1>8 DEF AllRows, Names
<1>10. \A n, cap : Keyed(n) /\ n.old = n.max /\ n.pos \in Int => Layer({n}, cap)
  BY DEF Layer, Apart, Crowded
<1> DEFINE t == SortByKey(Append(<<>>, Name(a)))
<1>11. /\ t \in Seq(Links) /\ Len(t) = Len(<<>>) + 1 /\ Increasing(t)
       /\ ToSet(t) = {} \union {Name(a)}
  <2>1. <<>> \in Seq(Links) /\ Increasing(<<>>) /\ ToSet(<<>>) = {}
    BY DEF Increasing, ToSet
  <2>2. Name(a) \in Links
    BY <1>8 DEF Name, Entry, Links
  <2>3. \A e \in ToSet(<<>>) : e.key # Name(a).key
    BY <2>1
  <2> QED BY <2>1, <2>2, <2>3, AddedInOrder
<1>12. g = WithKids(rt, t)
  <2>1. (CHOOSE n \in {Linked(a)} : TRUE) = Linked(a)
    OBVIOUS
  <2>2. g = WithKids(rt, SortByKey(Append(rt.kids, Entry(Linked(a).max, Linked(a).pos))))
    BY <1>1, <2>1 DEF RootInsert
  <2> QED BY <1>8, <2>2 DEF Name
<1> HIDE DEF t
<1>13. t # <<>> /\ Last(t).key \in Int
  <2>1. t # <<>>
    <3>1. Len(<<>>) = 0
      OBVIOUS
    <3>2. Len(t) = 1
      BY <1>11, <3>1
    <3> QED BY <3>1, <3>2
  <2>2. Last(t) \in Links
    BY <1>11, <2>1 DEF Last
  <2> QED BY <2>1, <2>2 DEF Links
<1>14. g \in Roots /\ g.kids = t /\ g.max = Last(t).key
  BY <1>11, <1>12, <1>13 DEF WithKids, Roots
<1>15. AllRows({g}) = Names({Linked(a)})
  <2>1. Rows(g) = t
    BY <1>14 DEF Roots, Rows
  <2> QED BY <1>8, <1>11, <2>1 DEF AllRows, Names
<1>16. ToSet(Linked(c).arr) \subseteq PairsOfMap
  BY <1>3, <1>4 DEF PairsOfMap, Pair
<1>17. Layer({Linked(a)}, P2) /\ Layer({Linked(b)}, P2) /\ Layer({Linked(c)}, C)
  BY <1>4, <1>6, <1>8, <1>10
<1>18. Sorted(g, {Linked(a)}, {Linked(b)}, {Linked(c)})
  BY <1>4, <1>6, <1>8, <1>9, <1>11, <1>14, <1>15, <1>16, <1>17 DEF Sorted
<1>19. Linked(f[1]).max = f[1].max /\ Linked(f[2]).max = f[2].max /\ Linked(f[3]).max = f[3].max
  BY <1>1, <1>4, <1>6, <1>8
<1>20. \A l \in 1 .. 3 : Linked(f[l]).max = f[l].max
  BY <1>19
<1> QED BY <1>1, <1>9, <1>18, <1>20

(* The names of nodes are keys of the map.                                 *)
LEMMA NamesAreKeys ==
  ASSUME NEW rt, NEW m1, NEW m2, NEW ls, Sorted(rt, m1, m2, ls)
  PROVE  \A n \in m1 \union m2 \union ls : n.max \in Keys
<1>1. \A n \in m1 \union m2 \union ls : n.max \in KeysIn(n)
  BY SortedFacts DEF Keyed
<1>2. AllRows(m1) = Names(m2) /\ AllRows(m2) = Names(ls)
  BY DEF Sorted
<1>3. \A n \in ls : n.max \in Keys
  <2> SUFFICES ASSUME NEW n \in ls PROVE n.max \in Keys
    OBVIOUS
  <2>1. Rows(n) = n.arr /\ ToSet(n.arr) \subseteq PairsOfMap
    BY RowsOfLeaf DEF Sorted, IsLeaf
  <2>2. \A e \in ToSet(Rows(n)) : e.key \in Keys
    BY <2>1 DEF PairsOfMap
  <2> QED BY <1>1, <2>2 DEF KeysIn
<1>4. \A n \in m2 : n.max \in Keys
  BY <1>1, <1>2, <1>3, KeyDown
<1>5. \A n \in m1 : n.max \in Keys
  BY <1>1, <1>2, <1>4, KeyDown
<1> QED BY <1>3, <1>4, <1>5

(* So are those of the nodes an insert makes.                              *)
LEMMA PlanNames ==
  ASSUME NEW rt, NEW O, NEW d, NEW r, NEW k, NEW v, Planned(rt, O, d, r, k, v), NEW l \in 1 .. 3
  PROVE  \A n \in Both(r[l]) : n.max \in Keys
<1>1. PICK g : Sorted(g, Instead(O[1], d[1], Linkeds(Both(r[1]))),
                         Instead(O[2], d[2], Linkeds(Both(r[2]))),
                         Instead(O[3], d[3], Linkeds(Both(r[3]))))
  BY DEF Planned, Remade
<1>2. \A m \in 1 .. 3 : \A n \in Instead(O[m], d[m], Linkeds(Both(r[m]))) : n.max \in Keys
  BY <1>1, NamesAreKeys
<1>3. ASSUME NEW n \in Both(r[l]) PROVE n.max \in Keys
  <2>1. Linked(n) \in Instead(O[l], d[l], Linkeds(Both(r[l])))
    BY <1>3 DEF Linkeds, Instead
  <2>2. Linked(n).max = n.max
    BY <1>3, LinkedIs DEF Planned
  <2> QED BY <1>2, <2>1, <2>2
<1> QED BY <1>3

=============================================================================
