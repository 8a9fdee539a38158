--------------------------- MODULE TreeMap_proofs ---------------------------
(***************************************************************************)
(* The tree of TreeMap is a map, and its layers stay linked: the inductive *)
(* invariant TreeInv says that each layer's nodes are in order and apart,  *)
(* and that the entries of a layer are the names of the nodes of the next  *)
(* one.                                                                    *)
(***************************************************************************)
EXTENDS TreeMap, Nodes_proofs

(* What insert writes of a layer are the nodes of it, linked to their      *)
(* parents.                                                                *)
LEMMA WrittenIs ==
  ASSUME NEW r PROVE Written(r) = Linkeds(Both(r))
BY DEF Written, Linkeds, Both

(* finish draws a position for each node by its id. *)
LEMMA DrawsNumber ==
  ASSUME NEW R, \A n \in R : Linked(n).max = n.max, NEW ps \in SUBSET Int,
         NEW new \in Draws(Linkeds(R), ps)
  PROVE  Numbers(new, R)
<1>1. DOMAIN new = {m.max : m \in Linkeds(R)} /\ \A x \in DOMAIN new : new[x] \in ps
  BY DEF Draws
<1>2. {m.max : m \in Linkeds(R)} = {n.max : n \in R}
  BY DEF Linkeds
<1> QED BY <1>1, <1>2 DEF Numbers

(* Read...Node finds the one node that the entry names.                    *)
LEMMA ReadFinds ==
  ASSUME NEW P, NEW X, \A n \in X : Keyed(n), Apart(X), AllRows(P) = Names(X),
         NEW p \in P, Kidded(p), NEW k \in Int
  PROVE  \E d \in X : At(X, Search(p, k)) = {d} /\ Name(d) = Search(p, k)
<1>1. Search(p, k) \in ToSet(Rows(p))
  <2>1. Search(p, k) \in ToSet(p.kids)
    BY SearchFinds
  <2> QED BY <2>1 DEF Kidded
<1>2. PICK d \in X : Name(d) = Search(p, k)
  BY <1>1, LinkDown
<1>3. d.max = Search(p, k).key /\ d.pos = Search(p, k).pos
  BY <1>2, NameOf
<1>4. \A n \in X : n.max = d.max => n = d
  BY ApartMaxes
<1>5. At(X, Search(p, k)) = {d}
  BY <1>3, <1>4 DEF At
<1> QED BY <1>2, <1>5

(* The descent of insert and search to the leaf the key belongs in         *)
LEMMA DescentIs ==
  ASSUME Sorted(root, mid1, mid2, leaf), root.kids # <<>>, NEW k \in Int
  PROVE  \E d : /\ Descents(k) = {d}
                /\ Way(root, mid1, mid2, leaf, d)
                /\ Covers(leaf, d[3], k)
<1>1. /\ \A n \in mid1 : IsMid(n) /\ Keyed(n)
      /\ \A n \in mid2 : IsMid(n) /\ Keyed(n)
      /\ \A n \in leaf : IsLeaf(n) /\ Keyed(n)
      /\ Apart(mid1) /\ Apart(mid2) /\ Apart(leaf)
  BY SortedFacts
<1>2. /\ root \in Roots /\ Increasing(root.kids) /\ root.max = Last(root.kids).key
      /\ AllRows({root}) = Names(mid1) /\ AllRows(mid1) = Names(mid2) /\ AllRows(mid2) = Names(leaf)
  BY DEF Sorted
<1>3. Kidded(root) /\ Keyed(root) /\ Rows(root) = root.kids /\ Apart({root}) /\ Covers({root}, root, k)
  BY <1>2, RootFacts
<1>4. \A n \in {root} : Keyed(n)
  BY <1>3
<1>5. \A n \in mid1 \union mid2 : Kidded(n)
  BY <1>1, MidFacts
<1>6. PICK a \in mid1 : At(mid1, Search(root, k)) = {a} /\ Name(a) = Search(root, k)
  <2>1. root \in {root}
    OBVIOUS
  <2>2. \A n \in mid1 : Keyed(n)
    BY <1>1
  <2> QED BY <1>1, <1>2, <1>3, <2>1, <2>2, ReadFinds
<1>7. Covers(mid1, a, k) /\ Name(a) \in ToSet(Rows(root))
  <2>1. root \in {root}
    OBVIOUS
  <2>2. \A n \in mid1 : Keyed(n)
    BY <1>1
  <2> QED BY <1>2, <1>3, <1>4, <1>6, <2>1, <2>2, DescendCovers
<1>8. PICK b \in mid2 : At(mid2, Search(a, k)) = {b} /\ Name(b) = Search(a, k)
  <2>1. \A n \in mid2 : Keyed(n)
    BY <1>1
  <2>2. Kidded(a)
    BY <1>5
  <2> QED BY <1>1, <1>2, <2>1, <2>2, ReadFinds
<1>9. Covers(mid2, b, k) /\ Name(b) \in ToSet(Rows(a))
  <2>1. \A n \in mid2 : Keyed(n)
    BY <1>1
  <2>2. Kidded(a) /\ \A n \in mid1 : Keyed(n)
    BY <1>1, <1>5
  <2> QED BY <1>1, <1>2, <1>7, <1>8, <2>1, <2>2, DescendCovers
<1>10. PICK c \in leaf : At(leaf, Search(b, k)) = {c} /\ Name(c) = Search(b, k)
  <2>1. \A n \in leaf : Keyed(n)
    BY <1>1
  <2>2. Kidded(b)
    BY <1>5
  <2> QED BY <1>1, <1>2, <2>1, <2>2, ReadFinds
<1>11. Covers(leaf, c, k) /\ Name(c) \in ToSet(Rows(b))
  <2>1. \A n \in leaf : Keyed(n)
    BY <1>1
  <2>2. Kidded(b) /\ \A n \in mid2 : Keyed(n)
    BY <1>1, <1>5
  <2> QED BY <1>1, <1>2, <1>9, <1>10, <2>1, <2>2, DescendCovers
<1> DEFINE d == <<a, b, c>>
<1>12. Descents(k) = {d}
  BY <1>6, <1>8, <1>10 DEF Descents
<1>13. Way(root, mid1, mid2, leaf, d)
  BY <1>3, <1>7, <1>9, <1>11 DEF Way
<1> QED BY <1>11, <1>12, <1>13

(* What search finds is what the map has: in the leaf the descent ends in, *)
(* or nowhere.                                                             *)
LEMMA FindIs ==
  ASSUME Sorted(root, mid1, mid2, leaf), NEW k \in Int
  PROVE  Find(k) = Value(AllRows(leaf), k)
<1>1. CASE root.kids = <<>>
  <2>1. AllRows(leaf) = {}
    BY <1>1, NothingInEmpty
  <2> QED BY <1>1, <2>1 DEF Find, Value
<1>2. CASE root.kids # <<>>
  <2>1. PICK d : /\ Descents(k) = {d}
                 /\ Way(root, mid1, mid2, leaf, d)
                 /\ Covers(leaf, d[3], k)
    BY <1>2, DescentIs
  <2>2. d[3] \in leaf
    BY <2>1 DEF Way
  <2>3. (\A n \in leaf : IsLeaf(n) /\ Keyed(n)) /\ Apart(leaf)
    BY SortedFacts
  <2>4. UNION {LeafSearch(e[3], k) : e \in Descents(k)} = LeafSearch(d[3], k)
    BY <2>1
  <2>5. Find(k) = ValueIn(d[3], k)
    <3> DEFINE found == IF root.kids = <<>> THEN {}
                        ELSE UNION {LeafSearch(e[3], k) : e \in Descents(k)}
    <3>1. found = LeafSearch(d[3], k)
      BY <1>2, <2>4
    <3>2. Find(k) = IF found = {} THEN -1 ELSE CHOOSE v \in found : TRUE
      BY DEF Find
    <3> HIDE DEF found
    <3> QED BY <3>1, <3>2 DEF ValueIn
  <2>6. PICK c : c = d[3]
    OBVIOUS
  <2>7. ValueIn(c, k) = Value(AllRows(leaf), k)
    BY <2>1, <2>2, <2>3, <2>6, LeafHas
  <2> QED BY <2>5, <2>6, <2>7
<1> QED BY <1>1, <1>2

(* client::search leaves the nodes as they are *)
Same(n) == [node |-> n, new |-> {}]

(* A node that is only read is still what a layer in order asks of it. *)
LEMMA SameIs ==
  ASSUME NEW X, \A n \in X : Keyed(n) /\ n.pos \in Int /\ Len(Rows(n)) \in Nat, Apart(X),
         NEW d \in X, NEW cap
  PROVE  Both(Same(d)) = {d} /\ Grows(X, d, Same(d), cap)
<1>1. Both(Same(d)) = {d} /\ Same(d).node = d /\ Same(d).new = {}
  BY DEF Both, Same
<1>2. \A n \in X : Keyed(n)
  OBVIOUS
<1>3. \A x \in KeysIn(d) : Covers(X, d, x)
  BY <1>2, CoversOwn
<1>4. Outcome(Same(d), d, cap)
  BY <1>1 DEF Outcome
<1> QED BY <1>1, <1>3, <1>4 DEF Grows

(* client::search on its way up: nothing gives way to anything. *)
LEMMA SearchChanges ==
  ASSUME NEW rt, NEW m1, NEW m2, NEW ls, Sorted(rt, m1, m2, ls), rt.kids # <<>>,
         NEW d, Way(rt, m1, m2, ls, d)
  PROVE  Changes(rt, m1, m2, ls, d, rt, Same(d[1]), Same(d[2]), Same(d[3]))
<1>1. /\ \A n \in m1 : IsMid(n)
      /\ \A n \in m1 : Keyed(n) /\ n.pos \in Int /\ Len(Rows(n)) \in Nat
      /\ \A n \in m2 : IsMid(n)
      /\ \A n \in m2 : Keyed(n) /\ n.pos \in Int /\ Len(Rows(n)) \in Nat
      /\ \A n \in ls : Keyed(n) /\ n.pos \in Int /\ Len(Rows(n)) \in Nat
      /\ Apart(m1) /\ Apart(m2) /\ Apart(ls)
  BY SortedFacts, MidFacts, LeafFacts
<1>2. /\ rt \in Roots /\ Increasing(rt.kids) /\ rt.max = Last(rt.kids).key
      /\ \A n \in ls : IsLeaf(n) /\ ToSet(n.arr) \subseteq PairsOfMap
  BY DEF Sorted
<1>3. /\ d[1] \in m1 /\ Name(d[1]) \in ToSet(rt.kids)
      /\ d[2] \in m2 /\ Name(d[2]) \in ToSet(Rows(d[1]))
      /\ d[3] \in ls /\ Name(d[3]) \in ToSet(Rows(d[2]))
  BY DEF Way
<1>4. Both(Same(d[3])) = {d[3]} /\ Grows(ls, d[3], Same(d[3]), C)
  BY <1>1, <1>3, SameIs
<1>5. Both(Same(d[2])) = {d[2]} /\ Grows(m2, d[2], Same(d[2]), P2)
  BY <1>1, <1>3, SameIs
<1>6. Both(Same(d[1])) = {d[1]} /\ Grows(m1, d[1], Same(d[1]), P2)
  BY <1>1, <1>3, SameIs
<1>7. \A n : Names({n}) = {Name(n)} /\ AllRows({n}) = ToSet(Rows(n))
  BY DEF Names, AllRows
<1>8. \A s, e : e \in s => Exchanged(s, e, {e}) = s
  BY DEF Exchanged
<1> DEFINE q1 == Same(d[1])
           q2 == Same(d[2])
           q3 == Same(d[3])
<1>9. AllRows(Both(q2)) = Exchanged(ToSet(Rows(d[2])), Name(d[3]), Names(Both(q3)))
  BY <1>3, <1>4, <1>5, <1>7, <1>8
<1>10. AllRows(Both(q1)) = Exchanged(ToSet(Rows(d[1])), Name(d[2]), Names(Both(q2)))
  BY <1>3, <1>5, <1>6, <1>7, <1>8
<1>11. ToSet(rt.kids) = Exchanged(ToSet(rt.kids), Name(d[1]), Names(Both(q1)))
  BY <1>3, <1>6, <1>7, <1>8
<1> HIDE DEF q1, q2, q3
<1>12. /\ \A n \in Both(q3) : IsLeaf(n) /\ ToSet(n.arr) \subseteq PairsOfMap
       /\ \A n \in Both(q2) : IsMid(n)
       /\ \A n \in Both(q1) : IsMid(n)
  BY <1>1, <1>2, <1>3, <1>4, <1>5, <1>6 DEF q1, q2, q3
<1>13. Grows(ls, d[3], q3, C) /\ Grows(m2, d[2], q2, P2) /\ Grows(m1, d[1], q1, P2)
  BY <1>4, <1>5, <1>6 DEF q1, q2, q3
<1>14. Changes(rt, m1, m2, ls, d, rt, q1, q2, q3)
  BY <1>2, <1>9, <1>10, <1>11, <1>12, <1>13 DEF Changes
<1> QED BY <1>14 DEF q1, q2, q3

(* What Finish writes                                                      *)
LEMMA FinishIs ==
  ASSUME NEW d, NEW rt, NEW R1, NEW R2, NEW R3,
         \A n \in R1 \union R2 : IsMid(n), \A n \in R3 : IsLeaf(n),
         Finish(d, rt, Linkeds(R1), Linkeds(R2), Linkeds(R3))
  PROVE  \E new1, new2, new3 :
           /\ Numbers(new1, R1) /\ Numbers(new2, R2) /\ Numbers(new3, R3)
           /\ root' = Repointed(rt, new1)
           /\ mid1' = Instead(mid1, d[1], MidsOf(Linkeds(R1), new1, new2))
           /\ mid2' = Instead(mid2, d[2], MidsOf(Linkeds(R2), new2, new3))
           /\ leaf' = Instead(leaf, d[3], Moved(Linkeds(R3), new3))
<1>1. PICK new1 \in Draws(Linkeds(R1), Positions1), new2 \in Draws(Linkeds(R2), Positions2),
           new3 \in Draws(Linkeds(R3), Positions3) :
        /\ root' = Repointed(rt, new1)
        /\ mid1' = (mid1 \ {d[1]}) \union {Repointed(n, new2) : n \in Moved(Linkeds(R1), new1)}
        /\ mid2' = (mid2 \ {d[2]}) \union {Repointed(n, new3) : n \in Moved(Linkeds(R2), new2)}
        /\ leaf' = (leaf \ {d[3]}) \union Moved(Linkeds(R3), new3)
  BY DEF Finish
<1>2. Positions1 \in SUBSET Int /\ Positions2 \in SUBSET Int /\ Positions3 \in SUBSET Int
  BY PositionsAssumption
<1>3. /\ \A n \in R1 : Linked(n).max = n.max
      /\ \A n \in R2 : Linked(n).max = n.max
      /\ \A n \in R3 : Linked(n).max = n.max
  BY DEF Linked, IsMid, IsLeaf, Mids, Leafs
<1>4. Numbers(new1, R1) /\ Numbers(new2, R2) /\ Numbers(new3, R3)
  BY <1>2, <1>3, DrawsNumber
<1>5. /\ mid1' = Instead(mid1, d[1], MidsOf(Linkeds(R1), new1, new2))
      /\ mid2' = Instead(mid2, d[2], MidsOf(Linkeds(R2), new2, new3))
      /\ leaf' = Instead(leaf, d[3], Moved(Linkeds(R3), new3))
  BY <1>1 DEF Instead, MidsOf
<1> QED BY <1>1, <1>4, <1>5

(* The layers of an empty map are in order. *)
LEMMA InitSorted ==
  ASSUME Init PROVE Sorted(root, mid1, mid2, leaf)
<1>1. /\ root = [kids |-> <<>>, max |-> NoKey]
      /\ mid1 = {} /\ mid2 = {} /\ leaf = {}
  BY DEF Init
<1>2. PICK rt : rt = root
  OBVIOUS
<1>3. Sorted(rt, {}, {}, {})
  BY <1>1, <1>2, EmptySorted
<1> QED BY <1>1, <1>2, <1>3

(* The first insert leaves the layers in order, with its pair. *)
LEMMA FirstStep ==
  ASSUME Sorted(root, mid1, mid2, leaf), NEW k \in Keys, NEW v \in Values, InsertFirst(k, v)
  PROVE  /\ Sorted(root, mid1, mid2, leaf)'
         /\ AllRows(leaf') = Having(AllRows(leaf), k, v)
         /\ UNCHANGED <<result, lost>>
<1> DEFINE l  == NewLeaf(k, v)
           m2 == MidInsert(NewMid, l).node
           m1 == MidInsert(NewMid, m2).node
           rt == WithKids(root, <<Entry(m1.max, m1.pos)>>)
<1>1. mid1 = {} /\ mid2 = {} /\ leaf = {} /\ AllRows(leaf) = {}
  BY NothingInEmpty DEF InsertFirst
<1>2. IsLeaf(l) /\ ToSet(l.arr) = {Pair(k, v)}
  BY FirstLeaf
<1>3. /\ Finish(<<m1, m2, l>>, rt, {Linked(m1)}, {Linked(m2)}, {Linked(l)})
      /\ UNCHANGED <<result, lost>>
  BY DEF InsertFirst
<1> HIDE DEF l
<1>4. Keyed(l) /\ l.pos \in Int /\ Rows(l) = l.arr
  BY <1>2, LeafFacts
<1>5. IsMid(m2) /\ AllRows({m2}) = {Name(l)}
  <2>1. l.max \in Int
    BY <1>4 DEF Keyed
  <2> QED BY <1>4, <2>1, FirstMid
<1> HIDE DEF m2
<1>6. IsMid(m1) /\ AllRows({m1}) = {Name(m2)}
  <2>1. m2.max \in Int /\ m2.pos \in Int
    BY <1>5, MidFacts DEF Keyed
  <2> QED BY <2>1, FirstMid
<1> HIDE DEF m1
<1>7. m1.max \in Int /\ m1.pos \in Int
  BY <1>6, MidFacts DEF Keyed
<1>8. /\ rt \in Roots /\ rt.kids # <<>> /\ Increasing(rt.kids) /\ rt.max = Last(rt.kids).key
      /\ ToSet(rt.kids) = {Name(m1)}
  <2> DEFINE s == <<Name(m1)>>
  <2>1. s \in Seq(Links) /\ s # <<>> /\ Len(s) = 1 /\ s[1] = Name(m1) /\ DOMAIN s = 1 .. 1
    BY <1>7 DEF Name, Entry, Links
  <2>2. Increasing(s) /\ ToSet(s) = {Name(m1)} /\ Last(s) = Name(m1) /\ Name(m1).key = m1.max
    BY <2>1 DEF Increasing, ToSet, Last, Name, Entry
  <2>3. root \in Roots /\ rt = WithKids(root, s)
    BY DEF Sorted, Name
  <2> HIDE DEF s, rt
  <2>4. rt \in Roots /\ rt.kids = s /\ rt.max = Last(s).key
    BY <1>7, <2>1, <2>2, <2>3 DEF WithKids, Roots
  <2> QED BY <2>1, <2>2, <2>4
<1> HIDE DEF rt
<1>9. PICK new1, new2, new3 :
           /\ Numbers(new1, {m1}) /\ Numbers(new2, {m2}) /\ Numbers(new3, {l})
           /\ root' = Repointed(rt, new1)
           /\ mid1' = Instead(mid1, m1, MidsOf(Linkeds({m1}), new1, new2))
           /\ mid2' = Instead(mid2, m2, MidsOf(Linkeds({m2}), new2, new3))
           /\ leaf' = Instead(leaf, l, Moved(Linkeds({l}), new3))
  <2> DEFINE d == <<m1, m2, l>>
  <2>1. d[1] = m1 /\ d[2] = m2 /\ d[3] = l
    OBVIOUS
  <2>2. /\ Linkeds({m1}) = {Linked(m1)}
        /\ Linkeds({m2}) = {Linked(m2)}
        /\ Linkeds({l}) = {Linked(l)}
    BY DEF Linkeds
  <2>3. Finish(d, rt, Linkeds({m1}), Linkeds({m2}), Linkeds({l}))
    BY <1>3, <2>2
  <2>4. (\A n \in {m1} \union {m2} : IsMid(n)) /\ \A n \in {l} : IsLeaf(n)
    BY <1>2, <1>5, <1>6
  <2> HIDE DEF d
  <2>5. \E new1, new2, new3 :
           /\ Numbers(new1, {m1}) /\ Numbers(new2, {m2}) /\ Numbers(new3, {l})
           /\ root' = Repointed(rt, new1)
           /\ mid1' = Instead(mid1, d[1], MidsOf(Linkeds({m1}), new1, new2))
           /\ mid2' = Instead(mid2, d[2], MidsOf(Linkeds({m2}), new2, new3))
           /\ leaf' = Instead(leaf, d[3], Moved(Linkeds({l}), new3))
    BY <2>3, <2>4, FinishIs
  <2> QED BY <2>1, <2>5
<1> DEFINE F1 == MidsOf(Linkeds({m1}), new1, new2)
           F2 == MidsOf(Linkeds({m2}), new2, new3)
           F3 == Moved(Linkeds({l}), new3)
<1>10. mid1' = F1 /\ mid2' = F2 /\ leaf' = F3
  BY <1>1, <1>9 DEF Instead
<1>11. /\ \A x \in DOMAIN new1 : new1[x] \in Int
       /\ \A x \in DOMAIN new2 : new2[x] \in Int
       /\ \A x \in DOMAIN new3 : new3[x] \in Int
  BY <1>9 DEF Numbers
<1>12. /\ \A m \in F1 : IsMid(m) /\ m.old = m.max /\ m.pos \in Int
       /\ Copies(F1, {m1})
       /\ Names(F1) = Renewed({m1}, new1)
       /\ AllRows(F1) = Repoints(AllRows({m1}), new2)
  BY <1>6, <1>9, <1>11, MidsWritten
<1>13. /\ \A m \in F2 : IsMid(m) /\ m.old = m.max /\ m.pos \in Int
       /\ Copies(F2, {m2})
       /\ Names(F2) = Renewed({m2}, new2)
       /\ AllRows(F2) = Repoints(AllRows({m2}), new3)
  BY <1>5, <1>9, <1>11, MidsWritten
<1>14. /\ \A m \in F3 : IsLeaf(m) /\ m.old = m.max /\ m.pos \in Int
       /\ Copies(F3, {l})
       /\ Names(F3) = Renewed({l}, new3)
       /\ AllRows(F3) = AllRows({l})
  BY <1>2, <1>9, LeavesWritten
<1>15. /\ root' \in Roots /\ root'.kids # <<>> /\ Increasing(root'.kids)
       /\ root'.max = Last(root'.kids).key
       /\ ToSet(root'.kids) = Repoints(ToSet(rt.kids), new1)
  BY <1>8, <1>9, <1>11, RootRepointed
<1>16. AllRows({root'}) = Names(F1)
  <2>1. AllRows({root'}) = ToSet(root'.kids)
    BY <1>15, RootFacts
  <2> QED BY <1>8, <1>9, <1>12, <1>15, <2>1, LoneLink
<1> HIDE DEF F1, F2, F3
<1>17. AllRows(F1) = Names(F2) /\ AllRows(F2) = Names(F3)
  BY <1>5, <1>6, <1>9, <1>12, <1>13, <1>14, LoneLink
<1>18. Layer(F1, P2)
  <2>1. \A m \in F1 : Keyed(m) /\ m.old = m.max /\ m.pos \in Int
    BY <1>12, MidFacts
  <2> QED BY <1>12, <2>1, LoneLayer
<1>19. Layer(F2, P2)
  <2>1. \A m \in F2 : Keyed(m) /\ m.old = m.max /\ m.pos \in Int
    BY <1>13, MidFacts
  <2> QED BY <1>13, <2>1, LoneLayer
<1>20. Layer(F3, C)
  <2>1. \A m \in F3 : Keyed(m) /\ m.old = m.max /\ m.pos \in Int
    BY <1>14, LeafFacts
  <2> QED BY <1>14, <2>1, LoneLayer
<1>21. AllRows(F3) = {Pair(k, v)}
  BY <1>2, <1>4, <1>14 DEF AllRows
<1>22. \A n \in F3 : ToSet(n.arr) \subseteq PairsOfMap
  <2>1. \A n \in F3 : Rows(n) = n.arr
    BY <1>14, LeafFacts
  <2>2. \A n \in F3 : ToSet(n.arr) \subseteq {Pair(k, v)}
    BY <1>21, <2>1 DEF AllRows
  <2>3. Pair(k, v) \in PairsOfMap
    BY DEF Pair, PairsOfMap
  <2> QED BY <2>2, <2>3
<1>23. Sorted(root, mid1, mid2, leaf)'
  BY <1>10, <1>12, <1>13, <1>14, <1>15, <1>16, <1>17, <1>18, <1>19, <1>20, <1>22 DEF Sorted
<1>24. Having({}, k, v) = {Pair(k, v)}
  BY DEF Having
<1> QED BY <1>1, <1>3, <1>10, <1>21, <1>23, <1>24

(* Where leafNode::Insert keeps a leaf in order: pairs come at the ends of *)
(* a leaf with room, or a leaf holds no more than two.                     *)
OrderKept == AtEnds \/ C <= 2

(* An insert goes into a full leaf or to an end of one with room. *)
LEMMA AllowedEnd ==
  ASSUME OrderKept, NEW k \in Int, Allowed(k), root.kids # <<>>,
         NEW d \in Descents(k), IsLeaf(d[3])
  PROVE  AtAnEnd(d[3], k)
<1>1. CASE AtEnds
  BY <1>1 DEF Allowed, AtAnEnd
<1>2. CASE C <= 2
  BY <1>2, SmallLeaf
<1> QED BY <1>1, <1>2 DEF OrderKept

(* Every insert leaves the layers in order, with its pair among those of   *)
(* before; it misses no node, and finds room in the root.                  *)
LEMMA InsertStep ==
  ASSUME OrderKept, Sorted(root, mid1, mid2, leaf), NEW k \in Keys, NEW v \in Values,
         Allowed(k), InsertNext(k, v)
  PROVE  /\ Sorted(root, mid1, mid2, leaf)'
         /\ AllRows(leaf') = Having(AllRows(leaf), k, v)
         /\ lost' = FALSE
         /\ UNCHANGED result
<1>0. PICK rt, m1, m2, ls : rt = root /\ m1 = mid1 /\ m2 = mid2 /\ ls = leaf
  OBVIOUS
<1>1. k \in Int /\ root.kids # <<>>
  BY MapBounds DEF InsertNext
<1>2. PICK d : /\ Descents(k) = {d}
               /\ Way(root, mid1, mid2, leaf, d)
               /\ Covers(leaf, d[3], k)
  BY <1>1, DescentIs
<1> DEFINE r3 == LeafInsert(d[3], k, v)
           r2 == Grow(d[2], r3)
           r1 == Grow(d[1], r2)
           u  == Update(root, r1.node)
           g  == RootInsert(u, r1.new)
<1>3. lost' = FALSE /\ UNCHANGED result
  BY <1>2 DEF InsertNext, Misses
<1>4. IF r1.new = {} \/ Len(u.kids) < P1
        THEN Finish(d, g, Written(r1), Written(r2), Written(r3))
        ELSE Finish(d, u, {Linked(r1.node)} \union r1.new, Written(r2), Written(r3))
  BY <1>2, <1>3 DEF InsertNext
<1>5. d[3] \in leaf /\ d \in Descents(k)
  BY <1>2 DEF Way
<1>6. AtAnEnd(d[3], k)
  <2>1. IsLeaf(d[3])
    BY <1>5, SortedFacts
  <2> QED BY <1>1, <1>5, <2>1, AllowedEnd
<1>7. /\ Changes(root, mid1, mid2, leaf, d, g, r1, r2, r3)
      /\ AllRows(Both(r3)) = Having(ToSet(Rows(d[3])), k, v)
      /\ Len(u.kids) = Len(root.kids)
      /\ r1.new # {} => Len(g.kids) = Len(root.kids) + 1
  <2> DEFINE w == Update(rt, r1.node)
             h == RootInsert(w, r1.new)
  <2>1. /\ Sorted(rt, m1, m2, ls) /\ rt.kids # <<>>
        /\ Way(rt, m1, m2, ls, d) /\ Covers(ls, d[3], k)
    BY <1>0, <1>1, <1>2
  <2>2. /\ Changes(rt, m1, m2, ls, d, h, r1, r2, r3)
        /\ AllRows(Both(r3)) = Having(ToSet(Rows(d[3])), k, v)
        /\ Len(w.kids) = Len(rt.kids)
        /\ r1.new # {} => OneLonger(h.kids, rt.kids)
    BY <1>6, <2>1, InsertChanges
  <2> QED BY <1>0, <2>2 DEF OneLonger
<1> HIDE DEF r1, r2, r3, u, g
<1>8. /\ \A n \in Both(r1) \union Both(r2) : IsMid(n)
      /\ \A n \in Both(r3) : IsLeaf(n)
      /\ g \in Roots /\ g.kids # <<>> /\ Increasing(g.kids) /\ g.max = Last(g.kids).key
  BY <1>7 DEF Changes
<1>9. ASSUME NEW new1, NEW new2, NEW new3,
             Numbers(new1, Both(r1)), Numbers(new2, Both(r2)), Numbers(new3, Both(r3))
      PROVE  LET F3 == Moved(Linkeds(Both(r3)), new3)
                 F2 == MidsOf(Linkeds(Both(r2)), new2, new3)
                 F1 == MidsOf(Linkeds(Both(r1)), new1, new2)
             IN  /\ Sorted(Repointed(g, new1), Instead(mid1, d[1], F1),
                           Instead(mid2, d[2], F2), Instead(leaf, d[3], F3))
                 /\ AllRows(Instead(leaf, d[3], F3)) = HeldWithout(leaf, d[3], Both(r3))
  <2> DEFINE F3 == Moved(Linkeds(Both(r3)), new3)
             F2 == MidsOf(Linkeds(Both(r2)), new2, new3)
             F1 == MidsOf(Linkeds(Both(r1)), new1, new2)
  <2>1. /\ Sorted(rt, m1, m2, ls) /\ rt.kids # <<>>
        /\ Way(rt, m1, m2, ls, d) /\ Changes(rt, m1, m2, ls, d, g, r1, r2, r3)
    BY <1>0, <1>1, <1>2, <1>7
  <2>2. PICK h : h = g
    OBVIOUS
  <2>3. /\ Sorted(Repointed(h, new1), Instead(m1, d[1], F1),
                  Instead(m2, d[2], F2), Instead(ls, d[3], F3))
        /\ AllRows(Instead(ls, d[3], F3)) = HeldWithout(ls, d[3], Both(r3))
    BY <1>9, <2>1, <2>2, StepSorted
  <2> QED BY <1>0, <2>2, <2>3
<1>10. ASSUME r1.new # {} PROVE Len(u.kids) < P1
  <2>1. \E new1, new2, new3 :
          Numbers(new1, Both(r1)) /\ Numbers(new2, Both(r2)) /\ Numbers(new3, Both(r3))
    <3> DEFINE Zero(nodes) == [x \in {n.max : n \in nodes} |-> 0]
    <3>1. Numbers(Zero(Both(r1)), Both(r1)) /\ Numbers(Zero(Both(r2)), Both(r2)) /\ Numbers(Zero(Both(r3)), Both(r3))
      BY DEF Numbers
    <3> HIDE DEF Zero
    <3> QED BY <3>1
  <2>2. PICK new1, new2, new3 :
          Numbers(new1, Both(r1)) /\ Numbers(new2, Both(r2)) /\ Numbers(new3, Both(r3))
    BY <2>1
  <2> DEFINE after == Repointed(g, new1)
  <2>3. \E a, b, c : Sorted(after, a, b, c)
    BY <1>9, <2>2
  <2>4. Len(after.kids) = Len(g.kids)
    <3>1. \A x \in DOMAIN new1 : new1[x] \in Int
      BY <2>2 DEF Numbers
    <3> QED BY <1>8, <3>1, RootRepointed
  <2> HIDE DEF after
  <2>5. Len(after.kids) <= P1
    BY <2>3, RootHasRoom
  <2>6. Len(root.kids) \in Nat /\ P1 \in Nat
    BY MapBounds DEF Sorted, Roots
  <2>7. Len(g.kids) = Len(root.kids) + 1
    BY <1>7, <1>10
  <2> QED BY <1>7, <2>4, <2>5, <2>6, <2>7
<1>11. Finish(d, g, Linkeds(Both(r1)), Linkeds(Both(r2)), Linkeds(Both(r3)))
  BY <1>4, <1>10, WrittenIs
<1>12. PICK new1, new2, new3 :
           /\ Numbers(new1, Both(r1)) /\ Numbers(new2, Both(r2)) /\ Numbers(new3, Both(r3))
           /\ root' = Repointed(g, new1)
           /\ mid1' = Instead(mid1, d[1], MidsOf(Linkeds(Both(r1)), new1, new2))
           /\ mid2' = Instead(mid2, d[2], MidsOf(Linkeds(Both(r2)), new2, new3))
           /\ leaf' = Instead(leaf, d[3], Moved(Linkeds(Both(r3)), new3))
  BY <1>8, <1>11, FinishIs
<1>13. /\ Sorted(root', mid1', mid2', leaf')
       /\ AllRows(leaf') = HeldWithout(leaf, d[3], Both(r3))
  BY <1>9, <1>12
<1>14. AllRows(leaf') = Having(AllRows(leaf), k, v)
  <2>1. (\A n \in leaf : Keyed(n)) /\ Apart(leaf)
    BY SortedFacts
  <2>2. AllRows(leaf') = AllRows(leaf \ {d[3]}) \union Having(ToSet(Rows(d[3])), k, v)
    BY <1>7, <1>13 DEF HeldWithout
  <2> QED BY <1>2, <1>5, <2>1, <2>2, OnlyHere
<1> QED BY <1>3, <1>13, <1>14

(* Every search leaves the layers in order, with the pairs of before; it   *)
(* misses no node.                                                         *)
LEMMA SearchStep ==
  ASSUME Sorted(root, mid1, mid2, leaf), NEW k \in Keys, SearchMap(k)
  PROVE  /\ Sorted(root, mid1, mid2, leaf)'
         /\ AllRows(leaf') = AllRows(leaf)
         /\ lost' = FALSE
         /\ result' = {[key |-> k, val |-> Find(k)]}
<1>0. PICK rt, m1, m2, ls : rt = root /\ m1 = mid1 /\ m2 = mid2 /\ ls = leaf
  OBVIOUS
<1>1. k \in Int /\ root.kids # <<>>
  BY MapBounds DEF SearchMap
<1>2. PICK d : /\ Descents(k) = {d}
               /\ Way(root, mid1, mid2, leaf, d)
               /\ Covers(leaf, d[3], k)
  BY <1>1, DescentIs
<1>3. lost' = FALSE /\ result' = {[key |-> k, val |-> Find(k)]}
  BY <1>2 DEF SearchMap, Misses
<1>4. Finish(d, root, {d[1]}, {d[2]}, {d[3]})
  BY <1>2, <1>3 DEF SearchMap
<1>5. d[1] \in mid1 /\ d[2] \in mid2 /\ d[3] \in leaf
  BY <1>2 DEF Way
<1>6. /\ IsMid(d[1]) /\ d[1].old = d[1].max
      /\ IsMid(d[2]) /\ d[2].old = d[2].max
      /\ IsLeaf(d[3]) /\ d[3].old = d[3].max
  BY <1>5, SortedFacts
<1>7. Linked(d[1]) = d[1] /\ Linked(d[2]) = d[2] /\ Linked(d[3]) = d[3]
  <2>1. ASSUME NEW n \in Mids \union Leafs, n.old = n.max PROVE Linked(n) = n
    BY <2>1 DEF Linked, Mids, Leafs
  <2>2. d[1] \in Mids /\ d[2] \in Mids /\ d[3] \in Leafs
    BY <1>6 DEF IsMid, IsLeaf
  <2> QED BY <1>6, <2>1, <2>2
<1> DEFINE r1 == Same(d[1])
           r2 == Same(d[2])
           r3 == Same(d[3])
<1>8. Both(r1) = {d[1]} /\ Both(r2) = {d[2]} /\ Both(r3) = {d[3]}
  BY DEF Both, Same
<1>9. Linkeds(Both(r1)) = {d[1]} /\ Linkeds(Both(r2)) = {d[2]} /\ Linkeds(Both(r3)) = {d[3]}
  BY <1>7, <1>8 DEF Linkeds
<1>10. Changes(root, mid1, mid2, leaf, d, root, r1, r2, r3)
  BY <1>1, <1>2, SearchChanges
<1> HIDE DEF r1, r2, r3
<1>11. PICK new1, new2, new3 :
           /\ Numbers(new1, Both(r1)) /\ Numbers(new2, Both(r2)) /\ Numbers(new3, Both(r3))
           /\ root' = Repointed(root, new1)
           /\ mid1' = Instead(mid1, d[1], MidsOf(Linkeds(Both(r1)), new1, new2))
           /\ mid2' = Instead(mid2, d[2], MidsOf(Linkeds(Both(r2)), new2, new3))
           /\ leaf' = Instead(leaf, d[3], Moved(Linkeds(Both(r3)), new3))
  <2>1. (\A n \in Both(r1) \union Both(r2) : IsMid(n)) /\ \A n \in Both(r3) : IsLeaf(n)
    BY <1>6, <1>8
  <2>2. Finish(d, root, Linkeds(Both(r1)), Linkeds(Both(r2)), Linkeds(Both(r3)))
    BY <1>4, <1>9
  <2> QED BY <2>1, <2>2, FinishIs
<1>12. /\ Sorted(root', mid1', mid2', leaf')
       /\ AllRows(leaf') = HeldWithout(leaf, d[3], Both(r3))
  <2> DEFINE F3 == Moved(Linkeds(Both(r3)), new3)
             F2 == MidsOf(Linkeds(Both(r2)), new2, new3)
             F1 == MidsOf(Linkeds(Both(r1)), new1, new2)
  <2>1. /\ Sorted(rt, m1, m2, ls) /\ rt.kids # <<>>
        /\ Way(rt, m1, m2, ls, d) /\ Changes(rt, m1, m2, ls, d, rt, r1, r2, r3)
    BY <1>0, <1>1, <1>2, <1>10
  <2>2. /\ Sorted(Repointed(rt, new1), Instead(m1, d[1], F1),
                  Instead(m2, d[2], F2), Instead(ls, d[3], F3))
        /\ AllRows(Instead(ls, d[3], F3)) = HeldWithout(ls, d[3], Both(r3))
    BY <1>11, <2>1, StepSorted
  <2> QED BY <1>0, <1>11, <2>2
<1>13. HeldWithout(leaf, d[3], {d[3]}) = AllRows(leaf)
  BY <1>5 DEF AllRows, HeldWithout
<1> QED BY <1>3, <1>8, <1>12, <1>13

(* What is true between two operations: the layers are in order, no node   *)
(* was missed, and searches returned values of the map.                    *)
Results == [key : Keys, val : Values \union {-1}]
TreeInv ==
  /\ Sorted(root, mid1, mid2, leaf)
  /\ lost = FALSE
  /\ result \in SUBSET Results

(* The pairs of the leaves are keys with values of the map. *)
LEMMA HeldStored ==
  ASSUME Sorted(root, mid1, mid2, leaf)
  PROVE  AllRows(leaf) \in SUBSET PairsOfMap
<1>1. \A n \in leaf : IsLeaf(n) /\ ToSet(n.arr) \subseteq PairsOfMap
  BY DEF Sorted
<1>2. \A n \in leaf : Rows(n) = n.arr
  BY <1>1, LeafFacts
<1> QED BY <1>1, <1>2 DEF AllRows

(* An empty map satisfies the invariant. *)
LEMMA TreeInvInit == ASSUME Init PROVE TreeInv
<1>1. lost = FALSE /\ result = {}
  BY DEF Init
<1> QED BY <1>1, InitSorted DEF TreeInv

(* Every operation preserves it. *)
LEMMA TreeInvNext ==
  ASSUME OrderKept, TreeInv, [Next]_vars PROVE TreeInv'
<1>1. Sorted(root, mid1, mid2, leaf) /\ lost = FALSE /\ result \in SUBSET Results
  BY DEF TreeInv
<1>2. CASE UNCHANGED vars
  BY <1>1, <1>2 DEF vars, TreeInv, Sorted
<1>3. ASSUME NEW k \in Keys, NEW v \in Values, InsertFirst(k, v) PROVE TreeInv'
  <2>1. Sorted(root, mid1, mid2, leaf)' /\ UNCHANGED <<result, lost>>
    BY <1>1, <1>3, FirstStep
  <2> QED BY <1>1, <2>1 DEF TreeInv
<1>4. ASSUME NEW k \in Keys, NEW v \in Values, Allowed(k), InsertNext(k, v) PROVE TreeInv'
  <2>1. Sorted(root, mid1, mid2, leaf)' /\ lost' = FALSE /\ UNCHANGED result
    BY <1>1, <1>4, InsertStep
  <2> QED BY <1>1, <2>1 DEF TreeInv
<1>5. ASSUME NEW k \in Keys, SearchMap(k) PROVE TreeInv'
  <2>1. /\ Sorted(root, mid1, mid2, leaf)' /\ lost' = FALSE
        /\ result' = {[key |-> k, val |-> Find(k)]}
    BY <1>1, <1>5, SearchStep
  <2>2. Find(k) \in Values \union {-1}
    <3>1. k \in Int
      BY MapBounds
    <3> QED BY <1>1, <3>1, FindIs, HeldStored, ValueType
  <2> HIDE DEF Find
  <2>3. result' \in SUBSET Results
    BY <2>1, <2>2 DEF Results
  <2> QED BY <2>1, <2>3 DEF TreeInv
<1> QED BY <1>2, <1>3, <1>4, <1>5 DEF Next

(* The inductive invariant: in every state of the map its layers are in    *)
(* order, whatever the sizes of the nodes, the keys and the positions      *)
(* drawn.                                                                  *)
THEOREM TreeInvHolds == ASSUME OrderKept PROVE Spec => []TreeInv
BY TreeInvInit, TreeInvNext, PTL DEF Spec

(* The ids of the nodes are keys of the map. *)
LEMMA NodesNamed ==
  ASSUME TreeInv
  PROVE  /\ \A n \in leaf : IsNode(n)
         /\ \A n \in mid2 : IsNode(n)
         /\ \A n \in mid1 : IsNode(n)
<1>1. Sorted(root, mid1, mid2, leaf)
  BY DEF TreeInv
<1>2. /\ AllRows(mid1) = Names(mid2) /\ AllRows(mid2) = Names(leaf)
      /\ \A n \in leaf : IsLeaf(n) /\ ToSet(n.arr) \subseteq PairsOfMap
  BY <1>1 DEF Sorted
<1>3. /\ \A n \in mid1 : Keyed(n) /\ n.old = n.max /\ n.pos \in Int
      /\ \A n \in mid2 : Keyed(n) /\ n.old = n.max /\ n.pos \in Int
      /\ \A n \in leaf : Keyed(n) /\ n.old = n.max /\ n.pos \in Int
  BY <1>1, SortedFacts
<1>4. \A n \in leaf : n.max \in Keys
  <2> SUFFICES ASSUME NEW n \in leaf PROVE n.max \in Keys
    OBVIOUS
  <2>1. n.max \in KeysIn(n) /\ Rows(n) = n.arr
    BY <1>2, <1>3, LeafFacts DEF Keyed
  <2>2. PICK p \in ToSet(n.arr) : p.key = n.max
    BY <2>1 DEF KeysIn
  <2> QED BY <1>2, <2>2 DEF PairsOfMap
<1>5. \A n \in mid2 : n.max \in Keys
  <2> SUFFICES ASSUME NEW n \in mid2 PROVE n.max \in Keys
    OBVIOUS
  <2>1. \E m \in leaf : m.max = n.max
    BY <1>2, <1>3, KeyDown DEF Keyed
  <2> QED BY <1>4, <2>1
<1>6. \A n \in mid1 : n.max \in Keys
  <2> SUFFICES ASSUME NEW n \in mid1 PROVE n.max \in Keys
    OBVIOUS
  <2>1. \E m \in mid2 : m.max = n.max
    BY <1>2, <1>3, KeyDown DEF Keyed
  <2> QED BY <1>5, <2>1
<1> QED BY <1>3, <1>4, <1>5, <1>6 DEF IsNode

(* The invariant gives the type of the state, room in every node included. *)
LEMMA TreeInvTypeOK == ASSUME TreeInv PROVE TypeOK
<1>1. Sorted(root, mid1, mid2, leaf) /\ lost = FALSE /\ result \in SUBSET Results
  BY DEF TreeInv
<1>2. \A n \in mid1 \union mid2 \union leaf : IsNode(n)
  BY NodesNamed
<1>3. \A n \in mid1 \union mid2 : Len(n.kids) \in 1 .. P2
  <2> SUFFICES ASSUME NEW n \in mid1 \union mid2 PROVE Len(n.kids) \in 1 .. P2
    OBVIOUS
  <2>1. IsMid(n)
    BY <1>1, SortedFacts
  <2>2. n.kids \in Seq(Links) /\ n.kids # <<>> /\ Len(n.kids) <= P2
    BY <2>1, RowsOfMid DEF IsMid, Mids, Tidy
  <2> QED BY <2>2, NodeSizes
<1>4. \A n \in leaf : Len(n.arr) \in 1 .. C
  <2> SUFFICES ASSUME NEW n \in leaf PROVE Len(n.arr) \in 1 .. C
    OBVIOUS
  <2>1. IsLeaf(n)
    BY <1>1, SortedFacts
  <2>2. n.arr \in Seq(Pairs) /\ n.arr # <<>> /\ Len(n.arr) <= C
    BY <2>1, RowsOfLeaf DEF IsLeaf, Leafs, Tidy
  <2> QED BY <2>2, NodeSizes
<1>5. Len(root.kids) \in 0 .. P1
  <2>1. Len(root.kids) <= P1
    BY <1>1, RootHasRoom
  <2>2. Len(root.kids) \in Nat /\ P1 \in Nat
    BY <1>1, MapBounds DEF Sorted, Roots
  <2> QED BY <2>1, <2>2
<1> QED BY <1>1, <1>2, <1>3, <1>4, <1>5 DEF TypeOK, Results

(* A layer whose nodes are not all the same one has nodes half full. *)
LEMMA CrowdedHalf ==
  ASSUME NEW X, NEW cap, Crowded(X, cap), Cardinality(X) > 1
  PROVE  \A n \in X : 2 * Len(Rows(n)) >= cap
<1>1. CASE \A m, n \in X : m = n
  <2>1. X = {} \/ \E x : X = {x}
    BY <1>1
  <2>2. Cardinality(X) = 0 \/ Cardinality(X) = 1
    BY <2>1, FS_EmptySet, FS_Singleton
  <2> QED BY <2>2
<1> QED BY <1>1 DEF Crowded

(* The invariant gives NodesHalfFull. *)
LEMMA TreeInvHalfFull == ASSUME TreeInv PROVE NodesHalfFull
<1>1. Sorted(root, mid1, mid2, leaf)
  BY DEF TreeInv
<1>2. Crowded(mid1, P2) /\ Crowded(mid2, P2) /\ Crowded(leaf, C)
  BY <1>1 DEF Sorted, Layer
<1>3. /\ \A n \in mid1 \union mid2 : Rows(n) = n.kids
      /\ \A n \in leaf : Rows(n) = n.arr
  BY <1>1, SortedFacts, MidFacts, LeafFacts
<1> QED BY <1>2, <1>3, CrowdedHalf DEF NodesHalfFull

(* The entries of the nodes of a layer, and the nodes an entry leads to. *)
Slots(parents) == {e \in parents \X (1 .. P1 + P2) : e[2] \in DOMAIN e[1].kids}
Targets(nodes, e) == {n \in nodes : /\ n.max = e[1].kids[e[2]].key
                                    /\ n.old = e[1].kids[e[2]].key
                                    /\ n.pos = e[1].kids[e[2]].pos}

(* Two layers whose names agree are in one-to-one correspondence, entry by *)
(* entry.                                                                  *)
LEMMA LayerLeads ==
  ASSUME NEW P, \A n \in P : Keyed(n), Apart(P),
         \A n \in P : n.kids \in Seq(Links) /\ Rows(n) = n.kids /\ Increasing(n.kids)
                      /\ Len(n.kids) <= P1 + P2,
         NEW X, \A n \in X : Keyed(n), Apart(X), \A n \in X : n.old = n.max,
         AllRows(P) = Names(X)
  PROVE  Leads(P, X)
<1> DEFINE E == Slots(P)
<1>1. ASSUME NEW e \in E
      PROVE  /\ e[1] \in P /\ e[2] \in DOMAIN e[1].kids
             /\ e[1].kids[e[2]] \in ToSet(Rows(e[1]))
             /\ e[1].kids[e[2]].key \in KeysIn(e[1])
  <2>1. e[1] \in P /\ e[2] \in DOMAIN e[1].kids
    BY DEF Slots
  <2>2. Rows(e[1]) = e[1].kids
    BY <2>1
  <2> QED BY <2>1, <2>2 DEF ToSet, KeysIn
<1>2. ASSUME NEW m \in X, NEW n \in X, m.max = n.max PROVE m = n
  <2>1. m.max \in Int
    BY <1>2 DEF Keyed
  <2> QED BY <1>2, <2>1, ApartMaxes
<1>3. ASSUME NEW e \in E PROVE Cardinality(Targets(X, e)) = 1
  <2> DEFINE x == e[1].kids[e[2]]
  <2>1. PICK m \in X : Name(m) = x
    BY <1>1, <1>3, LinkDown
  <2>2. m.max = x.key /\ m.pos = x.pos /\ m.old = x.key
    BY <2>1, NameOf
  <2>3. Targets(X, e) = {m}
    BY <1>2, <2>2 DEF Targets
  <2> QED BY <2>3, FS_Singleton
<1>4. ASSUME NEW e \in E, NEW f \in E, e # f
      PROVE  Targets(X, e) \intersect Targets(X, f) = {}
  <2>1. e[1].kids[e[2]].key # f[1].kids[f[2]].key
    <3>1. CASE e[1] = f[1]
      <4>1. e = <<e[1], e[2]>> /\ f = <<f[1], f[2]>>
        BY DEF Slots
      <4>2. e[2] # f[2]
        BY <1>4, <3>1, <4>1
      <4>3. PICK q \in P : q = e[1] /\ q.kids \in Seq(Links) /\ Increasing(q.kids)
        BY <1>1, <1>4
      <4>4. e[2] \in DOMAIN q.kids /\ f[2] \in DOMAIN q.kids
        BY <1>1, <1>4, <3>1, <4>3
      <4> QED BY <3>1, <4>2, <4>3, <4>4, EntriesHaveKeys, KeysAreDistinct
    <3>2. CASE e[1] # f[1]
      <4>1. /\ e[1] \in P /\ f[1] \in P
            /\ e[1].kids[e[2]].key \in KeysIn(e[1]) /\ f[1].kids[f[2]].key \in KeysIn(f[1])
        BY <1>1, <1>4
      <4>2. Before(e[1], f[1]) \/ Before(f[1], e[1])
        BY <3>2, <4>1 DEF Apart
      <4>3. \A p, q \in P : Before(p, q) => \A x \in KeysIn(p), y \in KeysIn(q) : x # y
        BY DEF Before, Keyed
      <4> QED BY <4>1, <4>2, <4>3
    <3> QED BY <3>1, <3>2
  <2> QED BY <2>1 DEF Targets
<1>5. X = UNION {Targets(X, e) : e \in E}
  <2>1. ASSUME NEW n \in X PROVE \E e \in E : n \in Targets(X, e)
    <3>1. PICK q \in P : Name(n) \in ToSet(Rows(q))
      BY LinkUp
    <3>2. /\ Rows(q) = q.kids /\ q.kids \in Seq(Links) /\ Len(q.kids) <= P1 + P2
          /\ DOMAIN q.kids = 1 .. Len(q.kids)
      BY <3>1
    <3>3. PICK i \in DOMAIN q.kids : q.kids[i] = Name(n)
      BY <3>1, <3>2 DEF ToSet
    <3>4. i \in 1 .. P1 + P2
      BY <3>2, MapBounds, NodeSizes
    <3>5. <<q, i>> \in E
      BY <3>4 DEF Slots
    <3>6. n \in Targets(X, <<q, i>>)
      BY <3>3 DEF Targets, Name, Entry
    <3> QED BY <3>5, <3>6
  <2>2. \A e \in E : Targets(X, e) \subseteq X
    BY DEF Targets
  <2> QED BY <2>1, <2>2
<1> QED BY <1>3, <1>4, <1>5 DEF Leads, Slots, Targets

(* The invariant gives EntriesLeadToNodes. *)
LEMMA TreeInvLeads == ASSUME TreeInv PROVE EntriesLeadToNodes
<1>1. Sorted(root, mid1, mid2, leaf)
  BY DEF TreeInv
<1>2. /\ root \in Roots /\ Increasing(root.kids) /\ (root.kids # <<>> => root.max = Last(root.kids).key)
      /\ AllRows({root}) = Names(mid1) /\ AllRows(mid1) = Names(mid2) /\ AllRows(mid2) = Names(leaf)
  BY <1>1 DEF Sorted
<1>3. /\ \A n \in mid1 : Keyed(n)
      /\ \A n \in mid2 : Keyed(n)
      /\ \A n \in leaf : Keyed(n)
      /\ \A n \in mid1 : n.old = n.max
      /\ \A n \in mid2 : n.old = n.max
      /\ \A n \in leaf : n.old = n.max
      /\ Apart(mid1) /\ Apart(mid2) /\ Apart(leaf)
  BY <1>1, SortedFacts
<1>4. P1 \in Nat /\ P2 \in Nat
  BY MapBounds, NodeSizes
<1>5. \A n \in mid1 \union mid2 :
        n.kids \in Seq(Links) /\ Rows(n) = n.kids /\ Increasing(n.kids) /\ Len(n.kids) <= P1 + P2
  <2> SUFFICES ASSUME NEW n \in mid1 \union mid2
               PROVE  n.kids \in Seq(Links) /\ Rows(n) = n.kids /\ Increasing(n.kids) /\ Len(n.kids) <= P1 + P2
    OBVIOUS
  <2>1. IsMid(n)
    BY <1>1, SortedFacts
  <2>2. n.kids \in Seq(Links) /\ Rows(n) = n.kids /\ Increasing(n.kids) /\ Len(n.kids) <= P2
    BY <2>1, RowsOfMid DEF IsMid, Mids, Tidy
  <2>3. Len(n.kids) <= P1 + P2
    BY <1>4, <2>2
  <2> QED BY <2>2, <2>3
<1>6. Leads(mid1, mid2)
  BY <1>2, <1>3, <1>5, LayerLeads
<1>7. Leads(mid2, leaf)
  BY <1>2, <1>3, <1>5, LayerLeads
<1>8. Leads({root}, mid1)
  <2>1. CASE root.kids = <<>>
    <3>1. mid1 = {}
      BY <1>1, <2>1, NothingInEmpty
    <3>2. \A e \in {root} \X (1 .. P1 + P2) : e[2] \notin DOMAIN e[1].kids
      BY <2>1
    <3> QED BY <3>1, <3>2 DEF Leads
  <2>2. CASE root.kids # <<>>
    <3>1. Keyed(root) /\ Rows(root) = root.kids /\ Apart({root})
      BY <1>2, <2>2, RootFacts
    <3>2. root.kids \in Seq(Links) /\ Len(root.kids) <= P1 + P2
      <4>1. Len(root.kids) <= P1 /\ Len(root.kids) \in Nat
        BY <1>1, <1>2, RootHasRoom DEF Roots
      <4> QED BY <1>2, <1>4, <4>1 DEF Roots
    <3>3. /\ \A n \in {root} : Keyed(n)
          /\ \A n \in {root} : n.kids \in Seq(Links) /\ Rows(n) = n.kids /\ Increasing(n.kids)
                               /\ Len(n.kids) <= P1 + P2
      BY <1>2, <3>1, <3>2
    <3> QED BY <1>2, <1>3, <3>1, <3>3, LayerLeads
  <2> QED BY <2>1, <2>2
<1> QED BY <1>6, <1>7, <1>8 DEF EntriesLeadToNodes

(* The invariant gives PresentKeysAreFound. *)
LEMMA TreeInvFinds == ASSUME TreeInv PROVE PresentKeysAreFound
<1>1. Sorted(root, mid1, mid2, leaf)
  BY DEF TreeInv
<1>2. \A n \in leaf : Rows(n) = n.arr
  BY <1>1, SortedFacts, LeafFacts
<1>3. ASSUME NEW k \in Present PROVE Find(k) # -1
  <2>1. PICK l \in leaf : \E p \in ToSet(l.arr) : p.key = k
    BY DEF Present
  <2>2. PICK p \in ToSet(l.arr) : p.key = k
    BY <2>1
  <2>3. p \in AllRows(leaf)
    BY <1>2, <2>2 DEF AllRows
  <2>4. AllRows(leaf) \in SUBSET PairsOfMap
    BY <1>1, HeldStored
  <2>5. k \in Int
    <3>1. p \in PairsOfMap
      BY <2>3, <2>4
    <3>2. k \in Keys
      BY <2>2, <3>1 DEF PairsOfMap
    <3> QED BY <3>2, MapBounds
  <2> QED BY <1>1, <2>2, <2>3, <2>4, <2>5, FindIs, ValueType
<1> QED BY <1>3 DEF PresentKeysAreFound

(* What map' is after a step that leaves these pairs in the leaves. *)
Found == [k \in Keys |-> Find(k)]

(* The map a user sees is the one the leaves hold. *)
LEMMA FoundIs ==
  Sorted(root, mid1, mid2, leaf) => Found = [k \in Keys |-> Value(AllRows(leaf), k)]
<1> SUFFICES ASSUME Sorted(root, mid1, mid2, leaf)
             PROVE  Found = [k \in Keys |-> Value(AllRows(leaf), k)]
  OBVIOUS
<1>1. \A k \in Keys : Find(k) = Value(AllRows(leaf), k)
  BY MapBounds, FindIs
<1> QED BY <1>1 DEF Found

(* The same after a step. *)
LEMMA FoundNext ==
  (Sorted(root, mid1, mid2, leaf))' => (Found = [k \in Keys |-> Value(AllRows(leaf), k)])'
BY FoundIs, PTL

(* An empty tree is an empty map. *)
LEMMA MapInit == ASSUME Init PROVE Map!Init
<1>1. root.kids = <<>> /\ result = {}
  BY DEF Init
<1>2. \A k \in Keys : Find(k) = -1
  BY <1>1 DEF Find
<1> QED BY <1>1, <1>2 DEF Map!Init, Map!NoValue

(* Every operation on the tree is that of a map. *)
LEMMA MapNext ==
  ASSUME OrderKept, TreeInv, [Next]_vars PROVE [Map!Next]_(Map!vars)
<1>1. Sorted(root, mid1, mid2, leaf)
  BY DEF TreeInv
<1>2. Found = [k \in Keys |-> Value(AllRows(leaf), k)]
  BY <1>1, FoundIs
<1>3. Sorted(root, mid1, mid2, leaf)'
  BY TreeInvNext DEF TreeInv
<1>4. Found' = [k \in Keys |-> Value(AllRows(leaf'), k)]
  BY <1>3, FoundNext
<1>5. CASE UNCHANGED vars
  <2>1. Found' = Found /\ result' = result
    BY <1>2, <1>4, <1>5 DEF vars
  <2> QED BY <2>1 DEF Found, Map!vars
<1>6. ASSUME NEW k \in Keys, NEW v \in Values,
             AllRows(leaf') = Having(AllRows(leaf), k, v), UNCHANGED result
      PROVE  Map!Next
  <2>1. \A p, q \in AllRows(leaf) : p.key = q.key => p = q
    <3>1. (\A n \in leaf : IsLeaf(n) /\ Keyed(n)) /\ Apart(leaf)
      BY <1>1, SortedFacts
    <3> QED BY <3>1, PairsDiffer
  <2>2. /\ Value(AllRows(leaf'), k) = v
        /\ \A j : j # k => Value(AllRows(leaf'), j) = Value(AllRows(leaf), j)
    BY <1>6, <2>1, ValueAfter
  <2>3. Found' = [Found EXCEPT ![k] = v]
    BY <1>2, <1>4, <2>2
  <2>4. Map!InsertMap(k, v)
    BY <1>6, <2>3 DEF Map!InsertMap, Found
  <2> QED BY <2>4 DEF Map!Next
<1>7. ASSUME NEW k \in Keys, NEW v \in Values, InsertFirst(k, v) PROVE Map!Next
  <2>1. AllRows(leaf') = Having(AllRows(leaf), k, v) /\ UNCHANGED <<result, lost>>
    BY <1>1, <1>7, FirstStep
  <2> QED BY <1>6, <2>1
<1>8. ASSUME NEW k \in Keys, NEW v \in Values, Allowed(k), InsertNext(k, v) PROVE Map!Next
  <2>1. AllRows(leaf') = Having(AllRows(leaf), k, v) /\ UNCHANGED result
    BY <1>1, <1>8, InsertStep
  <2> QED BY <1>6, <2>1
<1>9. ASSUME NEW k \in Keys, SearchMap(k) PROVE Map!Next
  <2>1. AllRows(leaf') = AllRows(leaf) /\ result' = {[key |-> k, val |-> Find(k)]}
    BY <1>1, <1>9, SearchStep
  <2>2. Found' = Found
    BY <1>2, <1>4, <2>1
  <2>3. Found[k] = Find(k)
    BY DEF Found
  <2>4. Map!SearchMap(k)
    BY <2>1, <2>2, <2>3 DEF Map!SearchMap, Found
  <2> QED BY <2>4 DEF Map!Next
<1> QED BY <1>5, <1>7, <1>8, <1>9 DEF Next

(* Every node has a key of the map for an id and between one row and as    *)
(* many as it has room for; the root, whose Insert is not asked whether it *)
(* found room, never has more than P1 children (rootNode::Insert,          *)
(* client::insert).                                                        *)
THEOREM MapTypeOK == ASSUME OrderKept PROVE Spec => []TypeOK
BY TreeInvHolds, TreeInvTypeOK, PTL

(* Every entry leads to one node, every node has one entry: Insert, Update *)
(* and finish keep the names and positions in the layers above and below   *)
(* the same (client::insert, finish).                                      *)
THEOREM MapLeads == ASSUME OrderKept PROVE Spec => []EntriesLeadToNodes
BY TreeInvHolds, TreeInvLeads, PTL

(* A node that is not alone in its layer is at least half full             *)
(* (leafNode::Insert, midNode2::Insert, midNode1::Insert).                 *)
THEOREM MapHalfFull == ASSUME OrderKept PROVE Spec => []NodesHalfFull
BY TreeInvHolds, TreeInvHalfFull, PTL

(* No Read...Node returns NULL to a caller that would use it               *)
(* (client::insert, client::search).                                       *)
THEOREM MapLosesNothing == ASSUME OrderKept PROVE Spec => []NothingLost
<1>1. TreeInv => NothingLost
  BY DEF TreeInv, NothingLost
<1> QED BY <1>1, TreeInvHolds, PTL

(* A search finds every key that a leaf holds (client::search). *)
THEOREM MapFinds == ASSUME OrderKept PROVE Spec => []PresentKeysAreFound
BY TreeInvHolds, TreeInvFinds, PTL

(* insert_map and search_map are those of a map, for every size of node,   *)
(* every set of keys and values and every position drawn, as long as       *)
(* leafNode::Insert keeps its leaves in order.                             *)
THEOREM MapRefines == ASSUME OrderKept PROVE Spec => ImplementsOMap
<1>1. Init => Map!Init
  BY MapInit
<1>2. TreeInv /\ [Next]_vars => [Map!Next]_(Map!vars)
  BY MapNext
<1> QED BY <1>1, <1>2, TreeInvHolds, PTL DEF Spec, ImplementsOMap, Map!Spec
=============================================================================
