------------------------------- MODULE Nodes -------------------------------
(***************************************************************************)
(* The nodes of the map's tree and their operations, node.cpp.  A leafNode *)
(* is [arr, max, old, pos], arr a sequence of pairs of a key and its value *)
(* (c is its length); a midNode2 or midNode1 is [kids, max, old, pos], kids*)
(* a sequence of pairs of a key and a position (childMap up to p2); max is *)
(* max_value, old is old_max.  An operation that may split a node returns  *)
(* [node, new], new the set of the new node, empty when it returns NULL.   *)
(*                                                                         *)
(* An operator named X_Something, before the operator X, is a wrong X: a    *)
(* bug the properties are shown to tell from the code.                      *)
(***************************************************************************)
EXTENDS Integers, SequencesExt

CONSTANTS
  C,      \* pairs in a leafNode
  P2,     \* children of a midNode2 or midNode1
  P1,     \* children of the root
  Keys,   \* keys of the map, numbers above NoKey
  Values  \* values of the map; -1 is not one (a search that finds nothing)

ASSUME NodeSizes == C \in Nat \ {0} /\ P2 \in Nat \ {0}

(* Keys is no larger than what Params!RootTakesAll says the root has room  *)
(* for: the map holds no more keys than the N its client was built for.    *)
HalfOf(n) == (n + 1) \div 2

ASSUME MapBounds ==
  /\ Keys \subseteq Nat \ {0} /\ IsFiniteSet(Keys)
  /\ -1 \notin Values
  /\ P1 \in Nat \ {0}
  /\ (Cardinality(Keys) \div HalfOf(C)) \div (HalfOf(P2) * HalfOf(P2)) <= P1

Unplaced == -1   \* a position that is still to be drawn
NoKey == 0       \* the empty string, below every key

Pair(k, v) == [key |-> k, val |-> v]
Entry(k, p) == [key |-> k, pos |-> p]

(* std::sort by kppair_sort_rule: each entry goes to the place that is the   *)
(* number of entries up to it.                                             *)
SortByKey(s) ==
  LET UpTo(i, j) == s[i].key < s[j].key \/ (s[i].key = s[j].key /\ i <= j)
      Place(j)   == Cardinality({i \in DOMAIN s : UpTo(i, j)})
  IN  [p \in DOMAIN s |-> s[CHOOSE j \in DOMAIN s : Place(j) = p]]

(* index of the first pair or entry whose key is not below k, 0 if none *)
FirstFrom_Strict(s, k) == SelectInSeq(s, LAMBDA e : e.key > k)
FirstFrom(s, k) == SelectInSeq(s, LAMBDA e : e.key >= k)

-----------------------------------------------------------------------------
(* leafNode(k, v) *)
NewLeaf(k, v) ==
  [arr |-> <<Pair(k, v)>>, max |-> k, old |-> NoKey, pos |-> Unplaced]

WithArr(leaf, arr) == [leaf EXCEPT !.arr = arr, !.max = Last(arr).key]

(* the pair of a key that is there gets the new value *)
Overwritten(leaf, i, v) == [leaf EXCEPT !.arr[i].val = v]

(* The leaf has room.  The index i is declared inside the loop and is 0 in *)
(* every iteration: all of them look at arr[0], so a pair goes first, last *)
(* or over the first one.                                                  *)
InsertWithRoom(leaf, k, v) ==
  LET arr == leaf.arr IN
  CASE arr[1].key = k -> Overwritten(leaf, 1, v)
    [] arr[1].key > k -> WithArr(leaf, <<Pair(k, v)>> \o arr)
    [] OTHER          -> WithArr(leaf, Append(arr, Pair(k, v)))

(* leafNode::Insert *)
LeafInsert(leaf, k, v) ==
  LET arr  == leaf.arr
      i    == FirstFrom(arr, k)
      all  == InsertAt(arr, IF i = 0 THEN Len(arr) + 1 ELSE i, Pair(k, v))
      half == (C + 1) \div 2
  IN  IF Len(arr) < C
        THEN [node |-> InsertWithRoom(leaf, k, v), new |-> {}]
      ELSE IF i # 0 /\ arr[i].key = k
        THEN [node |-> Overwritten(leaf, i, v), new |-> {}]
      ELSE [node |-> WithArr(leaf, SubSeq(all, 1, half)),
            new  |-> {WithArr(NewLeaf(k, v), SubSeq(all, half + 1, C + 1))}]

(* leafNode::Search: the values of the pairs of that key, the first counts *)
LeafSearch(leaf, k) ==
  LET i == SelectInSeq(leaf.arr, LAMBDA p : p.key = k)
  IN  IF i = 0 THEN {} ELSE {leaf.arr[i].val}

-----------------------------------------------------------------------------
WithKids_StaleMax(node, kids) == [node EXCEPT !.kids = kids]
WithKids(node, kids) == [node EXCEPT !.kids = kids, !.max = Last(kids).key]

(* midNode2(), midNode1(mid1L) *)
NewMid == [kids |-> <<>>, max |-> NoKey, old |-> NoKey, pos |-> Unplaced]

(* what of P2 + 1 children the node that splits off takes *)
Half_First == 1
Half == (P2 + 1) \div 2
UpperHalf(kids) == SubSeq(kids, Half + 1, P2 + 1)

(* midNode2::Insert, midNode1::Insert *)
MidInsert(node, child) ==
  LET kids == SortByKey(Append(node.kids, Entry(child.max, child.pos)))
  IN  IF Len(node.kids) < P2
        THEN [node |-> WithKids(node, kids), new |-> {}]
        ELSE [node |-> WithKids(node, SubSeq(kids, 1, Half)),
              new  |-> {WithKids(NewMid, UpperHalf(kids))}]

(* midNode2::Update, midNode1::Update, rootNode::Update: the entry of the  *)
(* child, found under its old_max, takes its max_value.                    *)
Update_KeepsMax(node, child) ==
  LET i == SelectInSeq(node.kids, LAMBDA e : e.key = child.old)
  IN  IF i = 0 THEN node ELSE [node EXCEPT !.kids[i].key = child.max]
Update_LastOnly(node, child) ==
  IF Last(node.kids).key # child.old THEN node
  ELSE WithKids(node, [node.kids EXCEPT ![Len(node.kids)].key = child.max])
Update(node, child) ==
  LET i == SelectInSeq(node.kids, LAMBDA e : e.key = child.old)
      kids == IF i = 0 THEN node.kids
              ELSE [node.kids EXCEPT ![i].key = child.max]
  IN  WithKids(node, IF child.max = child.old THEN kids
                     ELSE SortByKey(kids))

(* rootNode::Search, midNode1::Search, midNode2::Search: the entry to go   *)
(* down to; past the last key, the last child under the name of max_value. *)
Search_FirstChild(node, k) ==
  LET i == FirstFrom(node.kids, k)
  IN  IF i # 0 THEN node.kids[i] ELSE node.kids[1]
Search(node, k) ==
  LET i == FirstFrom(node.kids, k)
  IN  IF i # 0 THEN node.kids[i]
      ELSE Entry(node.max, Last(node.kids).pos)

(* What Insert and Update of a parent leave in the child: the key under    *)
(* which the parent knows it.                                              *)
Linked_Never(child) == child
Linked(child) == [child EXCEPT !.old = child.max]

(* a node and what may have split off it, after those of the layer below *)
Grow_WithoutUpdate(parent, below) ==
  IF below.new = {} THEN [node |-> Update(parent, below.node), new |-> {}]
  ELSE MidInsert(parent, CHOOSE n \in below.new : TRUE)
Grow(parent, below) ==
  LET updated == Update(parent, below.node)
  IN  IF below.new = {} THEN [node |-> updated, new |-> {}]
      ELSE MidInsert(updated, CHOOSE n \in below.new : TRUE)

(* rootNode::Insert *)
RootInsert(rt, new) ==
  IF new = {} THEN rt
  ELSE LET n == CHOOSE n \in new : TRUE
       IN  WithKids(rt, SortByKey(Append(rt.kids, Entry(n.max, n.pos))))

-----------------------------------------------------------------------------
(* finish: nodes at the positions it drew for their names, and a node with *)
(* those of its children in its entries                                    *)
Moved(nodes, new) == {[n EXCEPT !.pos = new[n.max]] : n \in nodes}
Repointed_Never(node, new) == node
Repointed(node, new) ==
  [node EXCEPT !.kids =
     [i \in DOMAIN @ |-> IF @[i].key \in DOMAIN new
                           THEN Entry(@[i].key, new[@[i].key]) ELSE @[i]]]
=============================================================================
