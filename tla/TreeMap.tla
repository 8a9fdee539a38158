------------------------------ MODULE TreeMap ------------------------------
(***************************************************************************)
(* The map of bODS as a tree of four layers (client::insert and            *)
(* client::search for L = 4): the root, which the client keeps, and the    *)
(* midNode1, midNode2 and leafNode layers, which it keeps in a store that  *)
(* gives a node back for its id (max_value) and position.  PathORAM models *)
(* that store; here an operation is one step, from part_init to the end of *)
(* finish.                                                                 *)
(*                                                                         *)
(* An operator named X_Something, before the operator X, is a wrong X: a    *)
(* bug the properties are shown to tell from the code.                      *)
(***************************************************************************)
EXTENDS Nodes

CONSTANTS
  Positions1, Positions2, Positions3,   \* positions in the trees of buckets
  AtEnds      \* a leaf with room gets no pair between two others

ASSUME PositionsAssumption ==
  Positions1 \union Positions2 \union Positions3 \subseteq Int
ASSUME AtEndsAssumption == AtEnds \in BOOLEAN

VARIABLES
  root,     \* rootNode: kids (childMap up to p1) and max
  mid1,     \* nodes of the midNode1 layer
  mid2,     \* nodes of the midNode2 layer
  leaf,     \* nodes of the leafNode layer
  result,   \* the key of the last search_map and what it returned
  lost      \* a Read...Node returned NULL, and its caller used it

vars == <<root, mid1, mid2, leaf, result, lost>>

Init ==
  /\ root = [kids |-> <<>>, max |-> NoKey]
  /\ mid1 = {}
  /\ mid2 = {}
  /\ leaf = {}
  /\ result = {}
  /\ lost = FALSE

(* Read...Node(entry.key, entry.pos) *)
At(nodes, entry) == {n \in nodes : n.max = entry.key /\ n.pos = entry.pos}

(* The nodes the descent of search and insert towards key k reads: one of  *)
(* each layer, or none when a Read...Node on the way returns NULL.         *)
Descents(k) ==
  UNION {UNION {{<<m1, m2, l>> : l \in At(leaf, Search(m2, k))} :
                m2 \in At(mid2, Search(m1, k))} :
         m1 \in At(mid1, Search(root, k))}

(* What a search for k returns. *)
Find(k) ==
  LET found == IF root.kids = <<>> THEN {}
               ELSE UNION {LeafSearch(d[3], k) : d \in Descents(k)}
  IN  IF found = {} THEN -1 ELSE CHOOSE v \in found : TRUE

(***************************************************************************)
(* finish draws a new position for every node the operation touched, and   *)
(* the entries of their parents, which it touched too, follow.             *)
(***************************************************************************)
Draws(nodes, positions) == [{n.max : n \in nodes} -> positions]

(* nodes d were read, rt, m1s, m2s and ls are written *)
Finish(d, rt, m1s, m2s, ls) ==
  \E new1 \in Draws(m1s, Positions1), new2 \in Draws(m2s, Positions2),
     new3 \in Draws(ls, Positions3) :
    /\ root' = Repointed(rt, new1)
    /\ mid1' = (mid1 \ {d[1]}) \union {Repointed(n, new2) : n \in Moved(m1s, new1)}
    /\ mid2' = (mid2 \ {d[2]}) \union {Repointed(n, new3) : n \in Moved(m2s, new2)}
    /\ leaf' = (leaf \ {d[3]}) \union Moved(ls, new3)

(* client::insert into an empty map *)
InsertFirst(k, v) ==
  /\ root.kids = <<>>
  /\ LET l  == NewLeaf(k, v)
         m2 == MidInsert(NewMid, l).node
         m1 == MidInsert(NewMid, m2).node
         rt == WithKids(root, <<Entry(m1.max, m1.pos)>>)
     IN  Finish(<<m1, m2, l>>, rt, {Linked(m1)}, {Linked(m2)}, {Linked(l)})
  /\ UNCHANGED <<result, lost>>

Written(r) == {Linked(n) : n \in {r.node} \union r.new}

(* A node on the way is not where the entry of its parent says: the caller *)
(* of Read...Node dereferences NULL.                                       *)
Misses(k) ==
  /\ lost' = (Descents(k) = {})
  /\ lost' => UNCHANGED <<root, mid1, mid2, leaf>>

(* client::insert; the result of root->Insert is not looked at *)
InsertNext(k, v) ==
  /\ root.kids # <<>>
  /\ Misses(k)
  /\ ~lost' => \E d \in Descents(k) :
       LET r3 == LeafInsert(d[3], k, v)
           r2 == Grow(d[2], r3)
           r1 == Grow(d[1], r2)
           rt == Update(root, r1.node)
       IN  IF r1.new = {} \/ Len(rt.kids) < P1
             THEN Finish(d, RootInsert(rt, r1.new),
                         Written(r1), Written(r2), Written(r3))
             ELSE Finish(d, rt, {Linked(r1.node)} \union r1.new,
                         Written(r2), Written(r3))
  /\ UNCHANGED result

(* client::search, without which the key read would be childMap[-1] *)
SearchMap(k) ==
  /\ root.kids # <<>>
  /\ Misses(k)
  /\ ~lost' => \E d \in Descents(k) : Finish(d, root, {d[1]}, {d[2]}, {d[3]})
  /\ result' = {[key |-> k, val |-> Find(k)]}

Present == {p.key : p \in UNION {ToSet(l.arr) : l \in leaf}}

(* With AtEnds, the inserts leafNode::Insert gets right in leaves of three *)
(* and more: into a full leaf, at its first pair or past its last.         *)
Allowed(k) ==
  AtEnds /\ root.kids # <<>> =>
    \A d \in Descents(k) :
      LET arr == d[3].arr IN
      Len(arr) = C \/ k <= Head(arr).key \/ k > Last(arr).key

Next ==
  \/ \E k \in Keys, v \in Values :
       ~lost /\ Allowed(k) /\ (InsertFirst(k, v) \/ InsertNext(k, v))
  \/ \E k \in Keys : ~lost /\ SearchMap(k)

Spec == Init /\ [][Next]_vars

(***************************************************************************)
(* Correctness                                                             *)
(***************************************************************************)
IsNode(n) == n.max \in Keys /\ n.old \in Keys /\ n.pos \in Int

TypeOK ==
  /\ \A n \in mid1 \union mid2 \union leaf : IsNode(n)
  /\ \A n \in mid1 \union mid2 : Len(n.kids) \in 1 .. P2
  /\ \A n \in leaf : Len(n.arr) \in 1 .. C
  /\ Len(root.kids) \in 0 .. P1
  /\ result \in SUBSET [key : Keys, val : Values \union {-1}]
  /\ lost \in BOOLEAN

(* The entries of a layer's nodes and the nodes of the next layer are in    *)
(* one-to-one correspondence: every entry leads to a node of that id at     *)
(* that position, whose old_max is the key of the entry, no two entries to  *)
(* the same node, and no node is left without an entry (Insert, Update and  *)
(* finish keep three copies of a node's name and two of its position).      *)
Leads(parents, nodes) ==
  LET entries == {e \in parents \X (1 .. P1 + P2) : e[2] \in DOMAIN e[1].kids}
      Target(e) == {n \in nodes : /\ n.max = e[1].kids[e[2]].key
                                  /\ n.old = e[1].kids[e[2]].key
                                  /\ n.pos = e[1].kids[e[2]].pos}
  IN  /\ \A e \in entries : Cardinality(Target(e)) = 1
      /\ \A e, f \in entries : e # f => Target(e) \intersect Target(f) = {}
      /\ nodes = UNION {Target(e) : e \in entries}

EntriesLeadToNodes ==
  /\ Leads({root}, mid1)
  /\ Leads(mid1, mid2)
  /\ Leads(mid2, leaf)

(* A node that is not alone in its layer is at least half full, however    *)
(* the nodes split on the way: so n keys need at most 8n / (P2 * P2 * C)   *)
(* children of the root, the P1 param_bODS gives it, and root->Insert,     *)
(* whose result the caller does not look at, never meets a full root.      *)
NodesHalfFull ==
  /\ Cardinality(leaf) > 1 => \A n \in leaf : 2 * Len(n.arr) >= C
  /\ Cardinality(mid2) > 1 => \A n \in mid2 : 2 * Len(n.kids) >= P2
  /\ Cardinality(mid1) > 1 => \A n \in mid1 : 2 * Len(n.kids) >= P2

(* The code follows no stale entry: no Read...Node ever returns NULL. *)
NothingLost == ~lost

(* "find Manson-1 and the value is" (test_omap.cpp:96): a search for a key *)
(* that was inserted finds it.                                             *)
PresentKeysAreFound == \A k \in Present : Find(k) # -1

(* insert_map and search_map are those of a map: an insert changes what    *)
(* search_map returns for its key and for no other key, whatever splits.   *)
Map == INSTANCE OMap WITH map <- [k \in Keys |-> Find(k)]
ImplementsOMap == Map!Spec
=============================================================================
