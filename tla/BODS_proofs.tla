----------------------------- MODULE BODS_proofs -----------------------------
(***************************************************************************)
(* The whole program takes only steps of PathORAM, so that what is proved  *)
(* of PathORAM holds of it; it keeps the rules PathORAM has for callers;   *)
(* and it implements a map.                                                *)
(*                                                                         *)
(* MapInv is the invariant.  Its nodes are those of the store PathORAM     *)
(* implements, wherever they are: the steps of finish, and those of the    *)
(* server, move them only.  Before and after an insert the layers are in   *)
(* order (Resting).  In between there is an order in which the nodes stood *)
(* when insert had read its way down, and each layer is, or is not yet,    *)
(* what Insert and Update make of that (Rewriting).  The caches and hands  *)
(* that the code looks into are where these nodes are.                     *)
(***************************************************************************)
EXTENDS BODS, PathORAM_proofs, Nodes_proofs

(* A step of insert, search or finish is a step of the protocol: one lemma *)
(* for the steps of the client, of which those that only forward one are   *)
(* shown at once.                                                          *)
LEMMA ReadIsStep ==
  ASSUME NEW l \in Layers, Read(l) PROVE Client
BY DEF Read, Client

(* Insert and Update of a node in hand are one of its steps. *)
LEMMA ChangeIsStep ==
  ASSUME NEW l \in Layers, ChangeNode(l) PROVE Client
<1>1. PICK r : Storable(r.node) /\ Modify(l, Stored(r.node).id, Stored(r.node).data)
  BY DEF ChangeNode
<1>2. \E i \in Ids, x \in Data : Modify(l, i, x)
  BY <1>1 DEF Storable
<1> QED BY <1>2 DEF Client

(* So is the fetch for a new node. *)
LEMMA PlaceIsStep ==
  ASSUME NEW l \in Layers, PlaceFirst(l) \/ PlaceSplit(l) PROVE Client
<1>1. ASSUME NEW n, NEW pos, Storable(n),
             WriteNew(l, Stored(n).id, Stored(n).data, pos),
             pos \in Leaves(l) \union LeavesOf(SplitDepth[l])
      PROVE  Client
  <2>1. \E i \in Ids, x \in Data : WriteNew(l, i, x, pos)
    BY <1>1 DEF Storable
  <2> QED BY <1>1, <2>1 DEF Client
<1>2. CASE PlaceFirst(l)
  BY <1>1, <1>2 DEF PlaceFirst
<1>3. CASE PlaceSplit(l)
  BY <1>1, <1>3 DEF PlaceSplit
<1> QED BY <1>2, <1>3

(* So is what finish does. *)
LEMMA FinishIsStep ==
  ASSUME Finish \/ Return PROVE Client
<1>1. Return => Client
  BY FourLayers DEF Return, Client, Leaf
<1>2. Finish => Client
  BY DEF Finish, Client
<1> QED BY <1>1, <1>2

(* And so is everything the program does. *)
LEMMA StepsAreSteps == [NextMap]_bodsVars => [Next]_vars
<1> SUFFICES ASSUME [NextMap]_bodsVars PROVE [Next]_vars
  OBVIOUS
<1>1. CASE UNCHANGED bodsVars
  BY <1>1 DEF bodsVars
<1>2. ASSUME NEW k \in Keys, SearchMap(k) \/ \E v \in Values : InsertMap(k, v)
      PROVE  Next
  BY <1>2 DEF SearchMap, InsertMap, Next
<1>3. ASSUME NEW l \in Layers,
             Read(l) \/ ChangeNode(l) \/ PlaceFirst(l) \/ PlaceSplit(l)
      PROVE  Next
  BY <1>3, ReadIsStep, ChangeIsStep, PlaceIsStep DEF Next
<1>4. ASSUME NEW l \in Layers, PutBack(l) PROVE Next
  BY <1>4 DEF PutBack, Client, Next
<1>5. CASE ReceiveNode \/ ReceivePlaced \/ EndInsert
  BY <1>5 DEF ReceiveNode, ReceivePlaced, EndInsert, Client, Next
<1>6. CASE Finish \/ Return
  BY <1>6, FinishIsStep DEF Next
<1>7. CASE Serve
  BY <1>7 DEF Serve, Next
<1> QED
  BY <1>1, <1>2, <1>3, <1>4, <1>5, <1>6, <1>7 DEF NextMap

(* The program is a caller of the storage protocol that keeps to its rules: *)
(* what insert and search do is a behaviour of PathORAM.                   *)
THEOREM ProgramIsProtocol == SpecMap => Spec
<1>1. InitMap => Init
  BY DEF InitMap
<1>2. [NextMap]_bodsVars => [Next]_vars
  BY StepsAreSteps
<1> QED BY <1>1, <1>2, PTL DEF SpecMap, Spec

(* Under insert_map and search_map no node is lost, no read comes back     *)
(* without its node, and no accessed node stays where it was.              *)
THEOREM ProgramKeepsNodes ==
  SpecMap /\ []SplitsKept => [](NoNodeLost /\ NobodyCrashes /\ RemappedAfterAccess)
<1>1. Spec /\ []SplitsKept => []NoNodeLost
  BY NodesAreKept
<1>2. Spec /\ []SplitsKept => []NobodyCrashes
  BY ReadsFindTheirNode
<1>3. Spec /\ []SplitsKept => []RemappedAfterAccess
  BY AccessesAreRemapped
<1> QED BY <1>1, <1>2, <1>3, ProgramIsProtocol, PTL

(* Under insert_map and search_map the two processes are a store of nodes: *)
(* what a search reads is what the last insert wrote under that id.        *)
THEOREM ProgramUsesStore ==
  SpecMap /\ []SplitsKept => ImplementsBlockStore
BY ImplementsStore, ProgramIsProtocol, PTL

-----------------------------------------------------------------------------
(* The inductive invariant of the program.                                 *)

(* the nodes of every layer, wherever they are *)
NodesNow == <<Contents(1), Contents(2), Contents(3)>>

(* What was inserted is what these pairs have, or what they will have when *)
(* the pair of the job is among them.                                      *)
Has(pairs) == \A k \in Keys : promised[k] = Value(pairs, k)
HasBut(pairs) ==
  \A k \in Keys : promised[k] = IF k = job.key THEN job.val ELSE Value(pairs, k)

Jobs ==
  /\ promised \in [Keys -> Values \union {-1}]
  /\ phase # "idle" => job.key \in Keys /\ (kind # "search" => job.val \in Values)
  /\ phase = "idle" => done = {}
  /\ phase = "descend" => kind # "first"
  /\ phase = "update" => kind # "search"
  /\ phase # "update" => grown = {}
  /\ phase = "idle" => \A l \in Layers : modified[l] = {}
  /\ phase = "evict" => \A l \in done : modified[l] = {}

NamedByMax ==
  /\ \A l \in Layers : \A e \in Content(l) : e.id = e.data.max
  /\ call.op = "write" => call.node.id = call.node.data.max

(* Before and after the nodes change, all layers are in order. *)
Resting ==
  phase \in {"idle", "pad", "evict"} =>
    InOrder(root, NodesNow) /\ Has(AllRows(Contents(Leaf)))

(* the nodes on the way to the key of the job *)
Aim == WayTo(root, NodesNow, job.key)
ReadAt(l) == IF kind = "insert" THEN hand[l] ELSE cache[l]

Descending ==
  phase = "descend" =>
    /\ InOrder(root, NodesNow) /\ root.kids # <<>>
    /\ IF kind = "insert" THEN HasBut(AllRows(Contents(Leaf)))
                          ELSE Has(AllRows(Contents(Leaf)))
    /\ \E l \in Layers : done = Above(l)
    /\ \A l \in done : \E n \in ReadAt(l) : n.data = Aim[l]
    /\ \A l \in Layers : modified[l] = IF l \in done THEN {Aim[l].max} ELSE {}
    /\ \A l \in Layers \ {Mid1} :
         done = Above(l) => answer # {} /\ \A a \in answer : a.data = Aim[l - 1]
    /\ call.op = "read" => /\ done = Above(call.layer)
                           /\ call.id = Aim[call.layer].max

Written(l, r) ==
  {Linked(r.node)} \union (IF l \in grown THEN Linkeds(r.new) ELSE {})

(* While insert changes the nodes, they are what its steps so far have made *)
(* of those it found.                                                       *)
Rewriting(rt, O, d, r) ==
  /\ InOrder(rt, O) /\ rt.kids # <<>>
  /\ HasBut(AllRows(O[Leaf]))
  /\ \A l \in Layers :
       Contents(l) = IF l \in done THEN Instead(O[l], d[l], Written(l, r[l])) ELSE O[l]
  /\ root = IF Mid1 \notin done THEN rt
            ELSE IF Mid1 \in grown THEN RootInsert(Update(rt, r[1].node), r[1].new)
            ELSE Update(rt, r[1].node)
  /\ \E l \in 0 .. 3 : done = Below(l)
  /\ \A l \in Layers \ done : \E n \in hand[l] : n.data = d[l]
  /\ \A l \in done :
       /\ \E n \in cache[l] \union hand[l] : n.data = Linked(r[l].node)
       /\ \A n \in hand[l] : n.data = Linked(r[l].node)
       /\ l - 1 \notin done => below = r[l]
       /\ (IF l = Mid1 THEN hand[l] = {} ELSE l - 1 \in done) => r[l].new = {} \/ l \in grown
  /\ \A l \in grown :
       /\ l \in done /\ r[l].new # {}
       /\ \A b \in r[l].new : \E n \in cache[l] : n.data = Linked(b)
  /\ \A l \in Layers : modified[l] \subseteq {d[l].max} \union Maxes(Both(r[l]))
  /\ call.op = "write" => /\ done = Below(call.layer - 1)
                          /\ call.layer \notin grown
                          /\ call.node.data \in Linkeds(r[call.layer].new)

Updating ==
  phase = "update" /\ kind = "insert" =>
    \E rt, O : LET d == WayTo(rt, O, job.key)
               IN  /\ Rewriting(rt, O, d, Made(d, job.key, job.val))
                   /\ AtAnEnd(d[Leaf], job.key)

(* The first insert has made the nodes of the layers in grown. *)
First == Founded(job.key, job.val)
Founding ==
  phase = "update" /\ kind = "first" =>
    /\ HasBut({}) /\ done = {}
    /\ \A l \in Layers : Contents(l) = IF l \in grown THEN {Linked(First[l])} ELSE {}
    /\ IF Mid1 \in grown THEN InOrder(root, NodesNow) ELSE root \in Roots /\ root.kids = <<>>
    /\ \E l \in 0 .. 3 : grown = Below(l)
    /\ \A l \in grown : /\ \E n \in cache[l] : n.data = Linked(First[l])
                        /\ l - 1 \notin grown /\ call.op # "write" => below.node = First[l]
    /\ \A l \in Layers : modified[l] \subseteq {First[l].max}
    /\ call.op = "write" => /\ grown = Below(call.layer)
                            /\ call.node.data = Linked(First[call.layer])
                            /\ below.node = First[call.layer]

(* The entries of the nodes that finish will move are in cached nodes. *)
ParentOf(l) == IF l = Mid1 THEN {root} ELSE {p.data : p \in cache[l - 1]}
Adopted ==
  phase = "pad" =>
    \A l \in Layers : \A n \in Contents(l) : n.max \in modified[l] => n.max \in Entered(ParentOf(l))

MapInv ==
  /\ Jobs
  /\ NamedByMax
  /\ Resting
  /\ Descending
  /\ Updating
  /\ Founding
  /\ Adopted

(* Every pair goes to an end of its leaf, or to a leaf that is full: what  *)
(* leafNode::Insert gets right.  In leaves of two it has no other choice.  *)
OrderKept ==
  C <= 2 \/ (phase = "update" /\ kind = "insert" =>
               \A n \in hand[Leaf] : AtAnEnd(n.data, job.key))

-----------------------------------------------------------------------------
(* The three layers, and how the steps name those above and below one.     *)
LEMMA LayersAre ==
  /\ Layers = {1, 2, 3} /\ Leaf = 3 /\ Mid1 = 1
  /\ Above(1) = {} /\ Above(2) = {1} /\ Above(3) = {1, 2}
  /\ Below(0) = {1, 2, 3} /\ Below(1) = {2, 3} /\ Below(2) = {3} /\ Below(3) = {}
  /\ \A l \in Layers : Bottom(l) <=> l = 3
BY FourLayers DEF Leaf, Mid1, Above, Below, Bottom

(* The contents of the nodes are those of the store. *)
LEMMA ContentsAre ==
  \A l \in Layers : /\ Contents(l) = {e.data : e \in Content(l)}
                    /\ Contents(l)' = {e.data : e \in Content(l)'}
<1> TAKE l \in Layers
<1>1. \A n : Bare(n).data = n.data
  BY DEF Bare
<1>2. Contents(l) = {e.data : e \in Content(l)}
  BY <1>1 DEF Contents, Content
<1>3. Contents(l)' = {e.data : e \in Content(l)'}
  BY <1>1 DEF Contents, Content
<1> QED BY <1>2, <1>3

(* A step of the protocol that does not show in its store leaves the nodes *)
(* of the map as they are.                                                 *)
SameNodes == \A l \in Layers : /\ Content(l)' = Content(l)
                               /\ Contents(l)' = Contents(l)

(* The same, of a layer's pairs of id and content. *)
LEMMA SameContent ==
  ASSUME [l \in Layers |-> Content(l)'] = [l \in Layers |-> Content(l)]
  PROVE  SameNodes
<1>1. \A l \in Layers : Content(l)' = Content(l)
  <2> SUFFICES ASSUME NEW l \in Layers PROVE Content(l)' = Content(l)
    OBVIOUS
  <2> DEFINE F == [m \in Layers |-> Content(m)]
             G == [m \in Layers |-> Content(m)']
  <2>1. F[l] = Content(l) /\ G[l] = Content(l)'
    OBVIOUS
  <2>2. F = G
    OBVIOUS
  <2> HIDE DEF F, G
  <2> QED BY <2>1, <2>2
<1> QED BY <1>1, ContentsAre DEF SameNodes

(* A step that is none of BlockStore's. *)
LEMMA Unmoved ==
  ASSUME UNCHANGED Blocks!vars PROVE SameNodes /\ UNCHANGED answer
<1>1. /\ [l \in Layers |-> Content(l)'] = [l \in Layers |-> Content(l)]
      /\ answer' = answer
  BY ContentIs DEF Blocks!vars
<1> QED BY <1>1, SameContent

(* The nodes of all layers at once. *)
LEMMA SameNow == ASSUME SameNodes PROVE NodesNow' = NodesNow
BY LayersAre DEF SameNodes, NodesNow

(* The entries the protocol goes by are the names of the nodes.            *)
NamesKnown ==
  \A l \in Layers :
    /\ \A n \in Live(l) : n.id = n.data.max /\ n.data \in Contents(l)
    /\ \A c \in Contents(l) : c.max \in Ids /\ Known(l, c.max)
    /\ \A i \in Ids : Known(l, i) => \E c \in Contents(l) : c.max = i

(* They are, between any two steps. *)
LEMMA NamesAreKnown == Inv /\ NamedByMax => NamesKnown
<1> SUFFICES ASSUME Inv, NamedByMax, NEW l \in Layers
             PROVE  /\ \A n \in Live(l) : n.id = n.data.max /\ n.data \in Contents(l)
                    /\ \A c \in Contents(l) : c.max \in Ids /\ Known(l, c.max)
                    /\ \A i \in Ids : Known(l, i) => \E c \in Contents(l) : c.max = i
  BY DEF NamesKnown
<1>1. /\ Live(l) \subseteq Node
      /\ \A n \in Live(l) : Known(l, n.id)
      /\ \A i \in Ids : Known(l, i) => \E n \in Live(l) : n.id = i
  BY LiveNodes DEF LiveFacts
<1>2. ASSUME NEW n \in Live(l) PROVE n.id = n.data.max /\ n.data \in Contents(l)
  <2>1. Bare(n) \in Content(l)
    BY DEF Content
  <2> QED BY <2>1 DEF NamedByMax, Bare, Contents
<1>3. ASSUME NEW c \in Contents(l) PROVE c.max \in Ids /\ Known(l, c.max)
  <2>1. PICK n \in Live(l) : c = n.data
    BY DEF Contents
  <2> QED BY <1>1, <1>2, <2>1 DEF Node
<1> QED BY <1>1, <1>2, <1>3

(* Only the part of the invariant for the phase has to be shown.           *)
LEMMA InvByPhase ==
  /\ Jobs' /\ NamedByMax' /\ phase' = "descend" /\ Descending' => MapInv'
  /\ Jobs' /\ NamedByMax' /\ phase' = "update" /\ kind' = "insert" /\ Updating' => MapInv'
  /\ Jobs' /\ NamedByMax' /\ phase' = "update" /\ kind' = "first" /\ Founding' => MapInv'
  /\ Jobs' /\ NamedByMax' /\ phase' = "pad" /\ Resting' /\ Adopted' => MapInv'
  /\ Jobs' /\ NamedByMax' /\ phase' \in {"idle", "evict"} /\ Resting' => MapInv'
BY DEF MapInv, Resting, Descending, Updating, Founding, Adopted

(* A step that the client and the map do not see. *)
LEMMA SameIsInv ==
  ASSUME MapInv, SameNodes, UNCHANGED <<clientVars, mapVars>>
  PROVE  MapInv'
<1>1. NodesNow' = NodesNow
  BY SameNow
<1>2. UNCHANGED clientVars /\ UNCHANGED mapVars
  OBVIOUS
<1>3. /\ UNCHANGED <<phase, kind, done, grown, call, answer, cache, hand, modified>>
      /\ UNCHANGED <<root, job, below, promised>>
  BY <1>2 DEF clientVars, mapVars
<1>4. Leaf \in Layers
  BY LayersAre
<1>5. Jobs' /\ NamedByMax'
  BY <1>3 DEF MapInv, Jobs, NamedByMax, SameNodes
<1>6. Resting'
  BY <1>1, <1>3, <1>4 DEF MapInv, Resting, Has, SameNodes
<1>7. Aim' = Aim
  BY <1>1, <1>3 DEF Aim
<1>8. \A l : ReadAt(l)' = ReadAt(l)
  BY <1>3 DEF ReadAt
<1>9. Descending'
  <2> HIDE DEF Aim
  <2> QED BY <1>1, <1>3, <1>4, <1>7, <1>8 DEF MapInv, Descending, Has, HasBut, SameNodes
<1>10. Updating'
  <2> SUFFICES ASSUME phase = "update", kind = "insert" PROVE Updating'
    BY <1>3 DEF Updating
  <2>1. PICK rt, O : LET d == WayTo(rt, O, job.key)
                     IN  /\ Rewriting(rt, O, d, Made(d, job.key, job.val))
                         /\ AtAnEnd(d[Leaf], job.key)
    BY DEF MapInv, Updating
  <2>2. PICK d, r : d = WayTo(rt, O, job.key) /\ r = Made(d, job.key, job.val)
    OBVIOUS
  <2>3. Rewriting(rt, O, d, r) /\ AtAnEnd(d[Leaf], job.key)
    BY <2>1, <2>2
  <2>4. \A l : Written(l, r[l])' = Written(l, r[l])
    BY <1>3 DEF Written
  <2>5. Rewriting(rt, O, d, r)'
    BY <1>3, <2>3, <2>4 DEF Rewriting, HasBut, SameNodes
  <2> QED BY <1>3, <2>2, <2>3, <2>5 DEF Updating
<1>11. First' = First
  BY <1>3 DEF First
<1>12. Founding'
  BY <1>1, <1>3, <1>11 DEF MapInv, Founding, HasBut, SameNodes
<1>13. Adopted'
  BY <1>3 DEF MapInv, Adopted, SameNodes, ParentOf, Entered
<1> QED BY <1>5, <1>6, <1>9, <1>10, <1>12, <1>13 DEF MapInv

-----------------------------------------------------------------------------
(* An empty map has no pairs. *)
LEMMA NoPairs == AllRows({}) = {} /\ \A k : Value({}, k) = -1
BY DEF AllRows, Value

(* The invariant holds before the first operation. *)
LEMMA InitMapInv ==
  ASSUME InitMap PROVE MapInv
<1>1. /\ phase = "idle" /\ done = {} /\ grown = {} /\ call.op = "none"
      /\ modified = [l \in Layers |-> {}]
      /\ root = [kids |-> <<>>, max |-> NoKey]
      /\ promised = [k \in Keys |-> -1]
      /\ Init
  BY DEF InitMap, Init, NoCall
<1>2. \A l \in Layers : Content(l) = {}
  <2> SUFFICES ASSUME NEW l \in Layers PROVE Content(l) = {}
    OBVIOUS
  <2>1. [m \in Layers |-> Content(m)] = [m \in Layers |-> {}]
    BY <1>1, InitRefines, ContentIs DEF Blocks!Init
  <2>2. [m \in Layers |-> Content(m)][l] = [m \in Layers |-> {}][l]
    BY <2>1
  <2> QED BY <2>2
<1>3. \A l \in Layers : Contents(l) = {}
  BY <1>2, ContentsAre
<1>4. NodesNow = <<{}, {}, {}>>
  BY <1>3, LayersAre DEF NodesNow
<1>5. InOrder(root, NodesNow)
  BY <1>1, <1>4, EmptySorted DEF InOrder
<1>6. Has(AllRows(Contents(Leaf)))
  BY <1>1, <1>3, LayersAre, NoPairs DEF Has
<1>7. Jobs
  BY <1>1 DEF Jobs
<1>8. NamedByMax
  BY <1>1, <1>2 DEF NamedByMax
<1>9. Resting /\ Descending /\ Updating /\ Founding /\ Adopted
  BY <1>1, <1>5, <1>6 DEF Resting, Descending, Updating, Founding, Adopted
<1> QED BY <1>7, <1>8, <1>9 DEF MapInv

(* The root has no children if no entry has a node. *)
LEMMA EmptyRoot ==
  ASSUME NamesKnown, InOrder(root, NodesNow)
  PROVE  /\ RootEmpty <=> root.kids = <<>>
         /\ RootEmpty => \A l \in Layers : Contents(l) = {}
<1>1. Sorted(root, Contents(1), Contents(2), Contents(3))
  BY DEF InOrder, NodesNow
<1>2. ASSUME root.kids = <<>> PROVE RootEmpty
  <2>1. \A l \in Layers : Contents(l) = {}
    BY <1>1, <1>2, NothingInEmpty, LayersAre
  <2> QED BY <2>1 DEF NamesKnown, RootEmpty
<1>3. ASSUME RootEmpty PROVE \A l \in Layers : Contents(l) = {}
  BY <1>3 DEF NamesKnown, RootEmpty
<1>4. ASSUME RootEmpty PROVE root.kids = <<>>
  <2>1. Names(Contents(1)) = {}
    BY <1>3, <1>4, LayersAre DEF Names
  <2>2. AllRows({root}) = {} /\ root \in Roots
    BY <1>1, <2>1 DEF Sorted
  <2> SUFFICES ASSUME root.kids # <<>> PROVE FALSE
    OBVIOUS
  <2>3. root.kids \in Seq(Links)
    BY <2>2 DEF Roots
  <2>4. root.kids[1] \in ToSet(root.kids)
    BY <2>3 DEF ToSet
  <2>5. Rows(root) = root.kids
    BY <2>2 DEF Roots, Rows
  <2> QED BY <2>2, <2>4, <2>5 DEF AllRows
<1> QED BY <1>2, <1>3, <1>4

(* insert_map and search_map begin on layers that are in order. *)
LEMMA BeginIs ==
  ASSUME Inv, Inv', MapInv, NEW k \in {"first", "insert", "search"}, Begin(k)
  PROVE  /\ SameNodes /\ NodesNow' = NodesNow
         /\ phase = "idle" /\ InOrder(root, NodesNow) /\ Has(AllRows(Contents(Leaf)))
         /\ done' = {} /\ grown' = {} /\ call'.op = "none" /\ kind' = k
         /\ \A l \in Layers : modified'[l] = {}
         /\ phase' = IF k = "first" THEN "update" ELSE "descend"
         /\ (k = "first") <=> root.kids = <<>>
         /\ k = "first" => \A l \in Layers : Contents(l) = {}
<1>1. SameNodes
  BY BeginForgets, ContentIs, SameContent DEF Blocks!Forget
<1>2. phase = "idle" /\ (k = "first") = RootEmpty
  BY DEF Begin
<1>3. InOrder(root, NodesNow) /\ Has(AllRows(Contents(Leaf)))
  BY <1>2 DEF MapInv, Resting
<1>4. NamesKnown
  BY NamesAreKnown DEF MapInv
<1>5. done = {} /\ grown = {} /\ \A l \in Layers : modified[l] = {}
  BY <1>2 DEF MapInv, Jobs
<1>6. /\ UNCHANGED <<done, grown, call, modified>> /\ call.op = "none" /\ kind' = k
      /\ phase' = IF k = "first" THEN "update" ELSE "descend"
  BY DEF Begin, Running, NoCall
<1> QED BY <1>1, <1>2, <1>3, <1>4, <1>5, <1>6, SameNow, EmptyRoot

(* search_map: the way to its key is still to go. *)
LEMMA SearchMapInv ==
  ASSUME Inv, Inv', MapInv, NEW k \in Keys, SearchMap(k)
  PROVE  MapInv'
<1>1. Begin("search") /\ job'.key = k /\ UNCHANGED <<root, promised>>
  BY DEF SearchMap, NoJob
<1>2. /\ SameNodes /\ NodesNow' = NodesNow
      /\ phase = "idle" /\ InOrder(root, NodesNow) /\ Has(AllRows(Contents(Leaf)))
      /\ done' = {} /\ grown' = {} /\ call'.op = "none" /\ kind' = "search"
      /\ \A l \in Layers : modified'[l] = {}
      /\ phase' = "descend"
      /\ root.kids # <<>>
  BY <1>1, BeginIs
<1>3. Jobs'
  BY <1>1, <1>2 DEF MapInv, Jobs
<1>4. NamedByMax'
  BY <1>2 DEF MapInv, NamedByMax, SameNodes
<1>5. Has(AllRows(Contents(Leaf)))'
  BY <1>1, <1>2, LayersAre DEF Has, SameNodes
<1>6. \E l \in Layers : done' = Above(l)
  BY <1>2, LayersAre
<1>7. \A l \in Layers \ {Mid1} : done' # Above(l)
  BY <1>2, LayersAre
<1>8. Descending'
  BY <1>1, <1>2, <1>5, <1>6, <1>7 DEF Descending
<1> QED BY <1>2, <1>3, <1>4, <1>8, InvByPhase

(* insert_map: the same, or an empty map, in which nodes are made at once. *)
LEMMA InsertMapInv ==
  ASSUME Inv, Inv', MapInv, NEW k \in Keys, NEW v \in Values, InsertMap(k, v)
  PROVE  MapInv'
<1>1. /\ UNCHANGED root /\ job'.key = k /\ job'.val = v
      /\ promised' = [promised EXCEPT ![k] = v]
      /\ promised \in [Keys -> Values \union {-1}]
  BY DEF InsertMap, MapInv, Jobs
<1>2. PICK a \in {"first", "insert"} : Begin(a)
  BY DEF InsertMap
<1>3. /\ SameNodes /\ NodesNow' = NodesNow
      /\ phase = "idle" /\ InOrder(root, NodesNow) /\ Has(AllRows(Contents(Leaf)))
      /\ done' = {} /\ grown' = {} /\ call'.op = "none" /\ kind' = a
      /\ \A l \in Layers : modified'[l] = {}
      /\ phase' = IF a = "first" THEN "update" ELSE "descend"
      /\ (a = "first") <=> root.kids = <<>>
      /\ a = "first" => \A l \in Layers : Contents(l) = {}
  BY <1>2, BeginIs
<1>4. Jobs'
  BY <1>1, <1>3 DEF Jobs
<1>5. NamedByMax'
  BY <1>3 DEF MapInv, NamedByMax, SameNodes
<1>6. HasBut(AllRows(Contents(Leaf)))'
  <2>1. Contents(Leaf)' = Contents(Leaf)
    BY <1>3, LayersAre DEF SameNodes
  <2> QED BY <1>1, <1>3, <2>1 DEF Has, HasBut
<1>7. CASE a = "insert"
  <2>1. \E l \in Layers : done' = Above(l)
    BY <1>3, LayersAre
  <2>2. \A l \in Layers \ {Mid1} : done' # Above(l)
    BY <1>3, LayersAre
  <2>3. phase' = "descend" /\ root.kids # <<>> /\ kind' = "insert"
    BY <1>3, <1>7
  <2>4. Descending'
    BY <1>1, <1>3, <1>6, <2>1, <2>2, <2>3 DEF Descending
  <2> QED BY <1>4, <1>5, <2>3, <2>4, InvByPhase
<1>8. CASE a = "first"
  <2>1. phase' = "update" /\ kind' = "first" /\ \A l \in Layers : Contents(l) = {}
    BY <1>3, <1>8
  <2>2. \A l \in Layers : Contents(l)' = {}
    BY <1>3, <2>1 DEF SameNodes
  <2>3. HasBut({})'
    BY <1>6, <2>2, LayersAre, NoPairs DEF HasBut
  <2>4. root' \in Roots /\ root'.kids = <<>>
    BY <1>1, <1>3, <1>8 DEF InOrder, Sorted
  <2>5. \E l \in 0 .. 3 : grown' = Below(l)
    BY <1>3, LayersAre
  <2>6. Founding'
    BY <1>3, <2>1, <2>2, <2>3, <2>4, <2>5 DEF Founding
  <2> QED BY <1>4, <1>5, <2>1, <2>6, InvByPhase
<1> QED BY <1>7, <1>8

-----------------------------------------------------------------------------
(* The names a set of nodes has entries for. *)
LEMMA EnteredIs ==
  ASSUME NEW P, NEW x
  PROVE  x \in Entered(P) <=> \E p \in P : HasKey(p, x)
BY DEF Entered, HasKey

(* The nodes on the way to the key of the job are those search and insert  *)
(* read.                                                                   *)
AimFacts ==
  /\ \A l \in Layers :
       /\ Aim[l] \in Contents(l)
       /\ \A c \in Contents(l) : c.max = Aim[l].max => c = Aim[l]
  /\ Aim[1].max = Search(root, job.key).key
  /\ \A l \in {2, 3} : Aim[l].max = Search(Aim[l - 1], job.key).key
  /\ HasKey(root, Aim[1].max)
  /\ \A l \in {2, 3} : HasKey(Aim[l - 1], Aim[l].max)
  /\ \A n \in Contents(3) : IsLeaf(n) /\ Keyed(n)
  /\ Apart(Contents(3))
  /\ Covers(Contents(3), Aim[3], job.key)

(* They are on the way that the entries of the layers lead. *)
LEMMA AimIs ==
  ASSUME MapInv, phase = "descend" PROVE AimFacts
<1>1. /\ InOrder(root, NodesNow) /\ root.kids # <<>> /\ job.key \in Keys
  BY DEF MapInv, Jobs, Descending
<1>2. job.key \in Int
  BY <1>1, MapBounds
<1>3. /\ NodesNow[1] = Contents(1) /\ NodesNow[2] = Contents(2) /\ NodesNow[3] = Contents(3)
  BY DEF NodesNow
<1>4. /\ Way(root, Contents(1), Contents(2), Contents(3), Aim)
      /\ Covers(Contents(3), Aim[3], job.key)
      /\ Name(Aim[1]) = Search(root, job.key)
      /\ Name(Aim[2]) = Search(Aim[1], job.key)
      /\ Name(Aim[3]) = Search(Aim[2], job.key)
  <2> DEFINE O == NodesNow
             d == Aim
             k == job.key
  <2>1. InOrder(root, O) /\ root.kids # <<>> /\ k \in Int /\ d = WayTo(root, O, k)
    BY <1>1, <1>2 DEF Aim
  <2> HIDE DEF O, d, k
  <2>2. /\ Way(root, O[1], O[2], O[3], d) /\ Covers(O[3], d[3], k)
        /\ Name(d[1]) = Search(root, k)
        /\ Name(d[2]) = Search(d[1], k)
        /\ Name(d[3]) = Search(d[2], k)
    BY <2>1, WayIs
  <2> QED BY <1>3, <2>2 DEF O, d, k
<1> HIDE DEF Aim
<1>5. Sorted(root, Contents(1), Contents(2), Contents(3))
  BY <1>1, <1>3 DEF InOrder
<1>6. /\ \A n \in Contents(1) : IsMid(n) /\ Keyed(n)
      /\ \A n \in Contents(2) : IsMid(n) /\ Keyed(n)
      /\ \A n \in Contents(3) : IsLeaf(n) /\ Keyed(n)
      /\ Apart(Contents(1)) /\ Apart(Contents(2)) /\ Apart(Contents(3))
  BY <1>5, SortedFacts
<1>7. /\ Aim[1] \in Contents(1) /\ Name(Aim[1]) \in ToSet(root.kids)
      /\ Aim[2] \in Contents(2) /\ Name(Aim[2]) \in ToSet(Rows(Aim[1]))
      /\ Aim[3] \in Contents(3) /\ Name(Aim[3]) \in ToSet(Rows(Aim[2]))
  BY <1>4 DEF Way
<1>8. ASSUME NEW X, \A n \in X : Keyed(n), Apart(X), NEW a \in X, NEW c \in X, c.max = a.max
      PROVE  c = a
  <2>1. a.max \in Int
    BY <1>8 DEF Keyed
  <2> QED BY <1>8, <2>1, ApartMaxes
<1>9. \A l \in Layers : /\ Aim[l] \in Contents(l)
                        /\ \A c \in Contents(l) : c.max = Aim[l].max => c = Aim[l]
  <2>1. ASSUME NEW l \in Layers, NEW c \in Contents(l), c.max = Aim[l].max PROVE c = Aim[l]
    <3>1. /\ \A n \in Contents(l) : Keyed(n)
          /\ Apart(Contents(l))
          /\ Aim[l] \in Contents(l)
      BY <1>6, <1>7, LayersAre
    <3> QED BY <1>8, <2>1, <3>1
  <2> QED BY <1>7, <2>1, LayersAre
<1>10. ASSUME NEW p, Rows(p) = p.kids, NEW n, Name(n) \in ToSet(Rows(p))
       PROVE  HasKey(p, n.max)
  <2>1. n.max \in KeysIn(p)
    BY <1>10, NameOf DEF KeysIn
  <2> QED BY <1>10, <2>1, HasKeyIs
<1>11. Rows(root) = root.kids
  BY <1>5 DEF Sorted, Roots, Rows
<1>12. Rows(Aim[1]) = Aim[1].kids /\ Rows(Aim[2]) = Aim[2].kids
  BY <1>6, <1>7, MidFacts
<1>13. HasKey(root, Aim[1].max) /\ HasKey(Aim[1], Aim[2].max) /\ HasKey(Aim[2], Aim[3].max)
  BY <1>7, <1>10, <1>11, <1>12
<1>14. /\ Aim[1].max = Search(root, job.key).key
       /\ Aim[2].max = Search(Aim[1], job.key).key
       /\ Aim[3].max = Search(Aim[2], job.key).key
  BY <1>4, NameOf
<1> QED BY <1>4, <1>6, <1>9, <1>13, <1>14 DEF AimFacts

(* What insert and search read next is the name of the next of them.       *)
LEMMA WantedIs ==
  ASSUME MapInv, NEW l \in Layers, Reading(l)
  PROVE  Wanted(l) = Aim[l].max
<1>1. phase = "descend" /\ done = Above(l)
  BY DEF Reading
<1>2. AimFacts
  BY <1>1, AimIs
<1> HIDE DEF Aim
<1>3. CASE l = 1
  BY <1>2, <1>3, LayersAre DEF Wanted, Parent, AimFacts
<1>4. CASE l \in {2, 3}
  <2>1. answer # {} /\ \A a \in answer : a.data = Aim[l - 1]
    BY <1>1, <1>4, LayersAre DEF MapInv, Descending
  <2>2. (CHOOSE a \in answer : TRUE).data = Aim[l - 1] /\ l # Mid1
    BY <1>4, <2>1, LayersAre
  <2>3. Parent(l) = Aim[l - 1]
    BY <2>2 DEF Parent
  <2> QED BY <1>2, <1>4, <2>3 DEF Wanted, AimFacts
<1> QED BY <1>3, <1>4, LayersAre

-----------------------------------------------------------------------------
(* Where a node goes that Read...Node returns. *)
LEMMA DeliverIs ==
  ASSUME TypeOK, NEW l \in Layers, NEW n, NEW c, Deliver(l, n, c), kind # "first"
  PROVE  /\ answer' = {[layer |-> l, id |-> n.id, data |-> n.data]}
         /\ modified'[l] = modified[l] \union {n.id}
         /\ \A m \in Layers \ {l} : modified'[m] = modified[m]
         /\ kind = "insert" => /\ n \in hand'[l]
                               /\ \A m \in Layers \ {l} : hand'[m] = hand[m]
         /\ kind = "search" => /\ n \in cache'[l]
                               /\ \A m \in Layers \ {l} : cache'[m] = cache[m]
         /\ done \union {l} # Layers => done' = done \union {l} /\ phase' = phase
         /\ done \union {l} = Layers =>
              done' = {} /\ phase' = IF kind = "insert" THEN "update" ELSE "pad"
<1>1. modified' = [modified EXCEPT ![l] = @ \union {n.id}]
  BY DEF Deliver, Touch
<1>2. CASE kind = "insert"
  <2>1. hand' = [hand EXCEPT ![l] = {n}]
    BY <1>2 DEF Deliver
  <2>2. n \in hand'[l] /\ \A m \in Layers \ {l} : hand'[m] = hand[m]
    BY <2>1 DEF TypeOK
  <2> QED BY <1>1, <1>2, <2>2 DEF Deliver, TypeOK
<1>3. CASE kind = "search"
  <2>1. cache' = [cache EXCEPT ![l] = (c \ Named(c, n.id)) \union {n}]
    BY <1>3 DEF Deliver
  <2>2. n \in cache'[l] /\ \A m \in Layers \ {l} : cache'[m] = cache[m]
    BY <2>1 DEF TypeOK
  <2> QED BY <1>1, <1>3, <2>2 DEF Deliver, TypeOK
<1> QED BY <1>2, <1>3 DEF TypeOK

(* The node read is the next one on the way, and it arrives where insert   *)
(* or search looks for it.                                                 *)
LEMMA DeliverInv ==
  ASSUME Inv, Inv', MapInv, OrderKept', phase = "descend",
         NEW l \in Layers, done = Above(l), NEW n, NEW c, Deliver(l, n, c),
         n.id = Aim[l].max, \E m \in Layers : Blocks!Read(m), call'.op = "none",
         UNCHANGED <<kind, grown, root, job, below, promised>>
  PROVE  /\ MapInv'
         /\ SameNodes
         /\ answer' = {[layer |-> l, id |-> n.id, data |-> Aim[l]]}
         /\ phase' = "pad" => l = Leaf
<1>1. AimFacts /\ kind \in {"insert", "search"} /\ TypeOK /\ grown = {}
  BY AimIs DEF MapInv, Jobs, Inv, TypeInv, TypeOK
<1>2. /\ InOrder(root, NodesNow) /\ root.kids # <<>>
      /\ kind = "insert" => HasBut(AllRows(Contents(Leaf)))
      /\ kind = "search" => Has(AllRows(Contents(Leaf)))
      /\ \A m \in done : \E k \in ReadAt(m) : k.data = Aim[m]
      /\ \A m \in Layers : modified[m] = IF m \in done THEN {Aim[m].max} ELSE {}
  <2> HIDE DEF Aim
  <2> QED BY <1>1 DEF MapInv, Descending
<1>3. /\ answer' = {[layer |-> l, id |-> n.id, data |-> n.data]}
      /\ modified'[l] = modified[l] \union {n.id}
      /\ \A m \in Layers \ {l} : modified'[m] = modified[m]
      /\ kind = "insert" => /\ n \in hand'[l]
                            /\ \A m \in Layers \ {l} : hand'[m] = hand[m]
      /\ kind = "search" => /\ n \in cache'[l]
                            /\ \A m \in Layers \ {l} : cache'[m] = cache[m]
      /\ done \union {l} # Layers => done' = done \union {l} /\ phase' = phase
      /\ done \union {l} = Layers =>
           done' = {} /\ phase' = IF kind = "insert" THEN "update" ELSE "pad"
  BY <1>1, DeliverIs
<1>4. SameNodes /\ n.data = Aim[l]
  <2>1. PICK m \in Layers :
          /\ \E e \in [k \in Layers |-> Content(k)][m] :
               answer' = {[layer |-> m, id |-> e.id, data |-> e.data]}
          /\ [k \in Layers |-> Content(k)'] = [k \in Layers |-> Content(k)]
    BY ContentIs DEF Blocks!Read
  <2>2. PICK e \in Content(m) : answer' = {[layer |-> m, id |-> e.id, data |-> e.data]}
    BY <2>1
  <2>3. [layer |-> m, id |-> e.id, data |-> e.data] = [layer |-> l, id |-> n.id, data |-> n.data]
    BY <1>3, <2>2
  <2>4. m = l /\ e.id = n.id /\ e.data = n.data
    BY <2>3
  <2>5. e.id = e.data.max /\ e.data \in Contents(l)
    BY <2>2, <2>4, ContentsAre DEF MapInv, NamedByMax
  <2>6. n.data = Aim[l]
    BY <1>1, <2>4, <2>5 DEF AimFacts
  <2> QED BY <2>1, <2>6, SameContent
<1>5. NodesNow' = NodesNow
  BY <1>4, SameNow
<1>6. Aim' = Aim
  BY <1>5 DEF Aim
<1> HIDE DEF Aim
<1>7. \A m \in Layers : modified'[m] = IF m \in done \union {l} THEN {Aim[m].max} ELSE {}
  <2>1. l \notin done
    BY NotBeyondItself
  <2>2. modified'[l] = {Aim[l].max}
    BY <1>2, <1>3, <2>1
  <2>3. ASSUME NEW m \in Layers, m # l
        PROVE  modified'[m] = IF m \in done \union {l} THEN {Aim[m].max} ELSE {}
    BY <1>2, <1>3, <2>3
  <2> QED BY <2>2, <2>3
<1>8. \A m \in done \union {l} :
        \E k \in IF kind = "insert" THEN hand'[m] ELSE cache'[m] : k.data = Aim[m]
  <2>1. done \subseteq Layers
    BY <1>1 DEF TypeOK
  <2> QED BY <1>1, <1>2, <1>3, <1>4, <2>1 DEF ReadAt
<1>9. NamedByMax'
  BY <1>4 DEF MapInv, NamedByMax, SameNodes
<1>10. /\ Contents(Leaf)' = Contents(Leaf)
       /\ kind = "insert" => HasBut(AllRows(Contents(Leaf)))'
       /\ kind = "search" => Has(AllRows(Contents(Leaf)))'
  BY <1>2, <1>4, LayersAre DEF SameNodes, Has, HasBut
<1>11. CASE l # 3
  <2>1. l \in {1, 2} /\ done \union {l} = Above(l + 1) /\ l + 1 \in Layers /\ done \union {l} # Layers
    BY <1>11, LayersAre
  <2>2. done' = Above(l + 1) /\ phase' = "descend"
    BY <1>3, <2>1
  <2>3. Jobs'
    BY <2>2 DEF MapInv, Jobs
  <2>4. \A m \in Layers \ {Mid1} : done' = Above(m) => m - 1 = l
    BY <2>1, <2>2, LayersAre
  <2>5. \A m \in Layers \ {Mid1} :
          done' = Above(m) => answer' # {} /\ \A a \in answer' : a.data = Aim[m - 1]
    BY <1>3, <1>4, <2>4
  <2>6. \A m \in done' : \E k \in ReadAt(m)' : k.data = Aim[m]
    BY <1>3, <1>8, <2>1 DEF ReadAt
  <2>7. \A m \in Layers : modified'[m] = IF m \in done' THEN {Aim[m].max} ELSE {}
    BY <1>7, <2>1, <2>2
  <2>8. /\ InOrder(root, NodesNow)' /\ root'.kids # <<>>
        /\ IF kind' = "insert" THEN HasBut(AllRows(Contents(Leaf)))'
                              ELSE Has(AllRows(Contents(Leaf)))'
        /\ \E m \in Layers : done' = Above(m)
        /\ call'.op # "read"
    BY <1>1, <1>2, <1>5, <1>10, <2>1, <2>2
  <2>9. Descending'
    BY <1>6, <2>2, <2>5, <2>6, <2>7, <2>8 DEF Descending
  <2> QED BY <1>3, <1>4, <1>9, <2>2, <2>3, <2>9, InvByPhase
<1>12. CASE l = 3
  <2>1. done \union {l} = Layers
    BY <1>12, LayersAre
  <2>2. done' = {} /\ phase' = IF kind = "insert" THEN "update" ELSE "pad"
    BY <1>3, <2>1
  <2>3. Jobs'
    BY <1>1, <2>2 DEF MapInv, Jobs
  <2>4. CASE kind = "insert"
    <3>1. PICK rt, O, d, r : rt = root /\ O = NodesNow /\ d = Aim /\ r = Made(d, job.key, job.val)
      OBVIOUS
    <3>2. d = WayTo(rt, O, job.key) /\ \A m \in Layers : O[m] = Contents(m)
      BY <3>1, LayersAre DEF Aim, NodesNow
    <3>3. \A m \in Layers : Contents(m)' = O[m]
      BY <1>4, <3>2 DEF SameNodes
    <3>4. HasBut(AllRows(O[Leaf]))'
      BY <1>10, <2>4, <3>3, LayersAre
    <3>5. \E m \in 0 .. 3 : done' = Below(m)
      BY <2>2, LayersAre
    <3>6. \A m \in Layers : \E k \in hand'[m] : k.data = d[m]
      BY <1>8, <2>1, <2>4, <3>1
    <3>7. \A m \in Layers : modified'[m] \subseteq {d[m].max} \union Maxes(Both(r[m]))
      BY <1>7, <2>1, <3>1
    <3>8. InOrder(rt, O) /\ rt.kids # <<>> /\ root' = rt
      BY <1>2, <3>1
    <3>9. Rewriting(rt, O, d, r)'
      BY <1>1, <2>2, <3>3, <3>4, <3>5, <3>6, <3>7, <3>8, LayersAre DEF Rewriting
    <3>10. AtAnEnd(d[Leaf], job.key)
      <4>1. IsLeaf(d[3]) /\ job.key \in Int
        <5>1. job.key \in Keys
          BY DEF MapInv, Jobs
        <5>2. 3 \in Layers
          BY LayersAre
        <5>3. Aim[3] \in Contents(3) /\ \A m \in Contents(3) : IsLeaf(m)
          BY <1>1, <5>2 DEF AimFacts
        <5>4. IsLeaf(d[3])
          BY <3>1, <5>3
        <5>5. job.key \in Int
          <6>1. \A k \in Keys : k \in Int
            BY MapBounds
          <6> QED BY <5>1, <6>1
        <5> QED BY <5>4, <5>5
      <4>2. CASE C <= 2
        BY <4>1, <4>2, SmallLeaf, LayersAre
      <4>3. CASE ~(C <= 2)
        <5>1. \A k \in hand'[Leaf] : AtAnEnd(k.data, job.key)
          BY <1>3, <2>2, <2>4, <4>3 DEF OrderKept
        <5> QED BY <3>6, <5>1, LayersAre
      <4> QED BY <4>2, <4>3
    <3>11. Updating'
      BY <3>1, <3>2, <3>9, <3>10 DEF Updating
    <3> QED BY <1>3, <1>4, <1>9, <2>2, <2>3, <2>4, <3>11, InvByPhase
  <2>5. CASE kind = "search"
    <3>1. phase' = "pad"
      BY <2>2, <2>5
    <3>2. Resting'
      BY <1>2, <1>5, <1>10, <2>5 DEF Resting
    <3>3. ASSUME NEW m \in Layers, NEW k \in Contents(m), k.max \in modified'[m]
          PROVE  k.max \in Entered(ParentOf(m))'
      <4>1. k.max = Aim[m].max
        BY <1>7, <2>1, <3>3
      <4>2. CASE m = 1
        <5>1. ParentOf(m)' = {root}
          BY <4>2, LayersAre DEF ParentOf
        <5>2. HasKey(root, Aim[m].max)
          BY <1>1, <4>2 DEF AimFacts
        <5>3. k.max \in Entered({root})
          BY <4>1, <5>2, EnteredIs
        <5> QED BY <5>1, <5>3 DEF Entered
      <4>3. CASE m \in {2, 3}
        <5>1. ParentOf(m)' = {p.data : p \in cache'[m - 1]} /\ m - 1 \in Layers
          BY <4>3, LayersAre DEF ParentOf
        <5>2. PICK p \in cache'[m - 1] : p.data = Aim[m - 1]
          BY <1>8, <2>1, <2>5, <5>1
        <5>3. HasKey(Aim[m - 1], Aim[m].max)
          BY <1>1, <4>3 DEF AimFacts
        <5>4. PICK Q : Q = ParentOf(m)'
          OBVIOUS
        <5>5. k.max \in Entered(Q)
          BY <4>1, <5>1, <5>2, <5>3, <5>4, EnteredIs
        <5> QED BY <5>4, <5>5 DEF Entered
      <4> QED BY <4>2, <4>3, LayersAre
    <3>4. Adopted'
      BY <1>4, <3>3 DEF Adopted, SameNodes
    <3> QED BY <1>3, <1>4, <1>9, <1>12, <2>2, <2>3, <3>1, <3>2, <3>4, InvByPhase, LayersAre
  <2> QED BY <1>1, <2>4, <2>5
<1> QED BY <1>11, <1>12

(* What a search returns is what was inserted last under its key. *)
LEMMA ReturnsIs ==
  ASSUME MapInv, phase = "descend", NEW l \in Layers, NEW i,
         answer' = {[layer |-> l, id |-> i, data |-> Aim[l]]},
         phase' = "pad" => l = Leaf, Returns, UNCHANGED <<promised, job>>
  PROVE  [Map!Next]_(Map!vars)
<1>1. CASE ~(kind = "search" /\ phase' = "pad")
  BY <1>1 DEF Returns, Map!vars
<1>2. CASE kind = "search" /\ phase' = "pad"
  <2>1. l = 3 /\ AimFacts /\ job.key \in Keys /\ Has(AllRows(Contents(3)))
    BY <1>2, AimIs, LayersAre DEF MapInv, Jobs, Descending
  <2> HIDE DEF Aim
  <2>2. PICK d, X, k : d = Aim[3] /\ X = Contents(3) /\ k = job.key
    OBVIOUS
  <2>3. /\ \A n \in X : IsLeaf(n) /\ Keyed(n)
        /\ Apart(X) /\ d \in X /\ Covers(X, d, k) /\ k \in Keys
    BY <2>1, <2>2, LayersAre DEF AimFacts
  <2>4. ValueIn(d, k) = Value(AllRows(X), k)
    BY <2>3, LeafHas
  <2>5. Found(d, k) = promised[k]
    BY <2>1, <2>2, <2>3, <2>4 DEF Found, ValueIn, Has
  <2>6. result' = {[key |-> k, val |-> Found(a.data, k)] : a \in answer'}
    BY <1>2, <2>2 DEF Returns
  <2>7. result' = {[key |-> k, val |-> Found(d, k)]}
    BY <2>1, <2>2, <2>6
  <2>8. Map!SearchMap(k)
    BY <2>5, <2>7 DEF Map!SearchMap
  <2> QED BY <2>3, <2>8 DEF Map!Next
<1> QED BY <1>1, <1>2

(* A name that Read...Node asks the server for is that of the node the way *)
(* leads to.                                                               *)
LEMMA ReadRemoteInv ==
  ASSUME Inv, Inv', MapInv, NEW l \in Layers, Reading(l), ReadRemote(l, Aim[l].max),
         Aim[l].max \in Ids, UNCHANGED <<root, job, below, promised>>
  PROVE  MapInv' /\ phase' = "descend"
<1>1. /\ phase = "descend" /\ done = Above(l)
      /\ UNCHANGED <<phase, kind, done, grown, answer, cache, hand, modified>>
      /\ call'.op = "read" /\ call'.layer = l /\ call'.id = Aim[l].max
  BY DEF Reading, ReadRemote
<1>2. SameNodes
  BY SilentSteps, Unmoved
<1>3. NodesNow' = NodesNow
  BY <1>2, SameNow
<1>4. Aim' = Aim
  BY <1>3 DEF Aim
<1> HIDE DEF Aim
<1>5. Jobs' /\ NamedByMax'
  BY <1>1, <1>2 DEF MapInv, Jobs, NamedByMax, SameNodes
<1>6. \A m : ReadAt(m)' = ReadAt(m)
  BY <1>1 DEF ReadAt
<1>7. Contents(Leaf)' = Contents(Leaf)
  BY <1>2, LayersAre DEF SameNodes
<1>8. Descending'
  BY <1>1, <1>3, <1>4, <1>6, <1>7 DEF MapInv, Descending, Has, HasBut
<1> QED BY <1>1, <1>5, <1>8, InvByPhase

(* A read from the cache, or the request for one from the server. *)
LEMMA ReadMapInv ==
  ASSUME Inv, Inv', MapInv, OrderKept', NEW l \in Layers, Read(l)
  PROVE  MapInv' /\ [Map!Next]_(Map!vars)
<1>1. /\ Reading(l) /\ Returns /\ UNCHANGED <<root, job, below, promised>>
      /\ phase = "descend" /\ done = Above(l) /\ Wanted(l) = Aim[l].max
  BY WantedIs DEF Read, Reading
<1>2. /\ Aim[l].max \in Ids
      /\ ReadCached(l, Aim[l].max) \/ ReadRemote(l, Aim[l].max)
  <2> HIDE DEF Aim, Wanted
  <2> QED BY <1>1 DEF Read
<1> DEFINE i == Aim[l].max
<1>3. CASE ReadRemote(l, i)
  <2>1. MapInv' /\ phase' = "descend"
    BY <1>1, <1>2, <1>3, ReadRemoteInv
  <2>2. UNCHANGED <<promised, result>>
    BY <1>1, <2>1 DEF Returns
  <2> QED BY <2>1, <2>2 DEF Map!vars
<1>4. CASE ReadCached(l, i)
  <2>1. PICK n \in Named(cache[l], i) :
          Deliver(l, [n EXCEPT !.pos = IF l = Mid1 THEN n.pos ELSE pmap[l][i]], cache[l])
    BY <1>4 DEF ReadCached
  <2>2. PICK m : m = [n EXCEPT !.pos = IF l = Mid1 THEN n.pos ELSE pmap[l][i]]
    OBVIOUS
  <2>3. m.id = i
    BY <2>2 DEF Named, Inv, TypeInv, TypeOK, Node
  <2>4. UNCHANGED <<kind, grown>> /\ call'.op = "none"
    BY <1>4 DEF ReadCached, Descends, Running, NoCall, Deliver
  <2>5. Blocks!Read(l)
    BY <1>2, <1>4, ReadCachedReads
  <2>6. /\ MapInv'
        /\ answer' = {[layer |-> l, id |-> m.id, data |-> Aim[l]]}
        /\ phase' = "pad" => l = Leaf
    BY <1>1, <2>1, <2>2, <2>3, <2>4, <2>5, DeliverInv
  <2> QED BY <1>1, <2>6, ReturnsIs
<1> QED BY <1>2, <1>3, <1>4

(* The answer to that request. *)
LEMMA ReceiveNodeInv ==
  ASSUME Inv, Inv', MapInv, OrderKept', ReceiveNode
  PROVE  MapInv' /\ [Map!Next]_(Map!vars)
<1>1. /\ ReceiveRead /\ Returns /\ UNCHANGED <<root, job, below, promised>>
      /\ call.op = "read" /\ wire.type = "path"
  BY DEF ReceiveNode, ReceiveRead, Answers
<1>2. PICK l \in Layers : l = call.layer
  BY <1>1, Merging
<1>3. phase = "descend" /\ done = Above(l) /\ call.id = Aim[l].max
  <2> HIDE DEF Aim
  <2>1. phase = "descend"
    BY <1>1 DEF Inv, Phases, TypeInv, TypeOK
  <2> QED BY <1>1, <1>2, <2>1 DEF MapInv, Descending
<1> DEFINE c == Merged(l, wire.blocks)
<1>4. Named(c, call.id) # {} /\ c \in SUBSET NodeIn(l)
  BY <1>1, <1>2, ReadFinds, Merging
<1>5. PICK n \in Named(c, call.id) : Deliver(l, [n EXCEPT !.pos = call.leaf], c)
  BY <1>1, <1>2, <1>4 DEF ReceiveRead
<1>6. PICK m : m = [n EXCEPT !.pos = call.leaf]
  OBVIOUS
<1>7. m.id = Aim[l].max
  BY <1>3, <1>4, <1>5, <1>6 DEF Named, NodeIn, Node
<1> HIDE DEF c
<1>8. UNCHANGED <<kind, grown>> /\ call'.op = "none"
  BY <1>1 DEF ReceiveRead, Answers, NoCall
<1>9. /\ MapInv'
      /\ answer' = {[layer |-> l, id |-> m.id, data |-> Aim[l]]}
      /\ phase' = "pad" => l = Leaf
  BY <1>1, <1>3, <1>5, <1>6, <1>7, <1>8, ReceiveReadReads, DeliverInv
<1> QED BY <1>1, <1>3, <1>9, ReturnsIs

-----------------------------------------------------------------------------
(* How far insert is: what it found, and what it is making of it. *)
LEMMA UpdateIs ==
  ASSUME MapInv, phase = "update", kind = "insert"
  PROVE  \E rt, O, d, r : /\ d = WayTo(rt, O, job.key) /\ r = Made(d, job.key, job.val)
                          /\ Rewriting(rt, O, d, r) /\ Planned(rt, O, d, r, job.key, job.val)
<1>1. PICK rt, O : LET d == WayTo(rt, O, job.key)
                   IN  /\ Rewriting(rt, O, d, Made(d, job.key, job.val))
                       /\ AtAnEnd(d[3], job.key)
  BY LayersAre DEF MapInv, Updating
<1>2. PICK d, r : d = WayTo(rt, O, job.key) /\ r = Made(d, job.key, job.val)
  OBVIOUS
<1>3. Rewriting(rt, O, d, r) /\ AtAnEnd(d[3], job.key)
  BY <1>1, <1>2
<1>4. InOrder(rt, O) /\ rt.kids # <<>> /\ job.key \in Keys /\ job.val \in Values
  BY <1>3 DEF Rewriting, MapInv, Jobs
<1>5. Planned(rt, O, d, r, job.key, job.val)
  <2>1. PICK k, v : k = job.key /\ v = job.val
    OBVIOUS
  <2>2. /\ k \in Keys /\ v \in Values /\ InOrder(rt, O) /\ rt.kids # <<>>
        /\ d = WayTo(rt, O, k) /\ r = Made(d, k, v) /\ AtAnEnd(d[3], k)
    BY <1>2, <1>3, <1>4, <2>1
  <2>3. Planned(rt, O, d, r, k, v)
    BY <2>2, PlanIs
  <2> QED BY <2>1, <2>3
<1> QED BY <1>2, <1>3, <1>5

(* It is so after a step if it is for the nodes insert found. *)
LEMMA UpdateFrom ==
  ASSUME NEW rt, NEW O, NEW d, NEW r, UNCHANGED job,
         d = WayTo(rt, O, job.key), r = Made(d, job.key, job.val),
         Planned(rt, O, d, r, job.key, job.val), Rewriting(rt, O, d, r)'
  PROVE  Updating'
<1>1. AtAnEnd(d[3], job.key)
  BY DEF Planned
<1> QED BY <1>1, LayersAre DEF Updating

(* Where a node is, its content is, under the name of its max_value. *)
LEMMA HeldIsLive ==
  ASSUME NEW l \in Layers, NEW n \in cache[l] \union hand[l]
  PROVE  /\ n \in Live(l) /\ Bare(n) \in Content(l) /\ n.data \in Contents(l)
         /\ NamedByMax => n.id = n.data.max
<1>1. n \in Live(l)
  BY DEF Live
<1>2. Bare(n) \in Content(l) /\ n.data \in Contents(l)
  BY <1>1 DEF Content, Contents
<1>3. NamedByMax => n.id = n.data.max
  BY <1>2 DEF NamedByMax, Bare
<1> QED BY <1>1, <1>2, <1>3

(* What a change of the node in hand makes of the nodes of the layers. *)
LEMMA Exchanges ==
  ASSUME Inv, Inv', NamedByMax, NEW l \in Layers, NEW n \in hand[l],
         NEW i \in Ids, NEW x \in Data, Modify(l, i, x), i = x.max
  PROVE  /\ Contents(l)' = Instead(Contents(l), n.data, {x})
         /\ \A m \in Layers \ {l} : Contents(m)' = Contents(m)
         /\ \A m \in Layers : \A e \in Content(m)' : e.id = e.data.max
<1> DEFINE F == [k \in Layers |-> Content(k)]
           G == [k \in Layers |-> Content(k)']
           e0 == Bare(n)
           e1 == [id |-> i, data |-> x]
<1>1. G = [F EXCEPT ![l] = (@ \ {e0}) \union {e1}]
  BY ModifyUpdates
<1>2. \A k \in Layers : F[k] = Content(k) /\ G[k] = Content(k)'
  OBVIOUS
<1>3. DOMAIN F = Layers
  OBVIOUS
<1>4. e0.data = n.data /\ e0.id = n.id /\ e1.id = i /\ e1.data = x /\ e0 \in Content(l)
  BY HeldIsLive DEF Bare
<1>5. \A k \in Layers : \A e \in Content(k) : e = [id |-> e.id, data |-> e.data]
  BY DEF Content, Bare
<1> HIDE DEF F, G, e0, e1
<1>6. /\ Content(l)' = (Content(l) \ {e0}) \union {e1}
      /\ \A k \in Layers \ {l} : Content(k)' = Content(k)
  BY <1>1, <1>2, <1>3
<1>7. \A e \in Content(l) : e.data = n.data <=> e = e0
  BY <1>4, <1>5 DEF NamedByMax
<1>8. Contents(l)' = Instead(Contents(l), n.data, {x})
  <2>1. Contents(l)' = {e.data : e \in Content(l)'} /\ Contents(l) = {e.data : e \in Content(l)}
    BY ContentsAre
  <2> QED BY <1>4, <1>6, <1>7, <2>1 DEF Instead
<1>9. \A m \in Layers \ {l} : Contents(m)' = Contents(m)
  BY <1>6, ContentsAre
<1>10. \A m \in Layers : \A e \in Content(m)' : e.id = e.data.max
  BY <1>4, <1>6 DEF NamedByMax
<1> QED BY <1>8, <1>9, <1>10

(* What a new node that has its path adds to the nodes of its layer. *)
LEMMA Adds ==
  ASSUME Inv, Inv', NamedByMax, ReceiveWrite, NEW l, l = call.layer, NEW n, n = call.node
  PROVE  /\ l \in Layers
         /\ Contents(l)' = Contents(l) \union {n.data}
         /\ \A m \in Layers \ {l} : Contents(m)' = Contents(m)
         /\ \A m \in Layers : \A e \in Content(m)' : e.id = e.data.max
         /\ \A m \in Layers : cache[m] \subseteq cache'[m]
         /\ n \in cache'[l]
<1>1. /\ call.op = "write" /\ wire.type = "path"
      /\ cache' = [cache EXCEPT ![l] = (Merged(l, wire.blocks)
                                          \ Named(Merged(l, wire.blocks), n.id))
                                       \union {n}]
  BY DEF ReceiveWrite, Answers
<1>2. /\ l \in Layers /\ n \in NodeIn(l)
      /\ Merged(l, wire.blocks) = cache[l] \union wire.blocks
      /\ ~Known(l, n.id) /\ n.id = n.data.max
  BY <1>1, Merging DEF Inv, TypeInv, InRange, Waits, NamedByMax
<1> DEFINE F == [k \in Layers |-> Content(k)]
           G == [k \in Layers |-> Content(k)']
           e1 == [id |-> n.id, data |-> n.data]
<1>3. G = [F EXCEPT ![l] = @ \union {e1}]
  <2>1. Blocks!Create(l, n.id, n.data)
    BY <1>2, ReceiveWriteCreates
  <2> QED BY <2>1, ContentIs DEF Blocks!Create
<1>4. /\ \A k \in Layers : F[k] = Content(k) /\ G[k] = Content(k)'
      /\ DOMAIN F = Layers /\ e1.id = n.id /\ e1.data = n.data
  OBVIOUS
<1> HIDE DEF F, G, e1
<1>5. /\ Content(l)' = Content(l) \union {e1}
      /\ \A k \in Layers \ {l} : Content(k)' = Content(k)
  BY <1>2, <1>3, <1>4
<1>6. Contents(l)' = Contents(l) \union {n.data}
  <2>1. Contents(l)' = {e.data : e \in Content(l)'} /\ Contents(l) = {e.data : e \in Content(l)}
    BY <1>2, ContentsAre
  <2> QED BY <1>4, <1>5, <2>1
<1>7. \A m \in Layers \ {l} : Contents(m)' = Contents(m)
  BY <1>5, ContentsAre
<1>8. \A m \in Layers : \A e \in Content(m)' : e.id = e.data.max
  BY <1>2, <1>4, <1>5 DEF NamedByMax
<1>9. \A m \in cache[l] : m.id # n.id
  <2>1. \A m \in Live(l) : Known(l, m.id)
    BY <1>2, LiveNodes DEF LiveFacts
  <2> QED BY <1>2, <2>1 DEF Live
<1>10. \A m \in Layers : cache[m] \subseteq cache'[m]
  BY <1>1, <1>2, <1>9 DEF Named, Inv, TypeInv, TypeOK
<1>11. n \in cache'[l]
  BY <1>1, <1>2 DEF Inv, TypeInv, TypeOK
<1> QED BY <1>2, <1>6, <1>7, <1>8, <1>10, <1>11

(* The order in which insert goes up the layers. *)
LEMMA BelowIs ==
  ASSUME NEW l \in Layers
  PROVE  /\ Below(l - 1) = Below(l) \union {l} /\ l \notin Below(l)
         /\ l - 1 \in 0 .. 3 /\ l \in 0 .. 3 /\ l \in 1 .. 3 /\ l - 1 \notin Below(l - 1)
         /\ \A m \in Below(l) : m \in Layers /\ m - 1 \in Below(l - 1)
         /\ \A m \in Below(l) : m - 1 \in Below(l) \/ m = l + 1
         /\ 1 \notin Below(l) /\ (l # 3 => l + 1 \in Below(l) /\ l + 1 \in Layers)
BY LayersAre

(* What Linked does not change, of the nodes an insert makes. *)
LEMMA PlanFacts ==
  ASSUME NEW rt, NEW O, NEW d, NEW r, NEW k, NEW v, Planned(rt, O, d, r, k, v), NEW l \in Layers
  PROVE  /\ d[l] \in O[l]
         /\ \A n \in Both(r[l]) : Linked(n).max = n.max /\ (IsMid(n) => Linked(n).kids = n.kids)
         /\ r[l].node \in Both(r[l]) /\ \A b \in r[l].new : b \in Both(r[l]) /\ r[l].new = {b}
<1>1. l \in 1 .. 3
  BY LayersAre
<1>2. d[l] \in O[l] /\ (r[l].new = {} \/ \E b : r[l].new = {b})
  BY <1>1 DEF Planned, Titled
<1>3. \A n \in Both(r[l]) : IsMid(n) \/ IsLeaf(n)
  BY <1>1 DEF Planned
<1>4. \A n \in Both(r[l]) : Linked(n).max = n.max /\ (IsMid(n) => Linked(n).kids = n.kids)
  BY <1>3, LinkedIs
<1> QED BY <1>2, <1>4 DEF Both

(* The changed node is the one planned. *)
LEMMA ChangedIs ==
  ASSUME Inv, MapInv, NEW l \in Layers, phase = "update", kind = "insert",
         done = Below(l), NEW n \in hand[l],
         NEW rt, NEW O, NEW d, NEW r, Rewriting(rt, O, d, r),
         Planned(rt, O, d, r, job.key, job.val)
  PROVE  n.data = d[l] /\ Changed(l, n.data) = r[l]
<1>1. n.data = d[l]
  <2>1. PICK m \in hand[l] : m.data = d[l]
    BY BelowIs DEF Rewriting
  <2>2. m = n
    BY DEF Inv, OneInHand
  <2> QED BY <2>1, <2>2
<1>2. CASE l = 3
  BY <1>1, <1>2, LayersAre DEF Changed, Planned
<1>3. CASE l # 3
  <2>1. l + 1 \in done /\ (l + 1) - 1 \notin done
    BY <1>3, LayersAre
  <2>2. below = r[l + 1]
    BY <2>1 DEF Rewriting
  <2>3. l = 1 \/ l = 2
    BY <1>3, LayersAre
  <2>4. r[l] = Grow(d[l], below)
    BY <2>2, <2>3 DEF Planned
  <2> QED BY <1>1, <1>3, <2>4, LayersAre DEF Changed
<1> QED BY <1>2, <1>3

(* Insert and Update of the node in hand. *)
LEMMA ChangeNodeInv ==
  ASSUME Inv, Inv', MapInv, NEW l \in Layers, ChangeNode(l)
  PROVE  MapInv'
<1>1. PICK n \in hand[l], i \in Ids, x \in Data :
        /\ [id |-> i, data |-> x] = Stored(Changed(l, n.data).node)
        /\ Modify(l, i, x)
        /\ below' = Changed(l, n.data)
        /\ root' = IF l = Mid1 THEN Update(root, Changed(l, n.data).node) ELSE root
  <2>1. PICK n \in hand[l] :
          /\ Storable(Changed(l, n.data).node)
          /\ Modify(l, Stored(Changed(l, n.data).node).id, Stored(Changed(l, n.data).node).data)
          /\ below' = Changed(l, n.data)
          /\ root' = IF l = Mid1 THEN Update(root, Changed(l, n.data).node) ELSE root
    BY DEF ChangeNode
  <2> QED BY <2>1 DEF Storable, Stored
<1>2. UNCHANGED <<job, promised>> /\ done = Below(l) /\ (l = Leaf \/ Placed(l + 1))
  BY DEF ChangeNode
<1>3. /\ phase = "update" /\ kind = "insert" /\ call.op = "none"
      /\ UNCHANGED <<phase, kind, grown, call>>
      /\ done' = done \union {l}
  BY <1>1 DEF Modify, Running, NoCall
<1>4. PICK rt, O, d, r : /\ d = WayTo(rt, O, job.key) /\ r = Made(d, job.key, job.val)
                         /\ Rewriting(rt, O, d, r)
                         /\ Planned(rt, O, d, r, job.key, job.val)
  BY <1>3, UpdateIs
<1>5. n.data = d[l] /\ Changed(l, n.data) = r[l]
  BY <1>2, <1>3, <1>4, ChangedIs
<1>6. /\ x = Linked(r[l].node) /\ i = r[l].node.max /\ x.max = i /\ below' = r[l]
      /\ root' = IF l = Mid1 THEN Update(root, r[l].node) ELSE root
      /\ r[l].node \in Both(r[l])
  BY <1>1, <1>4, <1>5, PlanFacts DEF Stored
<1>7. /\ Contents(l)' = Instead(Contents(l), d[l], {x})
      /\ \A m \in Layers \ {l} : Contents(m)' = Contents(m)
      /\ \A m \in Layers : \A e \in Content(m)' : e.id = e.data.max
  BY <1>1, <1>5, <1>6, Exchanges DEF MapInv
<1>8. /\ l \notin done /\ done' = Below(l - 1) /\ l - 1 \notin done' /\ 1 \notin done
      /\ \A m \in done : m \in Layers /\ m - 1 \in done'
      /\ \A m \in done : m - 1 \in done \/ m = l + 1
      /\ l - 1 \in 0 .. 3
  BY <1>2, <1>3, BelowIs
<1>9. /\ \A m \in Layers \ {l} : hand'[m] = hand[m] /\ cache'[m] = cache[m]
      /\ \E k \in cache'[l] \union hand'[l] : k.data = x
      /\ \A k \in hand'[l] : k.data = x
      /\ l = 1 => hand'[l] # {}
      /\ \A m \in Layers : modified'[m] \subseteq modified[m] \union (IF m = l THEN {i} ELSE {})
  <2>1. PICK k \in hand[l] :
          LET m == [k EXCEPT !.id = i, !.data = x] IN
            IF Bottom(l) THEN /\ hand' = [hand EXCEPT ![l] = {}]
                              /\ cache' = [cache EXCEPT ![l] = (@ \ Named(@, i)) \union {m}]
                              /\ Touch(l, i)
                         ELSE hand' = [hand EXCEPT ![l] = {m}] /\ UNCHANGED <<cache, modified>>
    BY <1>1 DEF Modify
  <2>2. PICK m : m = [k EXCEPT !.id = i, !.data = x]
    OBVIOUS
  <2>3. m.data = x
    BY <2>2 DEF Inv, TypeInv, TypeOK, Node
  <2>4. CASE Bottom(l)
    <3>1. /\ hand' = [hand EXCEPT ![l] = {}]
          /\ cache' = [cache EXCEPT ![l] = (@ \ Named(@, i)) \union {m}]
          /\ modified' = [modified EXCEPT ![l] = @ \union {i}]
      BY <2>1, <2>2, <2>4 DEF Touch
    <3>2. l # 1
      BY <2>4, LayersAre
    <3> QED BY <2>3, <3>1, <3>2 DEF Inv, TypeInv, TypeOK
  <2>5. CASE ~Bottom(l)
    <3>1. hand' = [hand EXCEPT ![l] = {m}] /\ UNCHANGED <<cache, modified>>
      BY <2>1, <2>2, <2>5
    <3> QED BY <2>3, <3>1 DEF Inv, TypeInv, TypeOK
  <2> QED BY <2>4, <2>5
<1>10. HasBut(AllRows(O[Leaf]))'
  BY <1>2, <1>4 DEF Rewriting, HasBut
<1>11. grown \subseteq done /\ l \notin grown
  BY <1>4, <1>8 DEF Rewriting
<1>12. ASSUME NEW m \in Layers
       PROVE  Contents(m)' = IF m \in done' THEN Instead(O[m], d[m], Written(m, r[m])')
                                           ELSE O[m]
  <2>1. Written(m, r[m])' = Written(m, r[m])
    BY <1>3 DEF Written
  <2>2. CASE m = l
    <3>1. Contents(l) = O[l]
      BY <1>4, <1>8 DEF Rewriting
    <3>2. Written(l, r[l]) = {x}
      BY <1>6, <1>11 DEF Written
    <3> QED BY <1>3, <1>7, <2>1, <2>2, <3>1, <3>2
  <2>3. CASE m # l
    BY <1>3, <1>4, <1>7, <2>1, <2>3 DEF Rewriting
  <2> QED BY <2>2, <2>3
<1>13. root' = IF Mid1 \notin done' THEN rt
               ELSE IF Mid1 \in grown' THEN RootInsert(Update(rt, r[1].node), r[1].new)
               ELSE Update(rt, r[1].node)
  <2>1. root = rt /\ Mid1 \notin grown
    BY <1>4, <1>8, <1>11, LayersAre DEF Rewriting
  <2> QED BY <1>3, <1>6, <1>8, <2>1, LayersAre
<1>14. \A m \in Layers \ done' : \E k \in hand'[m] : k.data = d[m]
  BY <1>3, <1>4, <1>9 DEF Rewriting
<1>15. ASSUME NEW m \in done'
       PROVE  /\ \E k \in cache'[m] \union hand'[m] : k.data = Linked(r[m].node)
              /\ \A k \in hand'[m] : k.data = Linked(r[m].node)
              /\ m - 1 \notin done' => below' = r[m]
              /\ (IF m = Mid1 THEN hand'[m] = {} ELSE m - 1 \in done')
                   => r[m].new = {} \/ m \in grown'
  <2>1. CASE m = l
    BY <1>6, <1>8, <1>9, <2>1, LayersAre
  <2>2. CASE m # l
    <3>1. m \in done /\ m \in Layers /\ m # Mid1 /\ m - 1 \in done'
      BY <1>3, <1>8, <2>2, LayersAre
    <3>2. /\ \E k \in cache'[m] \union hand'[m] : k.data = Linked(r[m].node)
          /\ \A k \in hand'[m] : k.data = Linked(r[m].node)
      BY <1>4, <1>9, <2>2, <3>1 DEF Rewriting
    <3>3. r[m].new = {} \/ m \in grown
      <4>1. CASE m - 1 \in done
        BY <1>4, <3>1, <4>1 DEF Rewriting
      <4>2. CASE m - 1 \notin done
        <5>1. m = l + 1 /\ below = r[m]
          BY <1>4, <1>8, <3>1, <4>2 DEF Rewriting
        <5>2. l # Leaf
          BY <3>1, <5>1, LayersAre
        <5> QED BY <1>2, <5>1, <5>2 DEF Placed
      <4> QED BY <4>1, <4>2
    <3> QED BY <1>3, <3>1, <3>2, <3>3
  <2> QED BY <2>1, <2>2
<1>16. \A m \in grown' : /\ m \in done' /\ r[m].new # {}
                         /\ \A b \in r[m].new : \E k \in cache'[m] : k.data = Linked(b)
  <2>1. \A m \in grown : m \in done /\ m \in Layers /\ m # l
    BY <1>8, <1>11
  <2> QED BY <1>3, <1>4, <1>9, <2>1 DEF Rewriting
<1>17. \A m \in Layers : modified'[m] \subseteq {d[m].max} \union Maxes(Both(r[m]))
  <2>1. i \in Maxes(Both(r[l]))
    BY <1>6 DEF Maxes
  <2> QED BY <1>4, <1>9, <2>1 DEF Rewriting
<1>18. Rewriting(rt, O, d, r)'
  <2>1. InOrder(rt, O) /\ rt.kids # <<>> /\ call'.op # "write" /\ \E m \in 0 .. 3 : done' = Below(m)
    BY <1>3, <1>4, <1>8 DEF Rewriting
  <2> QED BY <1>10, <1>12, <1>13, <1>14, <1>15, <1>16, <1>17, <2>1 DEF Rewriting
<1>19. Updating'
  BY <1>2, <1>4, <1>18, UpdateFrom
<1>20. NamedByMax'
  BY <1>3, <1>7 DEF NamedByMax
<1>21. Jobs'
  BY <1>2, <1>3 DEF MapInv, Jobs
<1> QED BY <1>3, <1>19, <1>20, <1>21, InvByPhase

(* A path is fetched for the node that split off the one changed last. *)
LEMMA PlaceSplitInv ==
  ASSUME Inv, Inv', MapInv, NEW l \in Layers, PlaceSplit(l)
  PROVE  MapInv'
<1>1. PICK n \in below.new, i \in Ids, x \in Data, pos \in LeavesOf(SplitDepth[l]) :
        [id |-> i, data |-> x] = Stored(n) /\ WriteNew(l, i, x, pos)
  <2>1. PICK n \in below.new, pos \in LeavesOf(SplitDepth[l]) :
          Storable(n) /\ WriteNew(l, Stored(n).id, Stored(n).data, pos)
    BY DEF PlaceSplit
  <2> QED BY <2>1 DEF Storable, Stored
<1>2. /\ kind = "insert" /\ l \notin grown
      /\ UNCHANGED <<root, job, below, promised>>
  BY DEF PlaceSplit, mapVars
<1>3. /\ phase = "update" /\ done = Below(l) \union {l}
      /\ UNCHANGED <<phase, kind, done, grown, cache, hand>>
      /\ call' = [op |-> "write", layer |-> l, node |-> [id |-> i, pos |-> pos, data |-> x]]
      /\ modified' = [modified EXCEPT ![l] = @ \union {i}]
  BY <1>1, <1>2 DEF WriteNew, Touch
<1>4. SameNodes
  <2>1. pos \in Leaves(l) \union LeavesOf(SplitDepth[l])
    OBVIOUS
  <2> QED BY <1>1, <2>1, SilentSteps, Unmoved
<1>5. PICK rt, O, d, r : /\ d = WayTo(rt, O, job.key) /\ r = Made(d, job.key, job.val)
                         /\ Rewriting(rt, O, d, r)
                         /\ Planned(rt, O, d, r, job.key, job.val)
  BY <1>2, <1>3, UpdateIs
<1>6. done = Below(l - 1) /\ l \in done /\ l - 1 \notin done
  BY <1>3, BelowIs
<1>7. n \in r[l].new /\ n \in Both(r[l]) /\ Linked(n).max = n.max
  BY <1>1, <1>5, <1>6, PlanFacts DEF Rewriting
<1>8. x = Linked(n) /\ i = n.max /\ x.max = i
  BY <1>1, <1>7 DEF Stored
<1>9. /\ call'.op = "write" /\ call'.layer = l /\ call'.node.id = i /\ call'.node.data = x
  BY <1>3
<1>10. \A m \in Layers : modified'[m] \subseteq {d[m].max} \union Maxes(Both(r[m]))
  <2>1. i \in Maxes(Both(r[l]))
    BY <1>7, <1>8 DEF Maxes
  <2> QED BY <1>3, <1>5, <2>1 DEF Rewriting, Inv, TypeInv, TypeOK
<1>11. x \in Linkeds(r[l].new)
  BY <1>7, <1>8 DEF Linkeds
<1>12. \A m : Written(m, r[m])' = Written(m, r[m])
  BY <1>3 DEF Written
<1>13. HasBut(AllRows(O[Leaf]))' <=> HasBut(AllRows(O[Leaf]))
  BY <1>2 DEF HasBut
<1>14. Rewriting(rt, O, d, r)'
  <2>1. \A m \in Layers :
          Contents(m)' = IF m \in done' THEN Instead(O[m], d[m], Written(m, r[m])') ELSE O[m]
    BY <1>3, <1>4, <1>5, <1>12 DEF Rewriting, SameNodes
  <2>2. call'.op = "write" => /\ done' = Below(call'.layer - 1)
                              /\ call'.layer \notin grown'
                              /\ call'.node.data \in Linkeds(r[call'.layer].new)
    BY <1>2, <1>3, <1>6, <1>9, <1>11
  <2>3. /\ InOrder(rt, O) /\ rt.kids # <<>> /\ HasBut(AllRows(O[Leaf]))'
        /\ root' = IF Mid1 \notin done' THEN rt
                   ELSE IF Mid1 \in grown' THEN RootInsert(Update(rt, r[1].node), r[1].new)
                   ELSE Update(rt, r[1].node)
        /\ \E m \in 0 .. 3 : done' = Below(m)
    BY <1>2, <1>3, <1>5, <1>13 DEF Rewriting
  <2>4. /\ \A m \in Layers \ done' : \E k \in hand'[m] : k.data = d[m]
        /\ \A m \in done' :
             /\ \E k \in cache'[m] \union hand'[m] : k.data = Linked(r[m].node)
             /\ \A k \in hand'[m] : k.data = Linked(r[m].node)
             /\ m - 1 \notin done' => below' = r[m]
             /\ (IF m = Mid1 THEN hand'[m] = {} ELSE m - 1 \in done')
                  => r[m].new = {} \/ m \in grown'
        /\ \A m \in grown' :
             /\ m \in done' /\ r[m].new # {}
             /\ \A b \in r[m].new : \E k \in cache'[m] : k.data = Linked(b)
    BY <1>2, <1>3, <1>5 DEF Rewriting
  <2> QED BY <1>10, <2>1, <2>2, <2>3, <2>4 DEF Rewriting
<1>15. Updating'
  BY <1>2, <1>5, <1>14, UpdateFrom
<1>16. NamedByMax'
  BY <1>4, <1>8, <1>9 DEF MapInv, NamedByMax, SameNodes
<1>17. Jobs'
  BY <1>2, <1>3 DEF MapInv, Jobs
<1> QED BY <1>2, <1>3, <1>15, <1>16, <1>17, InvByPhase

(* It is there. *)
LEMMA PlacedSplitInv ==
  ASSUME Inv, Inv', MapInv, kind = "insert", ReceivePlaced
  PROVE  MapInv'
<1>1. /\ ReceiveWrite /\ UNCHANGED <<job, below, promised>> /\ call.op = "write"
      /\ UNCHANGED <<phase, kind, done, hand, modified>>
      /\ grown' = grown \union {call.layer} /\ call'.op = "none"
  BY DEF ReceivePlaced, ReceiveWrite, Answers, NoCall
<1>2. phase = "update"
  BY <1>1 DEF Inv, Phases, TypeInv, TypeOK
<1>3. PICK l, n : l = call.layer /\ n = call.node
  OBVIOUS
<1>4. /\ l \in Layers
      /\ Contents(l)' = Contents(l) \union {n.data}
      /\ \A m \in Layers \ {l} : Contents(m)' = Contents(m)
      /\ \A m \in Layers : \A e \in Content(m)' : e.id = e.data.max
      /\ \A m \in Layers : cache[m] \subseteq cache'[m]
      /\ n \in cache'[l]
  BY <1>1, <1>3, Adds DEF MapInv
<1>5. PICK rt, O, d, r : /\ d = WayTo(rt, O, job.key) /\ r = Made(d, job.key, job.val)
                         /\ Rewriting(rt, O, d, r)
                         /\ Planned(rt, O, d, r, job.key, job.val)
  BY <1>2, UpdateIs
<1>6. /\ done = Below(l - 1) /\ l \notin grown /\ n.data \in Linkeds(r[l].new)
      /\ l \in done /\ l - 1 \notin done
  BY <1>1, <1>3, <1>4, <1>5, BelowIs DEF Rewriting
<1>7. PICK b \in r[l].new : n.data = Linked(b)
  BY <1>6 DEF Linkeds
<1>8. r[l].new = {b} /\ b \in Both(r[l]) /\ Linked(b).max = b.max
  BY <1>4, <1>5, <1>7, PlanFacts
<1>9. \A m \in Layers : grown' = grown \union {l} /\ (m # l => Written(m, r[m])' = Written(m, r[m]))
  BY <1>1, <1>3 DEF Written
<1>10. ASSUME NEW m \in Layers
       PROVE  Contents(m)' = IF m \in done' THEN Instead(O[m], d[m], Written(m, r[m])') ELSE O[m]
  <2>1. CASE m = l
    <3>1. Contents(l) = Instead(O[l], d[l], {Linked(r[l].node)})
      <4>1. Written(l, r[l]) = {Linked(r[l].node)}
        BY <1>6 DEF Written
      <4>2. Contents(l) = Instead(O[l], d[l], Written(l, r[l]))
        BY <1>4, <1>5, <1>6 DEF Rewriting
      <4> QED BY <4>1, <4>2
    <3>2. Written(l, r[l])' = {Linked(r[l].node)} \union {Linked(b)}
      BY <1>8, <1>9, <1>4 DEF Written, Linkeds
    <3> QED BY <1>1, <1>4, <1>6, <1>7, <2>1, <3>1, <3>2 DEF Instead
  <2>2. CASE m # l
    BY <1>1, <1>4, <1>5, <1>9, <2>2 DEF Rewriting
  <2> QED BY <2>1, <2>2
<1>11. root' = IF Mid1 \notin done' THEN rt
               ELSE IF Mid1 \in grown' THEN RootInsert(Update(rt, r[1].node), r[1].new)
               ELSE Update(rt, r[1].node)
  <2>1. CASE l = 1
    <3>1. root = Update(rt, r[1].node) /\ Mid1 \in done' /\ Mid1 \in grown'
      BY <1>1, <1>3, <1>5, <1>6, <2>1, LayersAre DEF Rewriting
    <3>2. Len(root.kids) < P1
      <4>1. r[1].new # {}
        BY <1>8, <2>1
      <4> QED BY <1>5, <3>1, <4>1 DEF Planned, Remade
    <3>3. root' = RootInsert(root, {Linked(b)})
      BY <1>3, <1>7, <2>1, <3>2, LayersAre DEF ReceivePlaced
    <3>4. RootInsert(root, {Linked(b)}) = RootInsert(root, {b})
      <4>1. Linked(b).pos = b.pos
        <5>1. IsMid(b) \/ IsLeaf(b)
          BY <1>5, <1>8, <2>1 DEF Planned
        <5> QED BY <5>1, LinkedIs
      <4>2. (CHOOSE m \in {Linked(b)} : TRUE) = Linked(b) /\ (CHOOSE m \in {b} : TRUE) = b
        OBVIOUS
      <4> QED BY <1>8, <4>1, <4>2 DEF RootInsert
    <3> QED BY <1>8, <2>1, <3>1, <3>3, <3>4
  <2>2. CASE l # 1
    <3>1. root' = root /\ (Mid1 \in grown' <=> Mid1 \in grown)
      BY <1>1, <1>3, <2>2, LayersAre DEF ReceivePlaced
    <3> QED BY <1>1, <1>5, <3>1 DEF Rewriting
  <2> QED BY <2>1, <2>2
<1>12. \A m \in grown' : /\ m \in done' /\ r[m].new # {}
                         /\ \A c \in r[m].new : \E k \in cache'[m] : k.data = Linked(c)
  <2>1. l \in done' /\ r[l].new # {} /\ \A c \in r[l].new : \E k \in cache'[l] : k.data = Linked(c)
    BY <1>1, <1>4, <1>6, <1>7, <1>8
  <2>2. grown \subseteq Layers
    BY DEF Inv, TypeInv, TypeOK
  <2> QED BY <1>1, <1>4, <1>5, <1>9, <2>1, <2>2 DEF Rewriting
<1>13. \A m \in done' :
         /\ \E k \in cache'[m] \union hand'[m] : k.data = Linked(r[m].node)
         /\ \A k \in hand'[m] : k.data = Linked(r[m].node)
         /\ m - 1 \notin done' => below' = r[m]
         /\ (IF m = Mid1 THEN hand'[m] = {} ELSE m - 1 \in done')
              => r[m].new = {} \/ m \in grown'
  <2>1. done \subseteq Layers
    BY DEF Inv, TypeInv, TypeOK
  <2> QED BY <1>1, <1>4, <1>5, <2>1 DEF Rewriting
<1>14. HasBut(AllRows(O[Leaf]))'
  BY <1>1, <1>5 DEF Rewriting, HasBut
<1>15. Rewriting(rt, O, d, r)'
  <2>1. /\ InOrder(rt, O) /\ rt.kids # <<>> /\ call'.op # "write"
        /\ \E m \in 0 .. 3 : done' = Below(m)
        /\ \A m \in Layers \ done' : \E k \in hand'[m] : k.data = d[m]
        /\ \A m \in Layers : modified'[m] \subseteq {d[m].max} \union Maxes(Both(r[m]))
    BY <1>1, <1>5 DEF Rewriting
  <2> QED BY <1>10, <1>11, <1>12, <1>13, <1>14, <2>1 DEF Rewriting
<1>16. Updating'
  BY <1>1, <1>5, <1>15, UpdateFrom
<1>17. NamedByMax'
  BY <1>1, <1>4 DEF NamedByMax
<1>18. Jobs'
  BY <1>1, <1>2 DEF MapInv, Jobs
<1> QED BY <1>1, <1>2, <1>16, <1>17, <1>18, InvByPhase

(* The changed nodes go back to their caches. *)
LEMMA PutBackInv ==
  ASSUME Inv, Inv', MapInv, NEW l \in Layers, PutBack(l)
  PROVE  MapInv'
<1>1. /\ Placed(Mid1) /\ WriteBack(l) /\ UNCHANGED <<root, job, below, promised>>
      /\ UNCHANGED <<phase, kind, done, grown, call>> /\ call.op = "none"
      /\ phase = "update" /\ done = Layers /\ hand' = [hand EXCEPT ![l] = {}]
  BY DEF PutBack, WriteBack, mapVars, Running, NoCall
<1>2. PICK n \in hand[l] :
        /\ cache' = [cache EXCEPT ![l] = (@ \ Named(@, n.id)) \union {n}]
        /\ modified' = [modified EXCEPT ![l] = @ \union {n.id}]
  BY <1>1 DEF WriteBack, Touch
<1>3. kind = "insert"
  <2>1. kind # "search"
    BY <1>1 DEF MapInv, Jobs
  <2>2. kind # "first"
    BY <1>1 DEF MapInv, Founding
  <2> QED BY <2>1, <2>2 DEF Inv, TypeInv, TypeOK
<1>4. SameNodes
  BY <1>1, WriteBackMoves, Unmoved
<1>5. PICK rt, O, d, r : /\ d = WayTo(rt, O, job.key) /\ r = Made(d, job.key, job.val)
                         /\ Rewriting(rt, O, d, r)
                         /\ Planned(rt, O, d, r, job.key, job.val)
  BY <1>1, <1>3, UpdateIs
<1>6. n.data = Linked(r[l].node) /\ n.id = n.data.max
  BY <1>1, <1>5, HeldIsLive DEF Rewriting, MapInv
<1>7. n.id \in Maxes(Both(r[l]))
  BY <1>5, <1>6, PlanFacts DEF Maxes
<1>8. \A m \in Layers : modified'[m] \subseteq {d[m].max} \union Maxes(Both(r[m]))
  BY <1>2, <1>5, <1>7 DEF Rewriting, Inv, TypeInv, TypeOK
<1>9. \A m \in Layers : /\ cache[m] \subseteq cache'[m]
                        /\ cache[m] \union hand[m] = cache'[m] \union hand'[m]
                        /\ hand'[m] \subseteq hand[m]
  <2>1. \A m \in cache[l] : m.id = n.id => m = n
    BY LiveNodes DEF LiveFacts, Live
  <2>2. cache[l] \subseteq cache'[l] /\ cache'[l] = cache[l] \union {n} /\ hand'[l] = {}
    BY <1>1, <1>2, <2>1 DEF Named, Inv, TypeInv, TypeOK
  <2>3. hand[l] = {n}
    BY DEF Inv, OneInHand
  <2>4. \A m \in Layers \ {l} : cache'[m] = cache[m] /\ hand'[m] = hand[m]
    BY <1>1, <1>2 DEF Inv, TypeInv, TypeOK
  <2> QED BY <2>2, <2>3, <2>4
<1>10. \A m \in done' :
         /\ \E k \in cache'[m] \union hand'[m] : k.data = Linked(r[m].node)
         /\ \A k \in hand'[m] : k.data = Linked(r[m].node)
         /\ m - 1 \notin done' => below' = r[m]
         /\ (IF m = Mid1 THEN hand'[m] = {} ELSE m - 1 \in done')
              => r[m].new = {} \/ m \in grown'
  <2> SUFFICES ASSUME NEW m \in Layers
               PROVE  /\ \E k \in cache'[m] \union hand'[m] : k.data = Linked(r[m].node)
                      /\ \A k \in hand'[m] : k.data = Linked(r[m].node)
                      /\ m - 1 \notin done' => below' = r[m]
                      /\ (IF m = Mid1 THEN hand'[m] = {} ELSE m - 1 \in done')
                           => r[m].new = {} \/ m \in grown'
    BY <1>1
  <2>1. /\ \E k \in cache'[m] \union hand'[m] : k.data = Linked(r[m].node)
        /\ \A k \in hand'[m] : k.data = Linked(r[m].node)
        /\ m - 1 \notin done' => below' = r[m]
    BY <1>1, <1>5, <1>9 DEF Rewriting
  <2>2. m = Mid1 => r[m].new = {} \/ m \in grown'
    <3>1. m = Mid1 => m - 1 \notin done
      BY <1>1, LayersAre
    <3> QED BY <1>1, <1>5, <3>1 DEF Rewriting, Placed
  <2>3. m # Mid1 /\ m - 1 \in done' => r[m].new = {} \/ m \in grown'
    BY <1>1, <1>5 DEF Rewriting
  <2> QED BY <2>1, <2>2, <2>3
<1>11. \A m : Written(m, r[m])' = Written(m, r[m])
  BY <1>1 DEF Written
<1>12. HasBut(AllRows(O[Leaf]))'
  BY <1>1, <1>5 DEF Rewriting, HasBut
<1>13. \A m \in grown' :
         /\ m \in done' /\ r[m].new # {}
         /\ \A b \in r[m].new : \E k \in cache'[m] : k.data = Linked(b)
  <2>1. grown \subseteq Layers
    BY DEF Inv, TypeInv, TypeOK
  <2> QED BY <1>1, <1>5, <1>9, <2>1 DEF Rewriting
<1>14. Rewriting(rt, O, d, r)'
  <2>1. \A m \in Layers :
          Contents(m)' = IF m \in done' THEN Instead(O[m], d[m], Written(m, r[m])') ELSE O[m]
    BY <1>1, <1>4, <1>5, <1>11 DEF Rewriting, SameNodes
  <2>2. /\ InOrder(rt, O) /\ rt.kids # <<>>
        /\ root' = IF Mid1 \notin done' THEN rt
                   ELSE IF Mid1 \in grown' THEN RootInsert(Update(rt, r[1].node), r[1].new)
                   ELSE Update(rt, r[1].node)
        /\ \E m \in 0 .. 3 : done' = Below(m)
        /\ call'.op # "write" /\ Layers \ done' = {}
    BY <1>1, <1>5 DEF Rewriting
  <2> QED BY <1>8, <1>10, <1>12, <1>13, <2>1, <2>2 DEF Rewriting
<1>15. Updating'
  BY <1>1, <1>5, <1>14, UpdateFrom
<1>16. NamedByMax'
  BY <1>1, <1>4 DEF MapInv, NamedByMax, SameNodes
<1>17. Jobs'
  BY <1>1 DEF MapInv, Jobs
<1> QED BY <1>1, <1>3, <1>15, <1>16, <1>17, InvByPhase

(* Between the change of the nodes and finish. *)
LEMMA EndInsertIs ==
  ASSUME Inv, Inv', MapInv, EndInsert
  PROVE  /\ SameNodes /\ NodesNow' = NodesNow
         /\ UNCHANGED <<root, job, promised, kind, cache, modified>>
         /\ phase = "update" /\ phase' = "pad" /\ call.op = "none"
         /\ IF kind = "first" THEN grown = Layers ELSE done = Layers
         /\ \A l \in Layers : hand[l] = {}
         /\ Jobs' /\ NamedByMax'
         /\ job.key \in Keys /\ job.val \in Values /\ kind \in {"first", "insert"}
<1>1. /\ EndUpdate /\ UNCHANGED <<root, job, promised>>
      /\ UNCHANGED <<kind, call, cache, modified>>
      /\ phase = "update" /\ phase' = "pad" /\ call.op = "none" /\ call'.op = "none"
      /\ IF kind = "first" THEN grown = Layers ELSE done = Layers
      /\ \A l \in Layers : hand[l] = {}
      /\ done' = {} /\ grown' = {}
  BY DEF EndInsert, EndUpdate, mapVars, Running, NoCall
<1>2. SameNodes
  BY <1>1, SilentSteps, Unmoved
<1>3. Jobs'
  BY <1>1 DEF MapInv, Jobs
<1>4. NamedByMax'
  BY <1>1, <1>2 DEF MapInv, NamedByMax, SameNodes
<1>5. job.key \in Keys /\ job.val \in Values /\ kind \in {"first", "insert"}
  BY <1>1 DEF MapInv, Jobs, Inv, TypeInv, TypeOK
<1> QED BY <1>1, <1>2, <1>3, <1>4, <1>5, SameNow

(* An insert leaves the layers in order, and the entries for the nodes it  *)
(* touched in caches.                                                      *)
LEMMA EndInsertInv ==
  ASSUME Inv, Inv', MapInv, kind = "insert", EndInsert
  PROVE  MapInv'
<1>1. /\ SameNodes /\ NodesNow' = NodesNow
      /\ UNCHANGED <<root, job, promised, kind, cache, modified>>
      /\ phase = "update" /\ phase' = "pad" /\ done = Layers
      /\ \A l \in Layers : hand[l] = {}
      /\ Jobs' /\ NamedByMax'
  BY EndInsertIs
<1>2. PICK rt, O, d, r : /\ d = WayTo(rt, O, job.key) /\ r = Made(d, job.key, job.val)
                         /\ Rewriting(rt, O, d, r)
                         /\ Planned(rt, O, d, r, job.key, job.val)
  BY <1>1, UpdateIs
<1>3. \A l \in Layers : r[l].new = {} \/ l \in grown
  <2>1. \A l \in Layers : l # Mid1 => l - 1 \in done
    BY <1>1, LayersAre
  <2> QED BY <1>1, <1>2, <2>1 DEF Rewriting
<1>4. \A l \in grown : r[l].new # {}
  BY <1>2 DEF Rewriting
<1>5. ASSUME NEW l \in Layers PROVE Contents(l) = Instead(O[l], d[l], Linkeds(Both(r[l])))
  <2>1. Written(l, r[l]) = Linkeds(Both(r[l]))
    BY <1>3, <1>4 DEF Written, Linkeds, Both
  <2>2. Contents(l) = Instead(O[l], d[l], Written(l, r[l]))
    BY <1>1, <1>2 DEF Rewriting
  <2> QED BY <2>1, <2>2
<1>6. ASSUME NEW l \in Layers, NEW n \in Both(r[l]) PROVE \E k \in cache[l] : k.data = Linked(n)
  <2>1. CASE n = r[l].node
    BY <1>1, <1>2, <2>1 DEF Rewriting
  <2>2. CASE n \in r[l].new
    BY <1>2, <1>3, <2>2 DEF Rewriting
  <2> QED BY <1>6, <2>1, <2>2 DEF Both
<1>7. PICK g : g = RootInsert(Update(rt, r[1].node), r[1].new)
  OBVIOUS
<1>8. root = g
  <2>1. Mid1 \in done /\ Mid1 = 1 /\ 1 \in Layers
    BY <1>1, LayersAre
  <2>2. CASE 1 \in grown
    BY <1>2, <1>7, <2>1, <2>2 DEF Rewriting
  <2>3. CASE 1 \notin grown
    <3>1. r[1].new = {} /\ root = Update(rt, r[1].node)
      BY <1>2, <1>3, <2>1, <2>3 DEF Rewriting
    <3> QED BY <1>7, <3>1 DEF RootInsert
  <2> QED BY <2>2, <2>3
<1>9. InOrder(root, NodesNow)
  <2>1. Sorted(g, Instead(O[1], d[1], Linkeds(Both(r[1]))),
                  Instead(O[2], d[2], Linkeds(Both(r[2]))),
                  Instead(O[3], d[3], Linkeds(Both(r[3]))))
    BY <1>2, <1>7 DEF Planned, Remade
  <2>2. Sorted(root, Contents(1), Contents(2), Contents(3))
    BY <1>5, <1>8, <2>1, LayersAre
  <2> QED BY <2>2 DEF InOrder, NodesNow
<1>10. Has(AllRows(Contents(Leaf)))
  <2>1. PICK X, Y, k, v : X = Contents(3) /\ Y = O[3] /\ k = job.key /\ v = job.val
    OBVIOUS
  <2>2. \A j : Value(AllRows(X), j) = IF j = k THEN v ELSE Value(AllRows(Y), j)
    BY <1>2, <1>5, <2>1, LayersAre DEF Planned, Remade
  <2>3. \A j \in Keys : promised[j] = IF j = k THEN v ELSE Value(AllRows(Y), j)
    BY <1>2, <2>1, LayersAre DEF Rewriting, HasBut
  <2> QED BY <2>1, <2>2, <2>3, LayersAre DEF Has
<1>11. Resting'
  <2>1. Contents(Leaf)' = Contents(Leaf)
    BY <1>1, LayersAre DEF SameNodes
  <2> QED BY <1>1, <1>9, <1>10, <2>1 DEF Resting, Has
<1>12. ASSUME NEW l \in Layers, NEW n \in Contents(l), n.max \in modified[l]
       PROVE  n.max \in Entered(ParentOf(l))
  <2>1. l \in 1 .. 3
    BY LayersAre
  <2>2. /\ d[l] \in O[l]
        /\ \A m, e \in O[l] : m.max = e.max => m = e
        /\ \A m \in O[l] \ {d[l]}, e \in Both(r[l]) : m.max # e.max
    BY <1>2, <2>1 DEF Planned, Titled
  <2>3. n.max \in {d[l].max} \union Maxes(Both(r[l]))
    BY <1>2, <1>12 DEF Rewriting
  <2>4. n \notin O[l] \ {d[l]}
    BY <2>2, <2>3 DEF Maxes
  <2>5. PICK b \in Both(r[l]) : n = Linked(b)
    BY <1>5, <2>4 DEF Instead, Linkeds
  <2>6. n.max = b.max
    BY <1>2, <2>5, PlanFacts
  <2>7. CASE l = 1
    <3>1. HasKey(root, n.max)
      BY <1>2, <1>7, <1>8, <2>5, <2>6, <2>7 DEF Planned, Titled
    <3>2. ParentOf(l) = {root}
      BY <2>7, LayersAre DEF ParentOf
    <3> QED BY <3>1, <3>2, EnteredIs
  <2>8. CASE l # 1
    <3>1. l \in 2 .. 3 /\ l - 1 \in Layers /\ l # Mid1
      BY <2>1, <2>8, LayersAre
    <3>2. PICK p \in Both(r[l - 1]) : IsMid(p) /\ HasKey(p, b.max)
      BY <1>2, <3>1 DEF Planned, Titled
    <3>3. PICK e \in cache[l - 1] : e.data = Linked(p)
      BY <1>6, <3>1
    <3>4. Linked(p).kids = p.kids
      BY <1>2, <3>1, <3>2, PlanFacts
    <3>5. HasKey(e.data, n.max)
      BY <2>6, <3>2, <3>3, <3>4 DEF HasKey
    <3>6. e.data \in ParentOf(l)
      BY <3>1 DEF ParentOf
    <3> QED BY <3>5, <3>6, EnteredIs
  <2> QED BY <2>7, <2>8
<1>13. Adopted'
  BY <1>1, <1>12 DEF Adopted, SameNodes, ParentOf, Entered
<1> QED BY <1>1, <1>11, <1>13, InvByPhase

-----------------------------------------------------------------------------
(* The first insert: its nodes, from the leaf up. *)
LEMMA FirstIs ==
  ASSUME job.key \in Keys, job.val \in Values
  PROVE  /\ \A rt \in Roots :
              rt.kids = <<>> => Sorted(RootInsert(rt, {Linked(First[1])}), {Linked(First[1])},
                                       {Linked(First[2])}, {Linked(First[3])})
         /\ AllRows({Linked(First[3])}) = {Pair(job.key, job.val)}
         /\ \A l \in Layers : Linked(First[l]).max = First[l].max
<1>1. PICK k, v, f : k = job.key /\ v = job.val /\ f = First
  OBVIOUS
<1>2. k \in Keys /\ v \in Values /\ f = Founded(k, v)
  BY <1>1 DEF First
<1>3. ASSUME NEW rt \in Roots, rt.kids = <<>>
      PROVE  /\ Sorted(RootInsert(rt, {Linked(f[1])}), {Linked(f[1])}, {Linked(f[2])}, {Linked(f[3])})
             /\ AllRows({Linked(f[3])}) = {Pair(k, v)}
             /\ \A l \in 1 .. 3 : Linked(f[l]).max = f[l].max
  BY <1>2, <1>3, FoundedIs
<1>4. PICK rt : rt \in Roots /\ rt.kids = <<>>
  <2>1. [kids |-> <<>>, max |-> NoKey] \in Roots
    BY EmptySorted DEF Sorted
  <2>2. [kids |-> <<>>, max |-> NoKey].kids = <<>>
    OBVIOUS
  <2> QED BY <2>1, <2>2
<1>5. AllRows({Linked(f[3])}) = {Pair(k, v)} /\ \A l \in 1 .. 3 : Linked(f[l]).max = f[l].max
  BY <1>3, <1>4
<1>6. \A l \in Layers : Linked(First[l]).max = First[l].max
  BY <1>1, <1>5, LayersAre
<1>7. AllRows({Linked(First[3])}) = {Pair(job.key, job.val)}
  BY <1>1, <1>5
<1>8. ASSUME NEW q \in Roots, q.kids = <<>>
      PROVE  Sorted(RootInsert(q, {Linked(First[1])}), {Linked(First[1])},
                    {Linked(First[2])}, {Linked(First[3])})
  <2>1. Sorted(RootInsert(q, {Linked(f[1])}), {Linked(f[1])}, {Linked(f[2])}, {Linked(f[3])})
    BY <1>3, <1>8
  <2> QED BY <1>1, <2>1
<1> QED BY <1>6, <1>7, <1>8

(* The node the first insert makes next is that of the plan. *)
LEMMA FirstNodeIs ==
  ASSUME MapInv, NEW l \in Layers, phase = "update", kind = "first", grown = Below(l),
         call.op = "none"
  PROVE  FirstNode(l) = First[l]
<1>1. CASE l = 3
  BY <1>1, LayersAre DEF FirstNode, First, Founded
<1>2. CASE l # 3
  <2>1. l + 1 \in grown /\ (l + 1) - 1 \notin grown
    BY <1>2, LayersAre
  <2>2. below.node = First[l + 1]
    BY <2>1 DEF MapInv, Founding
  <2>3. l = 1 \/ l = 2
    BY <1>2, LayersAre
  <2>4. First[l] = MidInsert(NewMid, First[l + 1]).node
    BY <2>3 DEF First, Founded
  <2> QED BY <1>2, <2>2, <2>4, LayersAre DEF FirstNode
<1> QED BY <1>1, <1>2

(* A path is fetched for it. *)
LEMMA PlaceFirstInv ==
  ASSUME Inv, Inv', MapInv, NEW l \in Layers, PlaceFirst(l)
  PROVE  MapInv'
<1>1. PICK i \in Ids, x \in Data, pos \in Leaves(l) :
        [id |-> i, data |-> x] = Stored(FirstNode(l)) /\ WriteNew(l, i, x, pos)
  <2>1. PICK pos \in Leaves(l) :
          /\ Storable(FirstNode(l))
          /\ WriteNew(l, Stored(FirstNode(l)).id, Stored(FirstNode(l)).data, pos)
    BY DEF PlaceFirst
  <2> QED BY <2>1 DEF Storable, Stored
<1>2. /\ kind = "first" /\ grown = Below(l)
      /\ UNCHANGED <<root, job, promised>> /\ below'.node = FirstNode(l)
  BY DEF PlaceFirst
<1>3. /\ phase = "update" /\ call.op = "none"
      /\ UNCHANGED <<phase, kind, done, grown, cache, hand>>
      /\ call' = [op |-> "write", layer |-> l, node |-> [id |-> i, pos |-> pos, data |-> x]]
      /\ modified' = [modified EXCEPT ![l] = @ \union {i}]
  BY <1>1 DEF WriteNew, Touch, Running, NoCall
<1>4. SameNodes /\ NodesNow' = NodesNow
  <2>1. pos \in Leaves(l) \union LeavesOf(SplitDepth[l])
    OBVIOUS
  <2> QED BY <1>1, <2>1, SilentSteps, Unmoved, SameNow
<1>5. FirstNode(l) = First[l]
  BY <1>2, <1>3, FirstNodeIs
<1>6. job.key \in Keys /\ job.val \in Values
  BY <1>2, <1>3 DEF MapInv, Jobs
<1>7. x = Linked(First[l]) /\ i = First[l].max /\ x.max = i
  BY <1>1, <1>5, <1>6, FirstIs DEF Stored
<1>8. /\ call'.op = "write" /\ call'.layer = l /\ call'.node.id = i /\ call'.node.data = x
  BY <1>3
<1>9. First' = First
  BY <1>2 DEF First
<1> HIDE DEF First
<1>10. /\ HasBut({}) /\ done = {}
       /\ \A m \in Layers : Contents(m) = IF m \in grown THEN {Linked(First[m])} ELSE {}
       /\ IF Mid1 \in grown THEN InOrder(root, NodesNow) ELSE root \in Roots /\ root.kids = <<>>
       /\ \E m \in 0 .. 3 : grown = Below(m)
       /\ \A m \in grown : \E n \in cache[m] : n.data = Linked(First[m])
       /\ \A m \in Layers : modified[m] \subseteq {First[m].max}
  BY <1>2, <1>3 DEF MapInv, Founding
<1>11. Founding'
  <2>1. HasBut({})'
    BY <1>2, <1>10 DEF HasBut
  <2>2. \A m \in Layers : Contents(m)' = IF m \in grown' THEN {Linked(First[m])} ELSE {}
    BY <1>3, <1>4, <1>10 DEF SameNodes
  <2>3. \A m \in Layers : modified'[m] \subseteq {First[m].max}
    BY <1>3, <1>7, <1>10 DEF Inv, TypeInv, TypeOK
  <2>4. /\ IF Mid1 \in grown' THEN InOrder(root, NodesNow)' ELSE root' \in Roots /\ root'.kids = <<>>
        /\ \E m \in 0 .. 3 : grown' = Below(m)
        /\ \A m \in grown' : \E n \in cache'[m] : n.data = Linked(First[m])
        /\ done' = {}
    BY <1>2, <1>3, <1>4, <1>10
  <2>5. call'.op = "write" /\ grown' = Below(call'.layer)
        /\ call'.node.data = Linked(First[call'.layer]) /\ below'.node = First[call'.layer]
    BY <1>2, <1>3, <1>5, <1>7, <1>8
  <2> QED BY <1>9, <2>1, <2>2, <2>3, <2>4, <2>5 DEF Founding
<1>12. NamedByMax'
  BY <1>4, <1>7, <1>8 DEF MapInv, NamedByMax, SameNodes
<1>13. Jobs'
  BY <1>2, <1>3 DEF MapInv, Jobs
<1> QED BY <1>2, <1>3, <1>11, <1>12, <1>13, InvByPhase

(* It is there, and the root has an entry for the topmost of them. *)
LEMMA PlacedFirstInv ==
  ASSUME Inv, Inv', MapInv, kind = "first", ReceivePlaced
  PROVE  MapInv'
<1>1. /\ ReceiveWrite /\ UNCHANGED <<job, below, promised>> /\ call.op = "write"
      /\ UNCHANGED <<phase, kind, done, hand, modified>>
      /\ grown' = grown \union {call.layer} /\ call'.op = "none"
  BY DEF ReceivePlaced, ReceiveWrite, Answers, NoCall
<1>2. phase = "update"
  BY <1>1 DEF Inv, Phases, TypeInv, TypeOK
<1>3. PICK l, n : l = call.layer /\ n = call.node
  OBVIOUS
<1>4. /\ l \in Layers
      /\ Contents(l)' = Contents(l) \union {n.data}
      /\ \A m \in Layers \ {l} : Contents(m)' = Contents(m)
      /\ \A m \in Layers : \A e \in Content(m)' : e.id = e.data.max
      /\ \A m \in Layers : cache[m] \subseteq cache'[m]
      /\ n \in cache'[l]
  BY <1>1, <1>3, Adds DEF MapInv
<1>5. job.key \in Keys /\ job.val \in Values
  BY <1>2 DEF MapInv, Jobs
<1>6. First' = First
  BY <1>1 DEF First
<1>7. /\ \A rt \in Roots :
           rt.kids = <<>> => Sorted(RootInsert(rt, {Linked(First[1])}), {Linked(First[1])},
                                    {Linked(First[2])}, {Linked(First[3])})
  BY <1>5, FirstIs
<1> HIDE DEF First
<1>8. /\ HasBut({}) /\ done = {}
      /\ \A m \in Layers : Contents(m) = IF m \in grown THEN {Linked(First[m])} ELSE {}
      /\ IF Mid1 \in grown THEN InOrder(root, NodesNow) ELSE root \in Roots /\ root.kids = <<>>
      /\ \A m \in grown : \E k \in cache[m] : k.data = Linked(First[m])
      /\ \A m \in Layers : modified[m] \subseteq {First[m].max}
      /\ grown = Below(l) /\ n.data = Linked(First[l]) /\ below.node = First[l]
  BY <1>1, <1>2, <1>3 DEF MapInv, Founding
<1>9. /\ grown' = Below(l - 1) /\ l \notin grown /\ l - 1 \in 0 .. 3
      /\ \A m \in Below(l) : m \in Layers /\ m - 1 \in Below(l - 1)
      /\ Mid1 \notin grown
  BY <1>1, <1>3, <1>4, <1>8, BelowIs, LayersAre
<1>10. \A m \in Layers : Contents(m)' = IF m \in grown' THEN {Linked(First[m])} ELSE {}
  BY <1>1, <1>3, <1>4, <1>8, <1>9
<1>11. IF Mid1 \in grown' THEN InOrder(root, NodesNow)' ELSE root' \in Roots /\ root'.kids = <<>>
  <2>1. CASE l = 1
    <3>1. grown' = Layers /\ l = Mid1
      BY <1>9, <2>1, LayersAre
    <3>2. root.kids = <<>> /\ root \in Roots /\ Len(root.kids) < P1
      BY <1>8, <1>9, MapBounds
    <3>3. root' = RootInsert(root, {Linked(First[1])})
      BY <1>3, <1>8, <2>1, <3>1, <3>2 DEF ReceivePlaced
    <3>4. /\ Contents(1)' = {Linked(First[1])} /\ Contents(2)' = {Linked(First[2])}
          /\ Contents(3)' = {Linked(First[3])}
      BY <1>10, <3>1, LayersAre
    <3>5. NodesNow' = <<{Linked(First[1])}, {Linked(First[2])}, {Linked(First[3])}>>
      BY <3>4 DEF NodesNow
    <3>6. Sorted(root', {Linked(First[1])}, {Linked(First[2])}, {Linked(First[3])})
      BY <1>7, <3>2, <3>3
    <3>7. PICK q, a, b, c : /\ q = root' /\ a = {Linked(First[1])} /\ b = {Linked(First[2])}
                            /\ c = {Linked(First[3])}
      OBVIOUS
    <3>8. InOrder(q, <<a, b, c>>)
      BY <3>6, <3>7 DEF InOrder
    <3> QED BY <3>1, <3>5, <3>7, <3>8, LayersAre
  <2>2. CASE l # 1
    <3>1. root' = root /\ Mid1 \notin grown'
      BY <1>1, <1>3, <1>9, <2>2, LayersAre DEF ReceivePlaced
    <3> QED BY <1>8, <1>9, <3>1
  <2> QED BY <2>1, <2>2
<1>12. \A m \in grown' : /\ \E k \in cache'[m] : k.data = Linked(First[m])
                         /\ m - 1 \notin grown' /\ call'.op # "write" => below'.node = First[m]
  <2>1. grown \subseteq Layers
    BY DEF Inv, TypeInv, TypeOK
  <2> QED BY <1>1, <1>3, <1>4, <1>8, <1>9, <2>1
<1>13. HasBut({})'
  BY <1>1, <1>8 DEF HasBut
<1>14. Founding'
  BY <1>1, <1>6, <1>8, <1>9, <1>10, <1>11, <1>12, <1>13 DEF Founding
<1>15. NamedByMax'
  BY <1>1, <1>4 DEF NamedByMax
<1>16. Jobs'
  BY <1>1, <1>2 DEF MapInv, Jobs
<1> QED BY <1>1, <1>2, <1>14, <1>15, <1>16, InvByPhase

(* The entries of the layer above are the names of the nodes. *)
LEMMA EntriesOf ==
  ASSUME InOrder(root, NodesNow), NEW l \in Layers, NEW x
  PROVE  x \in Entered(Parents(l)) <=> x \in Maxes(Contents(l))
<1>1. PICK m1, m2, ls : m1 = Contents(1) /\ m2 = Contents(2) /\ ls = Contents(3)
  OBVIOUS
<1>2. Sorted(root, m1, m2, ls)
  BY <1>1 DEF InOrder, NodesNow
<1>3. /\ AllRows({root}) = Names(m1) /\ AllRows(m1) = Names(m2) /\ AllRows(m2) = Names(ls)
      /\ Rows(root) = root.kids
  BY <1>2 DEF Sorted, Roots, Rows
<1>4. (\A n \in m1 : Rows(n) = n.kids) /\ (\A n \in m2 : Rows(n) = n.kids)
  BY <1>2, SortedFacts, MidFacts
<1>5. ASSUME NEW P, \A p \in P : Rows(p) = p.kids, NEW X, AllRows(P) = Names(X)
      PROVE  x \in Entered(P) <=> x \in Maxes(X)
  BY <1>5, EntriesAre, EnteredIs
<1>6. CASE l = 1
  <2>1. Parents(l) = {root} /\ Contents(l) = m1 /\ \A p \in {root} : Rows(p) = p.kids
    BY <1>1, <1>3, <1>6, LayersAre DEF Parents
  <2>2. x \in Entered({root}) <=> x \in Maxes(m1)
    BY <1>3, <1>5, <2>1
  <2> QED BY <2>1, <2>2
<1>7. CASE l = 2
  <2>1. Parents(l) = m1 /\ Contents(l) = m2
    BY <1>1, <1>7, LayersAre DEF Parents
  <2>2. x \in Entered(m1) <=> x \in Maxes(m2)
    BY <1>3, <1>4, <1>5
  <2> QED BY <2>1, <2>2
<1>8. CASE l = 3
  <2>1. Parents(l) = m2 /\ Contents(l) = ls
    BY <1>1, <1>8, LayersAre DEF Parents
  <2>2. x \in Entered(m2) <=> x \in Maxes(ls)
    BY <1>3, <1>4, <1>5
  <2> QED BY <2>1, <2>2
<1> QED BY <1>6, <1>7, <1>8, LayersAre

(* A map of one pair. *)
LEMMA EndFirstInv ==
  ASSUME Inv, Inv', MapInv, kind = "first", EndInsert
  PROVE  MapInv'
<1>1. /\ SameNodes /\ NodesNow' = NodesNow
      /\ UNCHANGED <<root, job, promised, kind, cache, modified>>
      /\ phase = "update" /\ phase' = "pad" /\ grown = Layers
      /\ Jobs' /\ NamedByMax'
      /\ job.key \in Keys /\ job.val \in Values
  BY EndInsertIs
<1>2. /\ HasBut({})
      /\ \A m \in Layers : Contents(m) = {Linked(First[m])}
      /\ InOrder(root, NodesNow)
      /\ \A m \in Layers : \E n \in cache[m] : n.data = Linked(First[m])
  <2> HIDE DEF First
  <2> QED BY <1>1, LayersAre DEF MapInv, Founding
<1>3. AllRows(Contents(Leaf)) = {Pair(job.key, job.val)}
  BY <1>1, <1>2, FirstIs, LayersAre
<1> HIDE DEF First
<1>4. Has(AllRows(Contents(Leaf)))
  <2>1. Pair(job.key, job.val).key = job.key /\ Pair(job.key, job.val).val = job.val
    BY DEF Pair
  <2>2. \A j : Value({Pair(job.key, job.val)}, j) = IF j = job.key THEN job.val ELSE -1
    BY <2>1 DEF Value
  <2> QED BY <1>2, <1>3, <2>2, NoPairs DEF Has, HasBut
<1>5. Resting'
  <2>1. Contents(Leaf)' = Contents(Leaf)
    BY <1>1, LayersAre DEF SameNodes
  <2> QED BY <1>1, <1>2, <1>4, <2>1 DEF Resting, Has
<1>6. ASSUME NEW l \in Layers, NEW n \in Contents(l) PROVE n.max \in Entered(ParentOf(l))
  <2>1. n.max \in Entered(Parents(l))
    BY <1>2, EntriesOf DEF Maxes
  <2>2. Parents(l) \subseteq ParentOf(l)
    <3>1. CASE l = Mid1
      BY <3>1 DEF Parents, ParentOf
    <3>2. CASE l # Mid1
      <4>1. l - 1 \in Layers
        BY <3>2, LayersAre
      <4>2. PICK e \in cache[l - 1] : e.data = Linked(First[l - 1])
        BY <1>2, <4>1
      <4> QED BY <1>2, <3>2, <4>1, <4>2 DEF Parents, ParentOf
    <3> QED BY <3>1, <3>2
  <2> QED BY <2>1, <2>2 DEF Entered
<1>7. Adopted'
  BY <1>1, <1>6 DEF Adopted, SameNodes, ParentOf, Entered
<1> QED BY <1>1, <1>5, <1>7, InvByPhase

-----------------------------------------------------------------------------
(* finish moves nodes, and draws positions; the nodes stay what they are. *)
LEMMA FinishKeeps ==
  ASSUME MapInv, phase \in {"pad", "evict"}, SameNodes, UNCHANGED <<root, promised>>,
         Jobs', call'.op # "write", phase' \in {"pad", "evict", "idle"},
         phase' = "pad" =>
           /\ phase = "pad" /\ UNCHANGED modified
           /\ \A l \in Layers : \A n \in cache[l] : \E m \in cache'[l] : m.data = n.data
  PROVE  MapInv'
<1>1. InOrder(root, NodesNow) /\ Has(AllRows(Contents(Leaf)))
  BY DEF MapInv, Resting
<1>2. NodesNow' = NodesNow /\ Contents(Leaf)' = Contents(Leaf)
  BY SameNow, LayersAre DEF SameNodes
<1>3. Resting'
  BY <1>1, <1>2 DEF Resting, Has
<1>4. NamedByMax'
  BY DEF MapInv, NamedByMax, SameNodes
<1>5. ASSUME phase' = "pad" PROVE Adopted'
  <2> SUFFICES ASSUME NEW l \in Layers, NEW n \in Contents(l), n.max \in modified[l]
               PROVE  n.max \in Entered(ParentOf(l)')
    BY <1>5 DEF Adopted, SameNodes, Entered
  <2>1. n.max \in Entered(ParentOf(l))
    BY <1>5 DEF MapInv, Adopted
  <2>2. ParentOf(l) \subseteq ParentOf(l)'
    <3>1. l # Mid1 => l - 1 \in Layers
      BY LayersAre
    <3> QED BY <1>5, <3>1 DEF ParentOf
  <2> QED BY <2>1, <2>2 DEF Entered
<1> QED BY <1>3, <1>4, <1>5, InvByPhase

(* The request for a path nobody needs. *)
LEMMA PadInv ==
  ASSUME Inv, Inv', MapInv, UNCHANGED mapVars, NEW l \in Layers, NEW leaf \in Leaves(l), Pad(l, leaf)
  PROVE  MapInv'
<1>1. /\ phase = "pad" /\ UNCHANGED <<phase, kind, done, grown, cache, modified>>
      /\ call'.op = "pad" /\ UNCHANGED <<root, promised, job>>
  BY DEF Pad, mapVars
<1>2. SameNodes
  BY SilentSteps, Unmoved
<1>3. Jobs'
  BY <1>1 DEF MapInv, Jobs
<1> QED BY <1>1, <1>2, <1>3, FinishKeeps

(* Its answer: nodes that move to the cache. *)
LEMMA ReceivePadInv ==
  ASSUME Inv, Inv', MapInv, UNCHANGED mapVars, ReceivePad
  PROVE  MapInv'
<1>1. /\ call.op = "pad" /\ UNCHANGED <<phase, kind, done, grown, modified>>
      /\ call'.op = "none" /\ UNCHANGED <<root, promised, job>>
      /\ cache' = [cache EXCEPT ![call.layer] = Merged(call.layer, wire.blocks)]
  BY DEF ReceivePad, Answers, mapVars, NoCall
<1>2. phase = "pad"
  BY <1>1 DEF Inv, Phases, TypeInv, TypeOK
<1>3. SameNodes
  BY PadMoves, Unmoved
<1>4. Jobs'
  BY <1>1 DEF MapInv, Jobs
<1>5. \A m \in Layers : cache[m] \subseteq cache'[m]
  BY <1>1 DEF Merged, Inv, TypeInv, TypeOK
<1> QED BY <1>1, <1>2, <1>3, <1>4, <1>5, FinishKeeps

(* New positions for the nodes that were touched. *)
LEMMA RemapInv ==
  ASSUME Inv, Inv', MapInv, UNCHANGED mapVars, NEW l \in Layers, Remap(l)
  PROVE  MapInv'
<1>1. /\ phase = "pad" /\ UNCHANGED <<kind, grown, call, modified>>
      /\ call.op = "none" /\ UNCHANGED <<root, promised, job>>
      /\ phase' \in {"pad", "evict"}
      /\ phase' = "evict" => done' = {}
  BY DEF Remap, mapVars, Running, NoCall
<1>2. SameNodes
  BY RemapMoves, Unmoved
<1>3. Jobs'
  BY <1>1 DEF MapInv, Jobs
<1>4. ASSUME NEW m \in Layers, NEW n \in cache[m]
      PROVE  \E k \in cache'[m] : k.data = n.data
  <2>1. PICK new \in [IdsOf(cache[l]) \intersect modified[l] -> Leaves(l)] :
          cache' = [cache EXCEPT ![l] = {IF k.id \in DOMAIN new
                                           THEN [k EXCEPT !.pos = new[k.id]] ELSE k : k \in cache[l]}]
    BY DEF Remap
  <2>2. n \in Node /\ cache \in [Layers -> SUBSET Node]
    BY DEF Inv, TypeInv, TypeOK
  <2>3. PICK k : k = IF n.id \in DOMAIN new THEN [n EXCEPT !.pos = new[n.id]] ELSE n
    OBVIOUS
  <2>4. k.data = n.data
    BY <2>2, <2>3 DEF Node
  <2>5. CASE m = l
    <3>1. k \in cache'[l]
      BY <2>1, <2>2, <2>3, <2>5
    <3> QED BY <2>4, <2>5, <3>1
  <2>6. CASE m # l
    <3>1. cache'[m] = cache[m]
      BY <2>1, <2>2, <2>6
    <3> QED BY <3>1
  <2> QED BY <2>5, <2>6
<1> QED BY <1>1, <1>2, <1>3, <1>4, FinishKeeps

(* A bucket that is written back. *)
LEMMA EvictInv ==
  ASSUME Inv, Inv', MapInv, UNCHANGED mapVars, NEW l \in Layers, NEW d \in 0 .. Depth[l], Evict(l, d)
  PROVE  MapInv'
<1>1. /\ phase = "evict" /\ UNCHANGED <<phase, kind, done, grown, modified>>
      /\ call'.op = "evict" /\ UNCHANGED <<root, promised, job>>
  BY DEF Evict, Evicting, mapVars
<1>2. SameNodes
  BY EvictMoves, Unmoved
<1>3. Jobs'
  BY <1>1 DEF MapInv, Jobs
<1> QED BY <1>1, <1>2, <1>3, FinishKeeps

(* Its acknowledgement. *)
LEMMA ReceiveAckInv ==
  ASSUME Inv, Inv', MapInv, UNCHANGED mapVars, ReceiveAck
  PROVE  MapInv'
<1>1. /\ wire.type = "ack" /\ UNCHANGED <<phase, kind, done, grown, modified>>
      /\ call'.op = "none" /\ UNCHANGED <<root, promised, job>>
  BY DEF ReceiveAck, mapVars, NoCall
<1>2. phase = "evict"
  BY <1>1 DEF Inv, Phases, TypeInv, TypeOK, Lockstep
<1>3. SameNodes
  BY SilentSteps, Unmoved
<1>4. Jobs'
  BY <1>1 DEF MapInv, Jobs
<1> QED BY <1>1, <1>2, <1>3, <1>4, FinishKeeps

(* The end of a layer, and of the operation. *)
LEMMA EndEvictInv ==
  ASSUME Inv, Inv', MapInv, UNCHANGED <<root, promised>>, NEW l \in Layers, EndEvict(l),
         l # Leaf => UNCHANGED job
  PROVE  MapInv'
<1>1. /\ phase = "evict" /\ done = Above(l) /\ UNCHANGED <<kind, grown, call>>
      /\ call.op = "none" /\ modified' = [modified EXCEPT ![l] = {}]
      /\ IF Bottom(l) THEN phase' = "idle" /\ done' = {}
                      ELSE done' = done \union {l} /\ phase' = phase
  BY DEF EndEvict, Evicting, Running, NoCall
<1>2. SameNodes
  BY SilentSteps, Unmoved
<1>3. \A m \in done \union {l} : modified'[m] = {}
  BY <1>1 DEF MapInv, Jobs, Inv, TypeInv, TypeOK
<1>4. CASE Bottom(l)
  <2>1. \A m \in Layers : modified'[m] = {}
    BY <1>1, <1>3, <1>4, LayersAre
  <2>2. Jobs'
    BY <1>1, <1>4, <2>1 DEF MapInv, Jobs
  <2> QED BY <1>1, <1>2, <1>4, <2>2, FinishKeeps
<1>5. CASE ~Bottom(l)
  <2>1. UNCHANGED job
    BY <1>5, LayersAre
  <2>2. Jobs'
    BY <1>1, <1>3, <1>5, <2>1 DEF MapInv, Jobs
  <2> QED BY <1>1, <1>2, <1>5, <2>2, FinishKeeps
<1> QED BY <1>4, <1>5

(* All of finish. *)
LEMMA FinishInv ==
  ASSUME Inv, Inv', MapInv, Finish \/ Return
  PROVE  MapInv'
<1>1. CASE Finish
  <2>1. UNCHANGED mapVars /\ UNCHANGED <<root, promised, job>>
    BY <1>1 DEF Finish, mapVars
  <2> QED BY <1>1, <2>1, PadInv, ReceivePadInv, RemapInv, EvictInv, ReceiveAckInv, EndEvictInv DEF Finish
<1>2. CASE Return
  <2>1. Leaf \in Layers /\ EndEvict(Leaf) /\ UNCHANGED <<root, promised>>
    BY <1>2, LayersAre DEF Return
  <2> QED BY <2>1, EndEvictInv
<1> QED BY <1>1, <1>2

(* What the server does, the map does not see. *)
LEMMA ServeInv ==
  ASSUME Inv, Inv', MapInv, Serve
  PROVE  MapInv'
<1>1. UNCHANGED <<clientVars, mapVars>>
  BY DEF Serve, Server, ServeFetch, ServeWrite
<1>2. SameNodes
  BY FetchMoves, WriteMoves, Unmoved DEF Serve, Server
<1> QED BY <1>1, <1>2, SameIsInv

(* Nothing changes if nothing does. *)
LEMMA StillInv ==
  ASSUME Inv, Inv', MapInv, UNCHANGED bodsVars
  PROVE  MapInv'
<1>1. UNCHANGED vars /\ UNCHANGED mapVars
  BY DEF bodsVars
<1>2. UNCHANGED <<clientVars, mapVars>> /\ wire' = wire
      /\ UNCHANGED <<pmap, answer, store, taken, cache, hand>>
  BY <1>1 DEF vars, clientVars, serverVars
<1>3. SameNodes
  <2>1. \A l \in Layers : InFlight(l)' = InFlight(l)
    BY <1>2 DEF InFlight
  <2>2. \A l \in Layers : cache'[l] \union hand'[l] \union InFlight(l)'
                            \subseteq cache[l] \union hand[l] \union InFlight(l)
    BY <1>2, <2>1
  <2>3. UNCHANGED Blocks!vars
    BY <1>2, <2>2, MovesAtClient
  <2> QED BY <2>3, Unmoved
<1> QED BY <1>2, <1>3, SameIsInv

-----------------------------------------------------------------------------
(* Every step keeps the invariant, and is a step of a map or of none. *)
LEMMA MapStep ==
  ASSUME Inv, Inv', MapInv, OrderKept', [NextMap]_bodsVars
  PROVE  MapInv' /\ [Map!Next]_(Map!vars)
<1>1. CASE UNCHANGED bodsVars
  <2>1. UNCHANGED Map!vars
    BY <1>1 DEF bodsVars, mapVars, Map!vars
  <2> QED BY <1>1, <2>1, StillInv
<1>2. ASSUME NEW k \in Keys, SearchMap(k) PROVE MapInv' /\ [Map!Next]_(Map!vars)
  <2>1. UNCHANGED Map!vars
    BY <1>2 DEF SearchMap, Map!vars
  <2> QED BY <1>2, <2>1, SearchMapInv
<1>3. ASSUME NEW k \in Keys, NEW v \in Values, InsertMap(k, v)
      PROVE  MapInv' /\ [Map!Next]_(Map!vars)
  <2>1. Map!InsertMap(k, v)
    BY <1>3 DEF InsertMap, Map!InsertMap
  <2>2. Map!Next
    BY <2>1 DEF Map!Next
  <2> QED BY <1>3, <2>2, InsertMapInv
<1>4. ASSUME NEW l \in Layers, Read(l) PROVE MapInv' /\ [Map!Next]_(Map!vars)
  BY <1>4, ReadMapInv
<1>5. ASSUME NEW l \in Layers, ChangeNode(l) \/ PlaceFirst(l) \/ PlaceSplit(l) \/ PutBack(l)
      PROVE  MapInv' /\ [Map!Next]_(Map!vars)
  <2>1. MapInv'
    BY <1>5, ChangeNodeInv, PlaceFirstInv, PlaceSplitInv, PutBackInv
  <2>2. UNCHANGED Map!vars
    BY <1>5 DEF ChangeNode, PlaceFirst, PlaceSplit, PutBack, mapVars, Map!vars
  <2> QED BY <2>1, <2>2
<1>6. CASE ReceiveNode
  BY <1>6, ReceiveNodeInv
<1>7. CASE ReceivePlaced \/ EndInsert
  <2>1. kind \in {"first", "insert"}
    <3>1. phase = "update"
      BY <1>7 DEF ReceivePlaced, ReceiveWrite, Answers, EndInsert, EndUpdate, Inv, Phases, TypeInv, TypeOK
    <3> QED BY <3>1 DEF MapInv, Jobs, Inv, TypeInv, TypeOK
  <2>2. MapInv'
    BY <1>7, <2>1, PlacedFirstInv, PlacedSplitInv, EndFirstInv, EndInsertInv
  <2>3. UNCHANGED Map!vars
    BY <1>7 DEF ReceivePlaced, EndInsert, mapVars, Map!vars
  <2> QED BY <2>2, <2>3
<1>8. CASE Finish \/ Return \/ Serve
  <2>1. MapInv'
    BY <1>8, FinishInv, ServeInv
  <2>2. UNCHANGED Map!vars
    BY <1>8 DEF Finish, Return, Serve, mapVars, Map!vars
  <2> QED BY <2>1, <2>2
<1> QED BY <1>1, <1>2, <1>3, <1>4, <1>5, <1>6, <1>7, <1>8 DEF NextMap

-----------------------------------------------------------------------------
(* The theorems about the program hold as long as leafNode::Insert is      *)
(* given only what it gets right (OrderKept).                              *)

(* The invariant holds always, with that of the protocol. *)
LEMMA InvsHold ==
  SpecMap /\ []SplitsKept /\ []OrderKept => [](Inv /\ MapInv)
<1>1. InitMap => Inv /\ MapInv
  BY InitMapInv, InvInit DEF InitMap
<1>2. Inv /\ MapInv /\ SplitsKept' /\ OrderKept' /\ [NextMap]_bodsVars => (Inv /\ MapInv)'
  BY InvStep, StepsAreSteps, MapStep
<1> QED BY <1>1, <1>2, PTL DEF SpecMap

(* What insert makes of a node has a name that no other node has. *)
LEMMA NamesAreFree ==
  ASSUME Inv, MapInv, phase = "update", kind = "insert", NEW l \in Layers
  PROVE  /\ done = Below(l) /\ (l = Leaf \/ Placed(l + 1)) =>
              \A n \in hand[l] :
                LET name == Changed(l, n.data).node.max
                IN  name = n.id \/ ~Known(l, name)
         /\ done = Below(l) \union {l} /\ l \notin grown =>
              \A n \in below.new : ~Known(l, n.max)
<1>1. PICK rt, O, d, r : /\ d = WayTo(rt, O, job.key) /\ r = Made(d, job.key, job.val)
                         /\ Rewriting(rt, O, d, r)
                         /\ Planned(rt, O, d, r, job.key, job.val)
  BY UpdateIs
<1>6. \A n \in Both(r[l]) : n.max \in Ids
  BY <1>1, PlanNames, LayersAre, KeysAreIds
<1>2. NamesKnown
  BY NamesAreKnown DEF MapInv
<1>3. /\ \A m \in O[l] \ {d[l]}, n \in Both(r[l]) : m.max # n.max
      /\ r[l].new = {} \/ \E b : r[l].new = {b} /\ b.max # r[l].node.max
  <2>1. l \in 1 .. 3 /\ Titled(O, d, r, RootInsert(Update(rt, r[1].node), r[1].new))
    BY <1>1, LayersAre DEF Planned
  <2> QED BY <2>1 DEF Titled
<1>4. ASSUME done = Below(l), NEW n \in hand[l], NEW name,
             name = Changed(l, n.data).node.max, Known(l, name)
      PROVE  name = n.id
  <2>1. n.data = d[l] /\ name = r[l].node.max
    BY <1>1, <1>4, ChangedIs
  <2>2. n.id = d[l].max
    BY <2>1, HeldIsLive DEF MapInv
  <2>3. Contents(l) = O[l]
    BY <1>1, <1>4, BelowIs DEF Rewriting
  <2>4. PICK c \in O[l] : c.max = name
    <3>1. name \in Ids
      BY <1>6, <2>1 DEF Both
    <3> QED BY <1>2, <1>4, <2>3, <3>1 DEF NamesKnown
  <2>5. c = d[l]
    BY <1>3, <2>1, <2>4 DEF Both
  <2> QED BY <2>2, <2>4, <2>5
<1>5. ASSUME done = Below(l) \union {l}, l \notin grown, NEW n \in below.new,
             Known(l, n.max)
      PROVE  FALSE
  <2>1. l \in done /\ l - 1 \notin done
    BY <1>5, BelowIs
  <2>2. below = r[l] /\ Contents(l) = Instead(O[l], d[l], {Linked(r[l].node)})
    <3>1. below = r[l]
      BY <1>1, <2>1 DEF Rewriting
    <3>2. Written(l, r[l]) = {Linked(r[l].node)}
      BY <1>5 DEF Written
    <3>3. Contents(l) = Instead(O[l], d[l], Written(l, r[l]))
      BY <1>1, <2>1 DEF Rewriting
    <3> QED BY <3>1, <3>2, <3>3
  <2>3. PICK c \in Contents(l) : c.max = n.max
    <3>1. n.max \in Ids
      BY <1>6, <1>5, <2>2 DEF Both
    <3> QED BY <1>2, <1>5, <3>1 DEF NamesKnown
  <2>4. Linked(r[l].node).max = r[l].node.max
    BY <1>1, PlanFacts
  <2>5. n \in Both(r[l]) /\ n.max # r[l].node.max
    BY <1>3, <1>5, <2>2 DEF Both
  <2> QED BY <1>3, <2>2, <2>3, <2>4, <2>5 DEF Instead
<1> QED BY <1>4, <1>5

(* client::insert and client::search keep the rules of the protocol: they  *)
(* read only names the map has an entry for, and through every split and   *)
(* renaming (Write...Node, Insert, Update) give a node only a name that no *)
(* other node of its layer has.                                            *)
THEOREM CallersKeepRules ==
  SpecMap /\ []SplitsKept /\ []OrderKept => []CallerKeepsRules
<1>1. ASSUME Inv, MapInv PROVE CallerKeepsRules
  <2>1. ASSUME NEW l \in Layers, Reading(l) PROVE Known(l, Wanted(l))
    <3>1. Wanted(l) = Aim[l].max
      BY <1>1, <2>1, WantedIs
    <3>2. Aim[l] \in Contents(l)
      BY <1>1, <2>1, AimIs DEF Reading, AimFacts
    <3> HIDE DEF Aim
    <3>3. NamesKnown
      BY <1>1, NamesAreKnown DEF MapInv
    <3> QED BY <3>1, <3>2, <3>3 DEF NamesKnown
  <2>2. ASSUME phase = "update", kind = "insert", NEW l \in Layers
        PROVE  /\ done = Below(l) /\ (l = Leaf \/ Placed(l + 1)) =>
                    \A n \in hand[l] :
                      LET name == Changed(l, n.data).node.max
                      IN  name = n.id \/ ~Known(l, name)
               /\ done = Below(l) \union {l} /\ l \notin grown =>
                    \A n \in below.new : ~Known(l, n.max)
    BY <1>1, <2>2, NamesAreFree
  <2> QED BY <2>1, <2>2 DEF CallerKeepsRules
<1> QED BY <1>1, InvsHold, PTL

(* When finish draws a new position for a node that insert or search has   *)
(* touched, the parent whose entry must take it is in its cache, whatever  *)
(* was split or renamed on the way.                                        *)
THEOREM ParentsOfMovedAreCached ==
  SpecMap /\ []SplitsKept /\ []OrderKept => []ParentsAreCached
<1>1. ASSUME Inv, MapInv, phase = "pad", NEW l \in Layers, NEW n \in cache[l],
             n.id \in modified[l]
      PROVE  n.id \in Entered(ParentOf(l))
  <2>1. n.data \in Contents(l) /\ n.id = n.data.max
    BY <1>1, HeldIsLive DEF MapInv
  <2> QED BY <1>1, <2>1 DEF MapInv, Adopted
<1>2. Inv /\ MapInv => ParentsAreCached
  BY <1>1 DEF ParentsAreCached, ParentOf
<1> QED BY <1>2, InvsHold, PTL

(* Between two calls of insert_map and search_map the childMaps of a layer *)
(* have an entry for every node of the next and for nothing else, and a    *)
(* node is known to them by its max_value and its old_max.                 *)
THEOREM EntriesAreOfNodes ==
  SpecMap /\ []SplitsKept /\ []OrderKept => []EntriesAreThoseOfNodes
<1>1. ASSUME Inv, MapInv, phase = "idle", NEW l \in Layers
      PROVE  /\ Entered(Parents(l)) = {i \in Ids : Known(l, i)}
             /\ \A n \in Live(l) : n.id = n.data.max /\ n.id = n.data.old
  <2>1. NamesKnown
    BY <1>1, NamesAreKnown DEF MapInv
  <2>2. InOrder(root, NodesNow)
    BY <1>1 DEF MapInv, Resting
  <2>3. \A x : x \in Entered(Parents(l)) <=> x \in Maxes(Contents(l))
    BY <2>2, EntriesOf
  <2>4. \A x : x \in Maxes(Contents(l)) <=> x \in Ids /\ Known(l, x)
    BY <2>1 DEF NamesKnown, Maxes
  <2>5. \A c \in Contents(l) : c.old = c.max
    <3>1. PICK m1, m2, ls : m1 = Contents(1) /\ m2 = Contents(2) /\ ls = Contents(3)
      OBVIOUS
    <3>2. Sorted(root, m1, m2, ls)
      BY <2>2, <3>1 DEF InOrder, NodesNow
    <3>3. \A c \in m1 \union m2 \union ls : c.old = c.max
      BY <3>2, SortedFacts
    <3> QED BY <3>1, <3>3, LayersAre
  <2>6. \A n \in Live(l) : n.id = n.data.max /\ n.id = n.data.old
    BY <2>1, <2>5 DEF NamesKnown
  <2>7. Entered(Parents(l)) = {i \in Ids : Known(l, i)}
    BY <2>3, <2>4
  <2> QED BY <2>6, <2>7
<1>2. Inv /\ MapInv => EntriesAreThoseOfNodes
  BY <1>1 DEF EntriesAreThoseOfNodes
<1> QED BY <1>2, InvsHold, PTL

(* The program implements a map: search_map returns the value insert_map   *)
(* was last called with for its key, or that there is none, whatever nodes *)
(* were split, moved, kept in the stash or fetched in between.             *)
THEOREM ProgramIsMap ==
  SpecMap /\ []SplitsKept /\ []OrderKept => ImplementsOMap
<1>1. InitMap => Map!Init
  BY DEF InitMap, Map!Init, Map!NoValue
<1>2. Inv /\ MapInv /\ (Inv /\ MapInv)' /\ OrderKept' /\ [NextMap]_bodsVars => [Map!Next]_(Map!vars)
  BY MapStep
<1> QED BY <1>1, <1>2, InvsHold, PTL DEF SpecMap, ImplementsOMap, Map!Spec
=============================================================================
