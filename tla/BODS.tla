-------------------------------- MODULE BODS --------------------------------
(***************************************************************************)
(* The whole program for L = 4: client::insert and client::search, with    *)
(* the operations of Nodes on the contents of nodes, over the steps of     *)
(* PathORAM.  The content of a node is its record in Nodes; the positions  *)
(* of its childMap are in pmap, so that those in the record stay Unplaced. *)
(* The names of a node are its max_value: what PathORAM calls id.          *)
(*                                                                         *)
(* An operator named X_Something, before the operator X, is a wrong X: a    *)
(* bug the properties are shown to tell from the code.                      *)
(***************************************************************************)
EXTENDS PathORAM, Nodes

ASSUME FourLayers == Layers = {1, 2, 3}
ASSUME KeysAreIds == Keys \subseteq Ids

VARIABLES
  root,      \* rootNode: kids and max
  job,       \* key and value insert_map or search_map was called with
  below,     \* what insert has made of the node it changed last, and what
             \* split off it
  promised,  \* history: the value last inserted under each key
  result     \* the key of the last search_map and what it returned

mapVars == <<root, job, below, promised, result>>
bodsVars == <<vars, mapVars>>

Leaf == 3
NoJob == [key |-> NoKey, val |-> -1]
Nothing == [node |-> {}, new |-> {}]

InitMap ==
  /\ Init
  /\ root = [kids |-> <<>>, max |-> NoKey]
  /\ job = NoJob
  /\ below = Nothing
  /\ promised = [k \in Keys |-> -1]
  /\ result = {}

(* insert_map, up to the first step of insert *)
InsertMap(k, v) ==
  /\ Begin("first") \/ Begin("insert")
  /\ job' = [key |-> k, val |-> v]
  /\ promised' = [promised EXCEPT ![k] = v]
  /\ UNCHANGED <<root, below, result>>

(* search_map, up to the first step of search *)
SearchMap(k) ==
  /\ Begin("search")
  /\ job' = [NoJob EXCEPT !.key = k]
  /\ UNCHANGED <<root, below, promised, result>>

(* The node insert and search go down from, and the name they read next.   *)
(* answer is the node of the layer above, which they have just read.       *)
Parent(l) == IF l = Mid1 THEN root ELSE (CHOOSE a \in answer : TRUE).data
Wanted(l) == Search(Parent(l), job.key).key
Reading(l) == phase = "descend" /\ done = Above(l) /\ call = NoCall

(* leafNode::Search on the leaf read last; -1 is for a key not found *)
Found(leaf, k) ==
  IF LeafSearch(leaf, k) = {} THEN -1 ELSE CHOOSE v \in LeafSearch(leaf, k) : TRUE
Returns ==
  result' = IF kind = "search" /\ phase' = "pad"
              THEN {[key |-> job.key, val |-> Found(a.data, job.key)] : a \in answer'}
              ELSE result

Read(l) ==
  /\ Reading(l)
  /\ \E i \in Ids : i = Wanted(l) /\ (ReadCached(l, i) \/ ReadRemote(l, i))
  /\ Returns
  /\ UNCHANGED <<root, job, below, promised>>

ReceiveNode ==
  /\ ReceiveRead
  /\ Returns
  /\ UNCHANGED <<root, job, below, promised>>

(* What Write...Node stores of a node: its name, and its content as it is   *)
(* once Insert or Update of the parent has seen it.  Ids and Data must have *)
(* room for what the operations make: TLC would stop at a deadlock.        *)
Stored(node) == [id |-> node.max, data |-> Linked(node)]
Storable(node) == Stored(node).id \in Ids /\ Stored(node).data \in Data

(* insert changes the node of layer l it holds: Insert of the pair in the  *)
(* leaf; in the others Update for the child changed and Insert of the one  *)
(* that split off it, if any.  root->Update comes with the topmost one.    *)
Changed(l, node) == IF l = Leaf THEN LeafInsert(node, job.key, job.val)
                  ELSE Grow(node, below)
Placed(l) == below.new = {} \/ l \in grown

ChangeNode(l) ==
  /\ done = Below(l)
  /\ l = Leaf \/ Placed(l + 1)
  /\ \E n \in hand[l] : \E r \in {Changed(l, n.data)} :
       /\ Modify(l, Stored(r.node).id, Stored(r.node).data)
       /\ Storable(r.node)
       /\ below' = r
       /\ root' = IF l = Mid1 THEN Update(root, r.node) ELSE root
  /\ UNCHANGED <<job, promised, result>>

(* The first insert makes a node of every layer, from the leaf up. *)
FirstNode(l) == IF l = Leaf THEN NewLeaf(job.key, job.val)
                ELSE MidInsert(NewMid, below.node).node

PlaceFirst(l) ==
  /\ kind = "first"
  /\ grown = Below(l)
  /\ \E pos \in Leaves(l) :
       WriteNew(l, Stored(FirstNode(l)).id, Stored(FirstNode(l)).data, pos)
  /\ Storable(FirstNode(l))
  /\ below' = [node |-> FirstNode(l), new |-> {}]
  /\ UNCHANGED <<root, job, promised, result>>

PlaceSplit(l) ==
  /\ kind = "insert"
  /\ l \notin grown
  /\ \E n \in below.new :
       /\ \E pos \in LeavesOf(SplitDepth[l]) :
            WriteNew(l, Stored(n).id, Stored(n).data, pos)
       /\ Storable(n)
  /\ UNCHANGED mapVars

(* The path for a new node has arrived; if it is the topmost, root->Insert *)
(* makes an entry for it, and nobody looks at its result.                  *)
ReceivePlaced ==
  /\ ReceiveWrite
  /\ root' = IF call.layer = Mid1 /\ Len(root.kids) < P1
               THEN RootInsert(root, {call.node.data}) ELSE root
  /\ UNCHANGED <<job, below, promised, result>>

PutBack(l) ==
  /\ Placed(Mid1)
  /\ WriteBack(l)
  /\ UNCHANGED mapVars

EndInsert ==
  /\ EndUpdate
  /\ UNCHANGED mapVars

(* finish, between two messages *)
Finish ==
  /\ \/ \E l \in Layers : \E leaf \in Leaves(l) : Pad(l, leaf)
     \/ ReceivePad
     \/ \E l \in Layers : Remap(l)
     \/ \E l \in Layers : \E d \in 0 .. Depth[l] : Evict(l, d)
     \/ ReceiveAck
     \/ \E l \in Layers \ {Leaf} : EndEvict(l)
  /\ UNCHANGED mapVars

(* the end of finish, and of insert_map or search_map *)
Return ==
  /\ EndEvict(Leaf)
  /\ job' = NoJob
  /\ below' = Nothing
  /\ UNCHANGED <<root, promised, result>>

Serve == Server /\ UNCHANGED mapVars

NextMap ==
  \/ \E k \in Keys : SearchMap(k) \/ \E v \in Values : InsertMap(k, v)
  \/ \E l \in Layers : \/ Read(l)
                       \/ ChangeNode(l)
                       \/ PlaceFirst(l)
                       \/ PlaceSplit(l)
                       \/ PutBack(l)
  \/ ReceiveNode
  \/ ReceivePlaced
  \/ EndInsert
  \/ Finish
  \/ Return
  \/ Serve

SpecMap == InitMap /\ [][NextMap]_bodsVars

(***************************************************************************)
(* Correctness                                                             *)
(***************************************************************************)

(* the nodes of layer l as the client and the server hold them, and the    *)
(* names by which the layer above knows them                               *)
Contents(l) == {n.data : n \in Live(l)}
Parents(l) == IF l = Mid1 THEN {root} ELSE Contents(l - 1)
Entered(parents) ==
  UNION {{p.kids[i].key : i \in DOMAIN p.kids} : p \in parents}

(* PathORAM asks of its caller that it reads only names the map has an      *)
(* entry for, and gives a node only a name no other of its layer has:      *)
(* client::insert and client::search do, through every split and renaming. *)
CallerKeepsRules ==
  /\ \A l \in Layers : Running /\ Reading(l) => Known(l, Wanted(l))
  /\ Running /\ phase = "update" /\ kind = "insert" =>
       \A l \in Layers :
         /\ done = Below(l) /\ (l = Leaf \/ Placed(l + 1)) =>
              \A n \in hand[l] :
                LET name == Changed(l, n.data).node.max
                IN  name = n.id \/ ~Known(l, name)
         /\ done = Below(l) \union {l} /\ l \notin grown =>
              \A n \in below.new : ~Known(l, n.max)

(* finish copies the position of a node it remaps into the entry of the    *)
(* parent only if the parent is in a cache: it always is, since it was     *)
(* read or written in the same operation.                                  *)
ParentsAreCached ==
  phase = "pad" =>
    \A l \in Layers : \A n \in cache[l] :
      n.id \in modified[l] =>
        n.id \in Entered(IF l = Mid1 THEN {root}
                         ELSE {p.data : p \in cache[l - 1]})

(* Between operations the positions the protocol goes by are those of the  *)
(* entries in the nodes themselves, wherever these are, and a node is      *)
(* stored under its max_value.                                             *)
EntriesAreThoseOfNodes ==
  phase = "idle" =>
    \A l \in Layers :
      /\ Entered(Parents(l)) = {i \in Ids : Known(l, i)}
      /\ \A n \in Live(l) : n.id = n.data.max /\ n.id = n.data.old

(* insert_map and search_map are those of a map, over the protocol: what a *)
(* search returns is what was inserted last under its key, whatever nodes  *)
(* were split, moved, kept in the stash or fetched in between.             *)
Map == INSTANCE OMap WITH map <- promised
ImplementsOMap == Map!Spec
=============================================================================
