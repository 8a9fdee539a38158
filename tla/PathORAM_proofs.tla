--------------------------- MODULE PathORAM_proofs ---------------------------
(***************************************************************************)
(* Proofs about PathORAM, for every value of its constants: its types (1), *)
(* its invariant and what follows from it (2), and that it implements      *)
(* BlockStore (3).                                                         *)
(*                                                                         *)
(* That nodes are kept is proved by places.  A step either leaves a layer  *)
(* as it is (Stay), or moves nodes of one layer between places             *)
(* (MovedWithin, Gathered), or changes the position, the id or the         *)
(* existence of a single node (Modify, Remap, ReceiveWrite).  A fetch      *)
(* makes the buckets it reads dead and puts what they held on the          *)
(* connection; Counting says that the server leaves out exactly the dead   *)
(* ones, so nothing is sent twice.  The answer is merged into the cache;   *)
(* Located and Books say that the node asked for is in it: the node is on  *)
(* the path of its position, and every bucket of that path was either      *)
(* taken before, so that its nodes are in the cache, or is in the answer   *)
(* (ReadFinds).                                                            *)
(*                                                                         *)
(* The stored content of a layer is that of its live nodes.  NoNodeLost    *)
(* says of the states before and after a step that the live nodes of a     *)
(* layer are one for every known id; so a step that makes no id known and  *)
(* brings no content that was not there leaves the stored content as it is *)
(* (Unchanged): that it loses none follows.  Only reading, Modify and      *)
(* ReceiveWrite are more than that.                                        *)
(***************************************************************************)
EXTENDS PathORAM_inv, PathTree_proofs

(* Every path of a tree lies in it. *)
LEMMA PathsInTree ==
  \A l \in Layers : \A leaf \in Leaves(l) : Path(l, leaf) \subseteq Buckets(l)
<1> SUFFICES ASSUME NEW l \in Layers, NEW leaf \in Leaves(l)
             PROVE  Path(l, leaf) \subseteq Buckets(l)
  OBVIOUS
<1>1. PICK depth : depth = Depth[l]
  OBVIOUS
<1>2. depth \in Nat /\ leaf \in LeavesOf(depth)
  BY <1>1, TreesAssumption DEF Leaves
<1>3. PathBuckets(depth, leaf) \subseteq 0 .. BucketCount(depth) - 1
  BY <1>2, PathLiesInTree
<1> QED BY <1>1, <1>3 DEF Path, Buckets

-----------------------------------------------------------------------------
(* A condition on behaviours: a split has given its new node a position of *)
(* the tree it inserts into.  Where SplitDepth is Depth it has no other    *)
(* choice (SplitsInRange); where it is not, as in the code for midNode1,   *)
(* the condition holds up to the first split that draws another position,  *)
(* and so does what is proved of the behaviours that keep it.              *)
SplitsKept ==
  SplitsInRange \/ (call.op = "write" => call.node.pos \in Leaves(call.layer))

-----------------------------------------------------------------------------
(* 1. Types *)

LEMMA LeavesNat == \A l \in Layers : Leaves(l) \subseteq Nat
BY DEF Leaves, LeavesOf

LEMMA BucketsNat == \A l \in Layers : Buckets(l) \subseteq Nat
BY DEF Buckets

LEMMA TypeInit == Init => TypeInv
<1> SUFFICES ASSUME Init PROVE TypeInv
  OBVIOUS
<1>1. TypeOK
  BY DEF Init, TypeOK, Call, Message, NoCall, Silence, NoPos
<1>2. InRange
  BY DEF Init, InRange, NoCall, Silence, Tree, NodeIn
<1>3. Lockstep
  BY DEF Init, Lockstep, NoCall, Silence
<1> QED
  BY <1>1, <1>2, <1>3 DEF TypeInv

LEMMA TypeBegin ==
  ASSUME TypeInv, NEW k \in {"first", "insert", "search"}, Begin(k)
  PROVE  TypeInv'
BY DEF TypeInv, TypeOK, InRange, Lockstep, Begin, serverVars, NodeIn

(* what Deliver leaves in the variables it changes *)
Delivered ==
  /\ phase' \in {"idle", "descend", "update", "pad", "evict"}
  /\ done' \in SUBSET Layers
  /\ answer' \in SUBSET [layer : Layers, id : Ids, data : Data]
  /\ cache' \in [Layers -> SUBSET Node]
  /\ hand' \in [Layers -> SUBSET Node]
  /\ modified' \in [Layers -> SUBSET Ids]
  /\ \A m \in Layers : cache'[m] \subseteq NodeIn(m)
  /\ \A m \in Layers : hand'[m] \subseteq NodeIn(m)

LEMMA TypeDeliver ==
  ASSUME TypeInv, NEW l \in Layers, NEW n \in NodeIn(l),
         NEW c \in SUBSET NodeIn(l), Deliver(l, n, c)
  PROVE  Delivered
<1> USE DEF NodeIn, Delivered
<1>1. n \in Node /\ n.id \in Ids /\ n.data \in Data
  BY DEF Node
<1>2. /\ answer' \in SUBSET [layer : Layers, id : Ids, data : Data]
      /\ modified' \in [Layers -> SUBSET Ids]
      /\ phase' \in {"idle", "descend", "update", "pad", "evict"}
      /\ done' \in SUBSET Layers
  BY <1>1 DEF TypeInv, TypeOK, Deliver, Touch
<1>3. CASE kind = "insert"
  <2>1. /\ cache' = [cache EXCEPT ![l] = c \ Named(c, n.id)]
        /\ hand' = [hand EXCEPT ![l] = {n}]
    BY <1>3 DEF Deliver
  <2> QED
    BY <1>1, <1>2, <2>1 DEF TypeInv, TypeOK, InRange, Lockstep, Named
<1>4. CASE kind # "insert"
  <2>1. /\ cache' = [cache EXCEPT ![l] = (c \ Named(c, n.id)) \union {n}]
        /\ hand' = hand
    BY <1>4 DEF Deliver
  <2> QED
    BY <1>1, <1>2, <2>1 DEF TypeInv, TypeOK, InRange, Lockstep, Named
<1> QED
  BY <1>3, <1>4

LEMMA TypeReadCached ==
  ASSUME TypeInv, NEW l \in Layers, NEW i \in Ids, ReadCached(l, i)
  PROVE  TypeInv'
<1>1. PICK n \in Named(cache[l], i) :
        Deliver(l, [n EXCEPT !.pos = IF l = Mid1 THEN n.pos ELSE pmap[l][i]],
                cache[l])
  BY DEF ReadCached
<1> DEFINE m == [n EXCEPT !.pos = IF l = Mid1 THEN n.pos ELSE pmap[l][i]]
<1>2. n \in NodeIn(l) /\ cache[l] \in SUBSET NodeIn(l)
  BY DEF TypeInv, InRange, Named
<1>3. pmap[l][i] \in Leaves(l)
  BY DEF ReadCached, Descends, Known, TypeInv, InRange
<1>4. m \in NodeIn(l)
  BY <1>2, <1>3, LeavesNat DEF NodeIn, Node
<1> HIDE DEF m
<1>5. Delivered
  BY <1>1, <1>2, <1>4, TypeDeliver DEF m
<1> QED
  BY <1>5 DEF Delivered, TypeInv, TypeOK, InRange, Lockstep, ReadCached, Descends, Running, serverVars

LEMMA TypeReadRemote ==
  ASSUME TypeInv, NEW l \in Layers, NEW i \in Ids, ReadRemote(l, i)
  PROVE  TypeInv'
<1>1. pmap[l][i] \in Leaves(l) /\ pmap[l][i] \in Nat
  BY LeavesNat DEF ReadRemote, Descends, Known, TypeInv, InRange
<1>2. /\ call' \in Call
      /\ call' = [op |-> "read", layer |-> l, id |-> i, leaf |-> pmap[l][i]]
  BY <1>1 DEF ReadRemote, Call
<1>3. /\ wire' \in Message
      /\ wire' = [type |-> "fetch", layer |-> l, leaf |-> pmap[l][i]]
  BY <1>1 DEF ReadRemote, SendFetch, Message
<1>4. /\ readCnt' \in [Layers -> Nat]
      /\ exposed' \in [Layers -> SUBSET Ids]
  BY DEF ReadRemote, SendFetch, TypeInv, TypeOK
<1> QED
  BY <1>1, <1>2, <1>3, <1>4 DEF TypeInv, TypeOK, InRange, Lockstep, ReadRemote, serverVars

LEMMA MergedIn ==
  ASSUME TypeInv, wire.type = "path"
  PROVE  /\ call.layer \in Layers
         /\ Merged(call.layer, wire.blocks) \in SUBSET NodeIn(call.layer)
<1>1. call.layer = wire.layer /\ call.op \in {"read", "write", "pad"}
  BY DEF TypeInv, Lockstep
<1>2. call.layer \in Layers
  BY <1>1 DEF TypeInv, TypeOK, Call, NoCall
<1> QED
  BY <1>1, <1>2 DEF TypeInv, InRange, Merged

LEMMA TypeReceiveRead ==
  ASSUME TypeInv, ReceiveRead
  PROVE  TypeInv'
<1> DEFINE l == call.layer
           c == Merged(l, wire.blocks)
<1>1. /\ wire.type = "path" /\ call.op = "read"
      /\ wire' = Silence /\ call' = NoCall
  BY DEF ReceiveRead, Answers
<1>2. l \in Layers /\ call.leaf \in Leaves(l) /\ call.leaf \in Nat
  BY <1>1, LeavesNat DEF TypeInv, TypeOK, InRange, Lockstep, Call, NoCall
<1>3. c \in SUBSET NodeIn(l)
  BY <1>1, <1>2, MergedIn
<1>4. wire' \in Message /\ call' \in Call
  BY <1>1 DEF Message, Call
<1>5. CASE Named(c, call.id) # {}
  <2>1. /\ \E n \in Named(c, call.id) : Deliver(l, [n EXCEPT !.pos = call.leaf], c)
        /\ leafList' = [leafList EXCEPT ![l] = @ \union {call.leaf}]
        /\ UNCHANGED crashed
    BY <1>5 DEF ReceiveRead
  <2>2. PICK n \in Named(c, call.id) : Deliver(l, [n EXCEPT !.pos = call.leaf], c)
    BY <2>1
  <2>3. [n EXCEPT !.pos = call.leaf] \in NodeIn(l)
    BY <1>2, <1>3 DEF Named, NodeIn, Node
  <2>4. Delivered
    BY <1>2, <1>3, <2>2, <2>3, TypeDeliver
  <2> QED
    BY <1>1, <1>2, <1>4, <2>1, <2>4, ZenonT(60)
    DEF Delivered, TypeInv, TypeOK, InRange, Lockstep, ReceiveRead, serverVars, NoCall, Silence
<1>6. CASE Named(c, call.id) = {}
  <2>1. /\ cache' = [cache EXCEPT ![l] = c]
        /\ crashed' = {"client"}
        /\ UNCHANGED <<answer, hand, modified, done, phase, leafList>>
    BY <1>6 DEF ReceiveRead
  <2>2. c \in SUBSET Node
    BY <1>3 DEF NodeIn
  <2> QED
    BY <1>1, <1>2, <1>3, <1>4, <2>1, <2>2
    DEF TypeInv, TypeOK, InRange, Lockstep, ReceiveRead, serverVars, NoCall, Silence
<1> QED
  BY <1>5, <1>6

LEMMA TypeModify ==
  ASSUME TypeInv, NEW l \in Layers, NEW i \in Ids, NEW x \in Data, Modify(l, i, x)
  PROVE  TypeInv'
<1> DEFINE M(n) == [n EXCEPT !.id = i, !.data = x]
<1>1. PICK n \in hand[l] :
        /\ pmap' = [pmap EXCEPT ![l] = Renamed(@, n.id, i)]
        /\ exposed' = [exposed EXCEPT ![l] = {IF j = n.id THEN i ELSE j : j \in @}]
        /\ IF Bottom(l)
             THEN /\ hand' = [hand EXCEPT ![l] = {}]
                  /\ cache' = [cache EXCEPT ![l] = (@ \ Named(@, i)) \union {M(n)}]
                  /\ Touch(l, i)
             ELSE /\ hand' = [hand EXCEPT ![l] = {M(n)}]
                  /\ UNCHANGED <<cache, modified>>
  BY DEF Modify
<1>2. n \in NodeIn(l) /\ n.id \in Ids /\ M(n) \in NodeIn(l) /\ M(n) \in Node
  <2>1. n \in NodeIn(l)
    BY DEF TypeInv, InRange
  <2> QED
    BY <2>1 DEF NodeIn, Node
<1> HIDE DEF M
<1>3. /\ pmap' \in [Layers -> [Ids -> Nat \union {NoPos}]]
      /\ \A k \in Layers, j \in Ids : pmap'[k][j] \in Leaves(k) \union {NoPos}
  <2>1. pmap' = [pmap EXCEPT ![l] = Renamed(@, n.id, i)]
    BY <1>1
  <2>2. /\ Renamed(pmap[l], n.id, i) \in [Ids -> Nat \union {NoPos}]
        /\ \A j \in Ids : Renamed(pmap[l], n.id, i)[j] \in Leaves(l) \union {NoPos}
    BY <1>2 DEF TypeInv, TypeOK, InRange, Lockstep, Renamed
  <2> QED
    BY <2>1, <2>2 DEF TypeInv, TypeOK, InRange
<1>4. exposed' \in [Layers -> SUBSET Ids]
  <2>1. exposed' = [exposed EXCEPT ![l] = {IF j = n.id THEN i ELSE j : j \in @}]
    BY <1>1
  <2> QED
    BY <2>1 DEF TypeInv, TypeOK
<1>5. /\ hand' \in [Layers -> SUBSET Node]
      /\ cache' \in [Layers -> SUBSET Node]
      /\ modified' \in [Layers -> SUBSET Ids]
      /\ \A k \in Layers : cache'[k] \subseteq NodeIn(k)
      /\ \A k \in Layers : hand'[k] \subseteq NodeIn(k)
  <2>1. CASE Bottom(l)
    <3>1. /\ hand' = [hand EXCEPT ![l] = {}]
          /\ cache' = [cache EXCEPT ![l] = (@ \ Named(@, i)) \union {M(n)}]
          /\ Touch(l, i)
      BY <1>1, <2>1
    <3> QED
      BY <1>2, <3>1 DEF TypeInv, TypeOK, InRange, Lockstep, Touch, Named
  <2>2. CASE ~Bottom(l)
    <3>1. /\ hand' = [hand EXCEPT ![l] = {M(n)}]
          /\ UNCHANGED <<cache, modified>>
      BY <1>1, <2>2
    <3> QED
      BY <1>2, <3>1 DEF TypeInv, TypeOK, InRange
  <2> QED
    BY <2>1, <2>2
<1>6. done' \in SUBSET Layers
  BY DEF Modify, TypeInv, TypeOK
<1> QED
  BY <1>3, <1>4, <1>5, <1>6
  DEF TypeInv, TypeOK, InRange, Lockstep, Modify, Running, serverVars

LEMMA TypeWriteNew ==
  ASSUME SplitsKept', TypeInv, NEW l \in Layers, NEW i \in Ids, NEW x \in Data,
         NEW p, WriteNew(l, i, x, p)
  PROVE  TypeInv'
<1>1. p \in Leaves(l) /\ p \in Nat
  <2>1. CASE SplitsInRange
    BY <2>1, LeavesNat DEF WriteNew, SplitsInRange
  <2>2. CASE ~SplitsInRange
    <3>1. call'.op = "write" => call'.node.pos \in Leaves(call'.layer)
      BY <2>2 DEF SplitsKept
    <3>2. call'.op = "write" /\ call'.layer = l /\ call'.node.pos = p
      BY DEF WriteNew
    <3> QED BY <3>1, <3>2, LeavesNat
  <2> QED BY <2>1, <2>2
<1> DEFINE n == [id |-> i, pos |-> p, data |-> x]
<1>2. n \in NodeIn(l) /\ n \in Node /\ n.pos = p
  BY <1>1 DEF NodeIn, Node
<1>3. call' = [op |-> "write", layer |-> l, node |-> n] /\ call.op = "none"
  BY DEF WriteNew, Running, NoCall
<1> HIDE DEF n
<1>4. call' \in Call
  BY <1>2, <1>3 DEF Call
<1>5. /\ wire' \in Message
      /\ wire' = [type |-> "fetch", layer |-> l, leaf |-> p]
  BY <1>1 DEF WriteNew, SendFetch, Message
<1>6. /\ readCnt' \in [Layers -> Nat]
      /\ modified' \in [Layers -> SUBSET Ids]
      /\ exposed' \in [Layers -> SUBSET Ids]
  BY DEF WriteNew, SendFetch, Touch, TypeInv, TypeOK
<1> QED
  BY <1>1, <1>2, <1>3, <1>4, <1>5, <1>6
  DEF TypeInv, TypeOK, InRange, Lockstep, WriteNew, serverVars

LEMMA TypeReceiveWrite ==
  ASSUME TypeInv, ReceiveWrite
  PROVE  TypeInv'
<1> DEFINE l == call.layer
           n == call.node
           c == Merged(l, wire.blocks)
<1>1. /\ wire.type = "path" /\ call.op = "write"
      /\ wire' = Silence /\ call' = NoCall
  BY DEF ReceiveWrite, Answers
<1>2. l \in Layers /\ c \in SUBSET NodeIn(l) /\ n \in NodeIn(l)
  BY <1>1, MergedIn DEF TypeInv, InRange
<1>3. n \in Node /\ n.id \in Ids /\ n.pos \in Leaves(l) /\ n.pos \in Nat
  BY <1>2 DEF NodeIn, Node
<1>4. /\ cache' = [cache EXCEPT ![l] = (c \ Named(c, n.id)) \union {n}]
      /\ leafList' = [leafList EXCEPT ![l] = @ \union {n.pos}]
      /\ pmap' = [pmap EXCEPT ![l][n.id] = n.pos]
      /\ grown' = grown \union {l}
  BY DEF ReceiveWrite
<1>5. (c \ Named(c, n.id)) \union {n} \in SUBSET NodeIn(l)
  BY <1>2
<1> HIDE DEF l, n, c
<1>6. /\ cache' \in [Layers -> SUBSET Node]
      /\ \A k \in Layers : cache'[k] \subseteq NodeIn(k)
  BY <1>2, <1>4, <1>5 DEF TypeInv, TypeOK, InRange, NodeIn
<1>7. /\ leafList' \in [Layers -> SUBSET Nat]
      /\ \A k \in Layers : leafList'[k] \subseteq Leaves(k)
      /\ grown' \in SUBSET Layers
  BY <1>2, <1>3, <1>4 DEF TypeInv, TypeOK, InRange
<1>8. /\ pmap' \in [Layers -> [Ids -> Nat \union {NoPos}]]
      /\ \A k \in Layers, j \in Ids : pmap'[k][j] \in Leaves(k) \union {NoPos}
  BY <1>2, <1>3, <1>4 DEF TypeInv, TypeOK, InRange
<1>9. wire' \in Message /\ call' \in Call /\ wire'.type = "none" /\ call'.op = "none"
  BY <1>1 DEF Message, Call, Silence, NoCall
<1> QED
  BY <1>6, <1>7, <1>8, <1>9
  DEF TypeInv, TypeOK, InRange, Lockstep, ReceiveWrite, serverVars

LEMMA TypeWriteBack ==
  ASSUME TypeInv, NEW l \in Layers, WriteBack(l)
  PROVE  TypeInv'
<1>1. PICK n \in hand[l] :
        /\ cache' = [cache EXCEPT ![l] = (@ \ Named(@, n.id)) \union {n}]
        /\ Touch(l, n.id)
  BY DEF WriteBack
<1>2. n \in NodeIn(l)
  BY DEF TypeInv, InRange
<1>3. n \in Node /\ n.id \in Ids
  BY <1>2 DEF NodeIn, Node
<1>4. hand' = [hand EXCEPT ![l] = {}]
  BY DEF WriteBack
<1> QED
  BY <1>1, <1>2, <1>3, <1>4
  DEF TypeInv, TypeOK, InRange, Lockstep, WriteBack, Touch, Named, serverVars

LEMMA TypeEndUpdate ==
  ASSUME TypeInv, EndUpdate
  PROVE  TypeInv'
BY DEF TypeInv, TypeOK, InRange, Lockstep, EndUpdate, serverVars

LEMMA TypePad ==
  ASSUME TypeInv, NEW l \in Layers, NEW leaf \in Leaves(l), Pad(l, leaf)
  PROVE  TypeInv'
<1>1. leaf \in Nat
  BY LeavesNat
<1>2. /\ wire' \in Message /\ call' \in Call
      /\ wire' = [type |-> "fetch", layer |-> l, leaf |-> leaf]
      /\ call' = [op |-> "pad", layer |-> l]
  BY <1>1 DEF Pad, SendFetch, Message, Call
<1>3. /\ readCnt' \in [Layers -> Nat]
      /\ leafList' \in [Layers -> SUBSET Nat]
      /\ leaf \in leafList'[l]
      /\ \A k \in Layers : leafList'[k] \subseteq Leaves(k)
  BY <1>1 DEF Pad, SendFetch, TypeInv, TypeOK, InRange
<1> QED
  BY <1>2, <1>3 DEF TypeInv, TypeOK, InRange, Lockstep, Pad, serverVars

LEMMA TypeReceivePad ==
  ASSUME TypeInv, ReceivePad
  PROVE  TypeInv'
<1> DEFINE l == call.layer
           c == Merged(l, wire.blocks)
<1>1. wire.type = "path" /\ wire' = Silence /\ call' = NoCall
  BY DEF ReceivePad, Answers
<1>2. l \in Layers /\ c \in SUBSET NodeIn(l)
  BY <1>1, MergedIn
<1>3. cache' = [cache EXCEPT ![l] = c]
  BY DEF ReceivePad
<1> HIDE DEF l, c
<1>4. /\ cache' \in [Layers -> SUBSET Node]
      /\ \A k \in Layers : cache'[k] \subseteq NodeIn(k)
  BY <1>2, <1>3 DEF TypeInv, TypeOK, InRange, NodeIn
<1>5. wire' \in Message /\ call' \in Call /\ wire'.type = "none" /\ call'.op = "none"
  BY <1>1 DEF Message, Call, Silence, NoCall
<1> QED
  BY <1>4, <1>5 DEF TypeInv, TypeOK, InRange, Lockstep, ReceivePad, serverVars

LEMMA TypeRemap ==
  ASSUME TypeInv, NEW l \in Layers, Remap(l)
  PROVE  TypeInv'
<1>1. PICK new \in [IdsOf(cache[l]) \intersect modified[l] -> Leaves(l)] :
        LET nodes == {IF n.id \in DOMAIN new
                        THEN [n EXCEPT !.pos = new[n.id]] ELSE n
                      : n \in cache[l]}
        IN  /\ cache' = [cache EXCEPT ![l] = nodes]
            /\ pmap' = [pmap EXCEPT ![l] = Entries(l, nodes)]
            /\ exposed' = [exposed EXCEPT ![l] = @ \ DOMAIN new]
  BY DEF Remap
<1> DEFINE nodes == {IF n.id \in DOMAIN new
                       THEN [n EXCEPT !.pos = new[n.id]] ELSE n : n \in cache[l]}
<1>2. nodes \in SUBSET NodeIn(l)
  <2> SUFFICES ASSUME NEW n \in cache[l]
               PROVE  /\ n \in NodeIn(l)
                      /\ n.id \in DOMAIN new => [n EXCEPT !.pos = new[n.id]] \in NodeIn(l)
    OBVIOUS
  <2>1. n \in NodeIn(l)
    BY DEF TypeInv, InRange
  <2>2. ASSUME n.id \in DOMAIN new PROVE new[n.id] \in Leaves(l) /\ new[n.id] \in Nat
    BY <2>2, LeavesNat
  <2> QED
    BY <2>1, <2>2 DEF NodeIn, Node
<1>3. /\ cache' = [cache EXCEPT ![l] = nodes]
      /\ pmap' = [pmap EXCEPT ![l] = Entries(l, nodes)]
      /\ exposed' = [exposed EXCEPT ![l] = @ \ DOMAIN new]
  BY <1>1
<1> HIDE DEF nodes
<1>4. \A i \in Ids : Entries(l, nodes)[i] \in Leaves(l) \union {NoPos}
  <2> SUFFICES ASSUME NEW i \in Ids
               PROVE  Entries(l, nodes)[i] \in Leaves(l) \union {NoPos}
    OBVIOUS
  <2>1. CASE Known(l, i) /\ Named(nodes, i) # {}
    <3>1. \E n \in nodes : n.id = i
      BY <2>1 DEF Named
    <3>2. (CHOOSE n \in nodes : n.id = i) \in nodes
      BY <3>1
    <3>3. Entries(l, nodes)[i] = (CHOOSE n \in nodes : n.id = i).pos
      BY <2>1 DEF Entries
    <3> QED
      BY <1>2, <3>2, <3>3 DEF NodeIn
  <2>2. CASE ~(Known(l, i) /\ Named(nodes, i) # {})
    BY <2>2 DEF Entries, TypeInv, InRange
  <2> QED
    BY <2>1, <2>2
<1>5. Entries(l, nodes) \in [Ids -> Nat \union {NoPos}]
  <2>1. Entries(l, nodes) = [i \in Ids |-> Entries(l, nodes)[i]]
    BY DEF Entries
  <2> QED
    BY <1>4, <2>1, LeavesNat
<1>6. /\ cache' \in [Layers -> SUBSET Node]
      /\ \A k \in Layers : cache'[k] \subseteq NodeIn(k)
  BY <1>2, <1>3 DEF TypeInv, TypeOK, InRange, NodeIn
<1>7. /\ pmap' \in [Layers -> [Ids -> Nat \union {NoPos}]]
      /\ \A k \in Layers, j \in Ids : pmap'[k][j] \in Leaves(k) \union {NoPos}
  BY <1>3, <1>4, <1>5 DEF TypeInv, TypeOK, InRange
<1>8. /\ exposed' \in [Layers -> SUBSET Ids]
      /\ phase' \in {"idle", "descend", "update", "pad", "evict"}
      /\ done' \in SUBSET Layers
  BY <1>3 DEF TypeInv, TypeOK, Remap
<1> QED
  BY <1>6, <1>7, <1>8
  DEF TypeInv, TypeOK, InRange, Lockstep, Remap, Running, serverVars

LEMMA TypeEvict ==
  ASSUME TypeInv, NEW l \in Layers, NEW d \in 0 .. Depth[l], Evict(l, d)
  PROVE  TypeInv'
<1> PICK b \in Unwritten(l, d) : \E blocks \in SUBSET Intersecting(l, b, d) :
        /\ cache' = [cache EXCEPT ![l] = @ \ blocks]
        /\ writeview' = [writeview EXCEPT ![l] = @ \union {b}]
        /\ wire' = [type |-> "write", layer |-> l, index |-> b, blocks |-> blocks]
  BY DEF Evict
<1>1. PICK blocks \in SUBSET Intersecting(l, b, d) :
        /\ cache' = [cache EXCEPT ![l] = @ \ blocks]
        /\ writeview' = [writeview EXCEPT ![l] = @ \union {b}]
        /\ wire' = [type |-> "write", layer |-> l, index |-> b, blocks |-> blocks]
  OBVIOUS
<1>2. b \in Buckets(l) /\ b \in Nat
  <2>1. PICK leaf \in leafList[l] : b = GetNodeOnPath(Depth[l], leaf, d)
    BY DEF Unwritten
  <2>2. b \in Path(l, leaf) /\ leaf \in Leaves(l)
    BY <2>1 DEF Path, PathBuckets, TypeInv, InRange
  <2> QED
    BY <2>2, PathsInTree, BucketsNat
<1>3. blocks \in SUBSET NodeIn(l) /\ blocks \in SUBSET Node
  BY DEF Intersecting, TypeInv, InRange, NodeIn
<1>4. wire' \in Message
  BY <1>1, <1>2, <1>3 DEF Message
<1>5. call' \in Call /\ call' = [op |-> "evict", layer |-> l]
  BY DEF Evict, Call
<1>6. /\ cache' \in [Layers -> SUBSET Node]
      /\ \A k \in Layers : cache'[k] \subseteq NodeIn(k)
      /\ writeview' \in [Layers -> SUBSET Nat]
  BY <1>1, <1>2 DEF TypeInv, TypeOK, InRange
<1> QED
  BY <1>1, <1>2, <1>3, <1>4, <1>5, <1>6
  DEF TypeInv, TypeOK, InRange, Lockstep, Evict, serverVars

LEMMA TypeReceiveAck ==
  ASSUME TypeInv, ReceiveAck
  PROVE  TypeInv'
BY DEF TypeInv, TypeOK, InRange, Lockstep, ReceiveAck, serverVars, Message,
       Call, Silence, NoCall

LEMMA TypeEndEvict ==
  ASSUME TypeInv, NEW l \in Layers, EndEvict(l)
  PROVE  TypeInv'
<1>1. wire.type = "none"
  BY DEF EndEvict, Evicting, Running, TypeInv, Lockstep, NoCall
<1> QED
  BY <1>1 DEF TypeInv, TypeOK, InRange, Lockstep, EndEvict, serverVars

LEMMA TypeServeFetch ==
  ASSUME TypeInv, ServeFetch
  PROVE  TypeInv' /\ UNCHANGED crashed
<1> DEFINE l == wire.layer
           fresh == Path(l, wire.leaf) \ Started[l]
           blocks == UNION {store[<<l, b>>] : b \in fresh}
<1>1. wire.type = "fetch" /\ l \in Layers /\ wire.leaf \in Leaves(l)
  BY DEF ServeFetch, TypeInv, TypeOK, InRange, Message, Silence
<1>2. fresh \subseteq Buckets(l) /\ fresh \subseteq Nat
  BY <1>1, PathsInTree, BucketsNat
<1>3. /\ wire' = [type |-> "path", layer |-> l, blocks |-> blocks]
      /\ recvOdd' = [recvOdd EXCEPT ![l] = ~@]
      /\ readview' = [Started EXCEPT ![l] = @ \union fresh]
      /\ taken' = [taken EXCEPT ![l] = @ \union fresh]
      /\ UNCHANGED <<crashed, store>>
  BY <1>2 DEF ServeFetch
<1>4. blocks \in SUBSET NodeIn(l) /\ blocks \in SUBSET Node
  <2>1. \A b \in fresh : store[<<l, b>>] \subseteq NodeIn(l)
    BY <1>1, <1>2 DEF TypeInv, InRange
  <2>2. blocks \subseteq NodeIn(l)
    BY <2>1
  <2> QED
    BY <2>2 DEF NodeIn
<1>5. Started \in [Layers -> SUBSET Nat]
  BY DEF Started, TypeInv, TypeOK
<1> HIDE DEF l, fresh, blocks
<1>6. /\ recvOdd' \in [Layers -> BOOLEAN]
      /\ readview' \in [Layers -> SUBSET Nat]
      /\ taken' \in [Layers -> SUBSET Nat]
  BY <1>1, <1>2, <1>3, <1>5 DEF TypeInv, TypeOK
<1>7. wire' \in Message
  BY <1>1, <1>3, <1>4 DEF Message, l
<1>8. /\ call.op \in {"read", "write", "pad"} /\ call.layer = l
      /\ UNCHANGED <<clientVars, exposed>>
  BY <1>1 DEF TypeInv, Lockstep, ServeFetch, l
<1> QED
  BY <1>1, <1>3, <1>4, <1>6, <1>7, <1>8
  DEF TypeInv, TypeOK, InRange, Lockstep, clientVars

LEMMA TypeServeWrite ==
  ASSUME TypeInv, ServeWrite
  PROVE  TypeInv'
<1>1. /\ wire.type = "write" /\ wire.layer \in Layers /\ wire.index \in Nat
      /\ wire.blocks \in SUBSET Node
  BY DEF ServeWrite, TypeInv, TypeOK, Message, Silence
<1>2. wire.blocks \subseteq NodeIn(wire.layer) /\ wire.index \in Buckets(wire.layer)
  BY <1>1 DEF TypeInv, InRange
<1>3. /\ store' \in [Tree -> SUBSET Node]
      /\ \A l \in Layers : \A b \in Buckets(l) : store'[<<l, b>>] \subseteq NodeIn(l)
  <2>1. store' = [store EXCEPT ![<<wire.layer, wire.index>>] = wire.blocks]
    BY DEF ServeWrite
  <2>2. \A l \in Layers : \A b \in Buckets(l) : <<l, b>> \in Tree
    BY DEF Tree
  <2> QED
    BY <1>1, <1>2, <2>1, <2>2 DEF TypeInv, TypeOK, InRange
<1>4. /\ taken' \in [Layers -> SUBSET Nat]
      /\ readview' \in [Layers -> SUBSET Nat]
  BY <1>1 DEF ServeWrite, Started, TypeInv, TypeOK
<1>5. wire' \in Message /\ wire' = [type |-> "ack"]
  BY DEF ServeWrite, Message
<1>6. call.op = "evict" /\ UNCHANGED <<clientVars, crashed, recvOdd, exposed>>
  BY <1>1 DEF TypeInv, Lockstep, ServeWrite
<1> QED
  BY <1>3, <1>4, <1>5, <1>6 DEF TypeInv, TypeOK, InRange, Lockstep, clientVars

LEMMA TypeStep ==
  ASSUME SplitsKept', TypeInv, [Next]_vars
  PROVE  TypeInv'
<1>1. CASE UNCHANGED vars
  BY <1>1 DEF vars, clientVars, serverVars, TypeInv, TypeOK, InRange, Lockstep
<1>2. CASE \E k \in {"first", "insert", "search"} : Begin(k)
  BY <1>2, TypeBegin
<1>3. CASE Client
  BY <1>3, TypeReadCached, TypeReadRemote, TypeReceiveRead, TypeModify,
     TypeWriteNew, TypeReceiveWrite, TypeWriteBack, TypeEndUpdate, TypePad,
     TypeReceivePad, TypeRemap, TypeEvict, TypeReceiveAck, TypeEndEvict
  DEF Client
<1>4. CASE Server
  BY <1>4, TypeServeFetch, TypeServeWrite DEF Server
<1> QED
  BY <1>1, <1>2, <1>3, <1>4 DEF Next

(* If splits draw positions of the right tree, every variable of the client *)
(* (client.cpp) and the server (server.cpp) stays in its type whatever they *)
(* do; TypeInv is the invariant that makes it inductive.                    *)
THEOREM TypeCorrect == Spec /\ []SplitsKept => []TypeOK
<1>1. TypeInv /\ SplitsKept' /\ [Next]_vars => TypeInv'
  BY TypeStep
<1>2. TypeInv => TypeOK
  BY DEF TypeInv
<1> QED
  BY TypeInit, <1>1, <1>2, PTL DEF Spec

(* If splits draw positions of the right tree, the buckets the server looks *)
(* up for a request (ORAM::FetchPath) are buckets of the tree of its layer. *)
(* The run split_position shows what happens when they do not.              *)
THEOREM FetchesStayInTree ==
  ASSUME SplitsInRange PROVE Spec => []FetchesInTree
<1>1. TypeInv /\ [Next]_vars => TypeInv'
  BY TypeStep DEF SplitsKept
<1>2. TypeInv => FetchesInTree
  BY PathsInTree DEF TypeInv, TypeOK, InRange, FetchesInTree, Message, Silence
<1> QED
  BY TypeInit, <1>1, <1>2, PTL DEF Spec

-----------------------------------------------------------------------------
(* 2. The invariant *)

LEMMA InvInit == Init => Inv
<1> SUFFICES ASSUME Init PROVE Inv
  OBVIOUS
<1>1. TypeInv
  BY TypeInit
<1>2. NobodyCrashes /\ Phases /\ Waits /\ Marked
  BY DEF Init, NobodyCrashes, Phases, Waits, Marked, NoCall
<1>3. Counting
  BY DEF Init, Counting, Arrived, Fetching, Silence
<1>4. Books
  BY DEF Init, Books, Covered, Asked, Writing, Paths, Fetching, Awaits, Silence, NoCall
<1>5. \A l \in Layers : \A p \in Places(l) : Held(l, p) = {}
  BY DEF Init, Places, Held, InFlight, Silence, LiveBuckets, Tree, InCache, InHand, InWire
<1>6. NodeInv
  BY <1>5 DEF Init, NodeInv, NodesAt, Unique, Agree, Kept, Known
<1>7. Located
  BY DEF Init, Located, LiveBuckets, Tree, Silence
<1>8. OneInHand /\ Exposure
  BY DEF Init, OneInHand, Exposure
<1> QED
  BY <1>1, <1>2, <1>3, <1>4, <1>6, <1>7, <1>8 DEF Inv

(***************************************************************************)
(* Places                                                                  *)
(***************************************************************************)
PlaceFacts(l) ==
  /\ InCache \in Places(l) /\ InHand \in Places(l) /\ InWire \in Places(l)
  /\ LiveBuckets(l) \subseteq Places(l)
  /\ \A p \in Places(l) :
       p = InCache \/ p = InHand \/ p = InWire \/ p \in LiveBuckets(l)
  /\ InCache # InHand /\ InCache # InWire /\ InHand # InWire
  /\ InCache \notin Buckets(l) /\ InHand \notin Buckets(l) /\ InWire \notin Buckets(l)
  /\ LiveBuckets(l) = Buckets(l) \ taken[l]
  /\ Held(l, InCache) = cache[l]
  /\ Held(l, InHand) = hand[l]
  /\ Held(l, InWire) = InFlight(l)
  /\ \A b \in Buckets(l) : Held(l, b) = store[<<l, b>>]

LEMMA PlacesAre ==
  ASSUME NEW l \in Layers
  PROVE  PlaceFacts(l) /\ PlaceFacts(l)'
<1>1. Buckets(l) \subseteq Nat
  BY BucketsNat
<1>2. InCache \notin Nat /\ InHand \notin Nat /\ InWire \notin Nat
  BY DEF InCache, InHand, InWire
<1>3. InCache # InHand /\ InCache # InWire /\ InHand # InWire
  BY DEF InCache, InHand, InWire
<1> HIDE DEF InCache, InHand, InWire
<1>4. PlaceFacts(l)
  BY <1>1, <1>2, <1>3 DEF PlaceFacts, Places, Held, LiveBuckets
<1>5. PlaceFacts(l)'
  BY <1>1, <1>2, <1>3 DEF PlaceFacts, Places, Held, LiveBuckets, Buckets
<1> QED
  BY <1>4, <1>5

LEMMA HeldIn ==
  ASSUME TypeInv, NEW l \in Layers, NEW p \in Places(l)
  PROVE  Held(l, p) \subseteq NodeIn(l)
<1>1. PlaceFacts(l)
  BY PlacesAre
<1>2. InFlight(l) \subseteq NodeIn(l)
  BY DEF InFlight, TypeInv, InRange
<1>3. \A b \in LiveBuckets(l) : store[<<l, b>>] \subseteq NodeIn(l)
  BY DEF LiveBuckets, TypeInv, InRange
<1>4. cache[l] \subseteq NodeIn(l) /\ hand[l] \subseteq NodeIn(l)
  BY DEF TypeInv, InRange
<1> QED
  BY <1>1, <1>2, <1>3, <1>4 DEF PlaceFacts

(* Nodes that change place, and nothing else, ... *)
LEMMA MovedWithin ==
  ASSUME NEW l \in Layers, NodesAt(l), pmap'[l] = pmap[l],
         \A p \in Places(l)' : \A n \in Held(l, p)' :
           \E q \in Places(l) : n \in Held(l, q),
         \A q \in Places(l) : \A n \in Held(l, q) :
           \E p \in Places(l)' : n \in Held(l, p)',
         \A p, q \in Places(l)' : \A n \in Held(l, p)' :
           n \in Held(l, q)' => p = q
  PROVE  NodesAt(l)'
<1>1. Unique(l)'
  <2> SUFFICES ASSUME NEW p \in Places(l)', NEW q \in Places(l)',
                      NEW m \in Held(l, p)', NEW n \in Held(l, q)', m.id = n.id
               PROVE  m = n /\ p = q
    BY DEF Unique
  <2>1. m = n
    BY DEF NodesAt, Unique
  <2> QED
    BY <2>1
<1>2. Agree(l)'
  BY DEF NodesAt, Agree
<1>3. Kept(l)'
  BY DEF NodesAt, Kept, Known
<1> QED
  BY <1>1, <1>2, <1>3 DEF NodesAt

(* ... or do not even change place. *)
Still(l) ==
  /\ cache'[l] = cache[l]
  /\ hand'[l] = hand[l]
  /\ InFlight(l)' = InFlight(l)
  /\ taken'[l] = taken[l]
  /\ \A b \in Buckets(l) : store'[<<l, b>>] = store[<<l, b>>]
  /\ pmap'[l] = pmap[l]

LEMMA Stay ==
  ASSUME NEW l \in Layers, NodesAt(l), Still(l)
  PROVE  NodesAt(l)'
<1>1. Places(l)' = Places(l)
  BY DEF Still, Places, LiveBuckets, Buckets
<1>2. PlaceFacts(l) /\ PlaceFacts(l)'
  BY PlacesAre
<1>3. \A p \in Places(l) : Held(l, p)' = Held(l, p)
  BY <1>2 DEF PlaceFacts, Still, Buckets
<1> QED
  BY <1>1, <1>3 DEF NodesAt, Unique, Agree, Kept, Known, Still

(* Nodes of one layer that the client takes from the connection, or moves  *)
(* between its cache and its hand.                                         *)
LEMMA Gathered ==
  ASSUME NodeInv, NEW l \in Layers,
         \A m \in Layers : InFlight(m)' = {},
         \A m \in Layers \ {l} : InFlight(m) = {},
         cache'[l] \union hand'[l] = cache[l] \union hand[l] \union InFlight(l),
         cache'[l] \intersect hand'[l] = {},
         \A m \in Layers \ {l} : cache'[m] = cache[m] /\ hand'[m] = hand[m],
         UNCHANGED <<pmap, store, taken>>
  PROVE  NodeInv'
<1>1. NodesAt(l)'
  <2>1. PlaceFacts(l) /\ PlaceFacts(l)' /\ NodesAt(l)
    BY PlacesAre DEF NodeInv
  <2>2. Places(l)' = Places(l)
    BY DEF Places, LiveBuckets, Buckets
  <2>3. /\ Held(l, InCache)' \union Held(l, InHand)' =
             Held(l, InCache) \union Held(l, InHand) \union Held(l, InWire)
        /\ Held(l, InCache)' \intersect Held(l, InHand)' = {}
        /\ Held(l, InWire)' = {}
        /\ \A b \in LiveBuckets(l) : Held(l, b)' = Held(l, b)
    BY <2>1 DEF PlaceFacts, Buckets
  <2>4. \A p \in Places(l) : \A m \in Held(l, p)' : \E q \in Places(l) : m \in Held(l, q)
    BY <2>1, <2>3 DEF PlaceFacts
  <2>5. \A q \in Places(l) : \A m \in Held(l, q) : \E p \in Places(l) : m \in Held(l, p)'
    BY <2>1, <2>3 DEF PlaceFacts
  <2>6. \A p, q \in Places(l) : \A m \in Held(l, p)' : m \in Held(l, q)' => p = q
    BY <2>1, <2>3 DEF PlaceFacts, NodesAt, Unique
  <2> QED
    BY <2>1, <2>2, <2>4, <2>5, <2>6, MovedWithin
<1>2. ASSUME NEW m \in Layers \ {l} PROVE NodesAt(m)'
  BY Stay DEF NodeInv, Still
<1> QED
  BY <1>1, <1>2 DEF NodeInv

LEMMA KnownHeld ==
  ASSUME TypeInv, NEW l \in Layers, NodesAt(l), NEW p \in Places(l),
         NEW n \in Held(l, p)
  PROVE  n \in Node /\ Known(l, n.id)
BY HeldIn, LeavesNat DEF NodesAt, Agree, NodeIn, Node, Known, NoPos

LEMMA AllStill ==
  ASSUME NodeInv, \A l \in Layers : Still(l)
  PROVE  NodeInv'
BY Stay DEF NodeInv

LEMMA NotBeyondItself ==
  \A l \in Layers : l \notin Above(l) /\ l \notin Below(l)
BY LayersAssumption DEF Above, Below

(***************************************************************************)
(* Actions that move no node                                               *)
(***************************************************************************)
LEMMA InvBegin ==
  ASSUME Inv, NEW k \in {"first", "insert", "search"}, Begin(k)
  PROVE  Inv'
<1>1. TypeInv'
  BY TypeBegin DEF Inv
<1>2. /\ call.op = "none" /\ wire.type = "none"
      /\ phase = "idle" /\ phase' \in {"update", "descend"}
      /\ phase' = "update" => kind' = "first"
      /\ phase' = "descend" => kind' # "first"
      /\ readCnt' = [l \in Layers |-> 0]
      /\ writeview' = [l \in Layers |-> {}]
      /\ UNCHANGED <<call, cache, hand, modified, leafList, pmap, crashed,
                     wire, store, readview, recvOdd, taken, exposed, done>>
  BY DEF Begin, Running, NoCall, Inv, TypeInv, Lockstep, serverVars
<1>3. \A l \in Layers : /\ hand[l] = {} /\ leafList[l] = {} /\ exposed[l] = {}
                        /\ readCnt[l] \in {0, 2} /\ taken[l] = {}
  <2>1. \A l \in Layers : /\ hand[l] = {} /\ leafList[l] = {} /\ exposed[l] = {}
                          /\ readCnt[l] \in {0, 2}
    BY <1>2 DEF Inv, Phases
  <2>2. \A l \in Layers : Asked(l) = {}
    BY <1>2, <2>1 DEF Asked, Awaits, Paths
  <2> QED
    BY <2>1, <2>2 DEF Inv, Books, Covered
<1>4. NobodyCrashes' /\ Waits' /\ Marked' /\ OneInHand' /\ Exposure'
  BY <1>2, <1>3 DEF Inv, NobodyCrashes, Waits, Marked, OneInHand, Exposure, Known
<1>5. Phases'
  BY <1>2, <1>3 DEF Inv, Phases
<1>6. Counting'
  BY <1>2, <1>3 DEF Inv, Counting, Arrived, Fetching
<1>7. Books'
  BY <1>2, <1>3 DEF Inv, Books, Covered, Asked, Writing, Fetching, Awaits, Paths
<1>8. NodeInv'
  BY <1>2, AllStill DEF Inv, Still, InFlight
<1>9. Located'
  BY <1>2 DEF Inv, Located, LiveBuckets
<1> QED
  BY <1>1, <1>4, <1>5, <1>6, <1>7, <1>8, <1>9 DEF Inv

LEMMA InvReadRemote ==
  ASSUME Inv, NEW l \in Layers, NEW i \in Ids, ReadRemote(l, i)
  PROVE  Inv'
<1>1. TypeInv'
  BY TypeReadRemote DEF Inv
<1>2. /\ call.op = "none" /\ wire.type = "none" /\ phase = "descend"
      /\ l \notin done
      /\ Named(cache[l], i) = {}
      /\ call' = [op |-> "read", layer |-> l, id |-> i, leaf |-> pmap[l][i]]
      /\ wire' = [type |-> "fetch", layer |-> l, leaf |-> pmap[l][i]]
      /\ readCnt' = [readCnt EXCEPT ![l] = @ + 1]
      /\ exposed' = [exposed EXCEPT ![l] = @ \union {i}]
      /\ UNCHANGED <<phase, kind, done, grown, cache, hand, modified, leafList,
                     writeview, pmap, crashed, store, readview, recvOdd, taken>>
  BY NotBeyondItself
  DEF ReadRemote, Descends, Running, NoCall, SendFetch, Inv, TypeInv,
         Lockstep, serverVars
<1>3. /\ readCnt[l] = 0 /\ readCnt'[l] = 1
      /\ \A m \in Layers \ {l} : readCnt'[m] = readCnt[m]
      /\ exposed'[l] = exposed[l] \union {i}
      /\ \A m \in Layers \ {l} : exposed'[m] = exposed[m]
  BY <1>2 DEF Inv, Phases, Awaits, TypeInv, TypeOK
<1>4. NobodyCrashes' /\ Waits' /\ Marked' /\ OneInHand'
  BY <1>2 DEF Inv, NobodyCrashes, Waits, Marked, OneInHand
<1>5. Phases'
  BY <1>2, <1>3 DEF Inv, Phases, Awaits
<1>6. Counting'
  BY <1>2, <1>3 DEF Inv, Counting, Arrived, Fetching
<1>7. Books'
  BY <1>2 DEF Inv, Books, Covered, Asked, Writing, Fetching, Awaits
<1>8. NodeInv'
  BY <1>2, AllStill DEF Inv, Still, InFlight
<1>9. Located'
  BY <1>2 DEF Inv, Located, LiveBuckets
<1>10. Exposure'
  BY <1>2, <1>3 DEF Inv, Exposure, Awaits
<1> QED
  BY <1>1, <1>4, <1>5, <1>6, <1>7, <1>8, <1>9, <1>10 DEF Inv

LEMMA InvWriteNew ==
  ASSUME SplitsKept', Inv, NEW l \in Layers, NEW i \in Ids, NEW x \in Data,
         NEW p, WriteNew(l, i, x, p)
  PROVE  Inv'
<1>1. TypeInv'
  BY TypeWriteNew DEF Inv
<1> DEFINE n == [id |-> i, pos |-> p, data |-> x]
<1>2. /\ call.op = "none" /\ wire.type = "none" /\ phase = "update"
      /\ l \notin grown
      /\ ~Known(l, i)
      /\ call' = [op |-> "write", layer |-> l, node |-> n]
      /\ wire' = [type |-> "fetch", layer |-> l, leaf |-> n.pos]
      /\ n.id = i
      /\ readCnt' = [readCnt EXCEPT ![l] = @ + 1]
      /\ modified' = [modified EXCEPT ![l] = @ \union {i}]
      /\ exposed' = [exposed EXCEPT ![l] = @ \union {i}]
      /\ UNCHANGED <<phase, kind, done, grown, cache, hand, leafList,
                     writeview, pmap, crashed, store, readview, recvOdd, taken>>
  BY NotBeyondItself
  DEF WriteNew, Running, NoCall, SendFetch, Touch, Inv, TypeInv,
         Lockstep, serverVars
<1> HIDE DEF n
<1>3. /\ readCnt[l] <= 1 /\ readCnt[l] \in Nat /\ readCnt'[l] = readCnt[l] + 1
      /\ \A m \in Layers \ {l} : readCnt'[m] = readCnt[m]
      /\ exposed'[l] = exposed[l] \union {i}
      /\ \A m \in Layers \ {l} : exposed'[m] = exposed[m]
      /\ modified'[l] = modified[l] \union {i}
      /\ \A m \in Layers \ {l} : modified'[m] = modified[m]
  BY <1>2 DEF Inv, Phases, Awaits, TypeInv, TypeOK
<1>4. NobodyCrashes' /\ Waits' /\ Marked' /\ OneInHand'
  BY <1>2, <1>3 DEF Inv, NobodyCrashes, Waits, Marked, OneInHand, Known
<1>5. Phases'
  BY <1>2, <1>3 DEF Inv, Phases, Awaits
<1>6. Counting'
  BY <1>2, <1>3 DEF Inv, Counting, Arrived, Fetching
<1>7. Books'
  BY <1>2 DEF Inv, Books, Covered, Asked, Writing, Fetching, Awaits
<1>8. NodeInv'
  BY <1>2, AllStill DEF Inv, Still, InFlight
<1>9. Located'
  BY <1>2 DEF Inv, Located, LiveBuckets
<1>10. Exposure'
  BY <1>2, <1>3 DEF Inv, Exposure, Awaits
<1> QED
  BY <1>1, <1>4, <1>5, <1>6, <1>7, <1>8, <1>9, <1>10 DEF Inv

LEMMA InvEndUpdate ==
  ASSUME Inv, EndUpdate
  PROVE  Inv'
<1>1. TypeInv'
  BY TypeEndUpdate DEF Inv
<1>2. /\ call.op = "none" /\ wire.type = "none" /\ phase = "update"
      /\ phase' = "pad" /\ done' = {}
      /\ \A l \in Layers : hand[l] = {}
      /\ UNCHANGED <<kind, call, cache, hand, modified, leafList, readCnt,
                     writeview, pmap, crashed, wire, store, readview, recvOdd,
                     taken, exposed>>
  BY DEF EndUpdate, Running, NoCall, Inv, TypeInv, Lockstep, serverVars
<1>4. NobodyCrashes' /\ Waits' /\ Marked' /\ OneInHand' /\ Exposure'
  BY <1>2 DEF Inv, NobodyCrashes, Waits, Marked, OneInHand, Exposure, Awaits
<1>5. Phases'
  BY <1>2 DEF Inv, Phases
<1>6. Counting'
  BY <1>2 DEF Inv, Counting, Arrived, Fetching
<1>7. Books'
  BY <1>2 DEF Inv, Books, Covered, Asked, Writing, Fetching, Awaits
<1>8. NodeInv'
  BY <1>2, AllStill DEF Inv, Still, InFlight
<1>9. Located'
  BY <1>2 DEF Inv, Located, LiveBuckets
<1> QED
  BY <1>1, <1>4, <1>5, <1>6, <1>7, <1>8, <1>9 DEF Inv

LEMMA InvPad ==
  ASSUME Inv, NEW l \in Layers, NEW leaf \in Leaves(l), Pad(l, leaf)
  PROVE  Inv'
<1>1. TypeInv'
  BY TypePad DEF Inv
<1>2. /\ call.op = "none" /\ wire.type = "none" /\ phase = "pad"
      /\ readCnt[l] < 2
      /\ call' = [op |-> "pad", layer |-> l]
      /\ wire' = [type |-> "fetch", layer |-> l, leaf |-> leaf]
      /\ readCnt' = [readCnt EXCEPT ![l] = @ + 1]
      /\ leafList' = [leafList EXCEPT ![l] = @ \union {leaf}]
      /\ UNCHANGED <<phase, kind, done, grown, cache, hand, modified,
                     writeview, pmap, crashed, store, readview, recvOdd, taken,
                     exposed>>
  BY DEF Pad, Running, NoCall, SendFetch, Inv, TypeInv, Lockstep, serverVars
<1>3. /\ readCnt[l] <= 1 /\ readCnt[l] \in Nat /\ readCnt'[l] = readCnt[l] + 1
      /\ \A m \in Layers \ {l} : readCnt'[m] = readCnt[m]
      /\ leafList'[l] = leafList[l] \union {leaf}
      /\ \A m \in Layers \ {l} : leafList'[m] = leafList[m]
  BY <1>2 DEF Inv, TypeInv, TypeOK
<1>4. NobodyCrashes' /\ Waits' /\ Marked' /\ OneInHand' /\ Exposure'
  BY <1>2 DEF Inv, NobodyCrashes, Waits, Marked, OneInHand, Exposure, Awaits
<1>5. Phases'
  BY <1>2 DEF Inv, Phases, Awaits
<1>6. Counting'
  BY <1>2, <1>3 DEF Inv, Counting, Arrived, Fetching
<1>7. Books'
  <2>1. Paths(l, leafList[l] \union {leaf}) =
          Paths(l, leafList[l]) \union Path(l, leaf)
    BY DEF Paths
  <2>2. /\ Covered(l)' = Covered(l) \union Path(l, leaf)
        /\ Asked(l)' = Asked(l) \union Path(l, leaf)
        /\ Writing(l)' = Writing(l)
    BY <1>2, <1>3, <2>1
    DEF Covered, Asked, Writing, Fetching, Awaits, Path, Paths
  <2>3. \A m \in Layers \ {l} : /\ Covered(m)' = Covered(m)
                                /\ Asked(m)' = Asked(m)
                                /\ Writing(m)' = Writing(m)
    BY <1>2, <1>3 DEF Covered, Asked, Writing, Fetching, Awaits, Paths
  <2> QED
    BY <1>2, <2>2, <2>3 DEF Inv, Books
<1>8. NodeInv'
  BY <1>2, AllStill DEF Inv, Still, InFlight
<1>9. Located'
  BY <1>2 DEF Inv, Located, LiveBuckets
<1> QED
  BY <1>1, <1>4, <1>5, <1>6, <1>7, <1>8, <1>9 DEF Inv

LEMMA InvReceiveAck ==
  ASSUME Inv, ReceiveAck
  PROVE  Inv'
<1>1. TypeInv'
  BY TypeReceiveAck DEF Inv
<1>2. /\ call.op = "evict" /\ wire.type = "ack" /\ phase = "evict"
      /\ call'.op = "none" /\ wire'.type = "none"
      /\ UNCHANGED <<phase, kind, done, grown, cache, hand, modified, leafList,
                     readCnt, writeview, pmap, crashed, store, readview,
                     recvOdd, taken, exposed>>
  BY DEF ReceiveAck, NoCall, Silence, Inv, TypeInv, TypeOK, Lockstep, Phases,
         serverVars
<1>4. NobodyCrashes' /\ Waits' /\ Marked' /\ OneInHand' /\ Exposure'
  BY <1>2 DEF Inv, NobodyCrashes, Waits, Marked, OneInHand, Exposure, Awaits
<1>5. Phases'
  BY <1>2 DEF Inv, Phases
<1>6. Counting'
  BY <1>2 DEF Inv, Counting, Arrived, Fetching
<1>7. Books'
  BY <1>2 DEF Inv, Books, Covered, Asked, Writing, Fetching, Awaits
<1>8. NodeInv'
  BY <1>2, AllStill DEF Inv, Still, InFlight
<1>9. Located'
  BY <1>2 DEF Inv, Located, LiveBuckets
<1> QED
  BY <1>1, <1>4, <1>5, <1>6, <1>7, <1>8, <1>9 DEF Inv

LEMMA InvEndEvict ==
  ASSUME Inv, NEW l \in Layers, EndEvict(l)
  PROVE  Inv'
<1>1. TypeInv'
  BY TypeEndEvict DEF Inv
<1>2. /\ call.op = "none" /\ wire.type = "none" /\ phase = "evict"
      /\ done = Above(l)
      /\ \A d \in 0 .. Depth[l] : Unwritten(l, d) = {}
      /\ IF Bottom(l) THEN phase' = "idle" /\ done' = {}
                      ELSE phase' = phase /\ done' = done \union {l}
      /\ leafList' = [leafList EXCEPT ![l] = {}]
      /\ UNCHANGED <<kind, grown, call, cache, hand, readCnt, writeview, pmap,
                     crashed, wire, store, readview, recvOdd, taken, exposed>>
  BY DEF EndEvict, Evicting, Running, NoCall, Inv, TypeInv, Lockstep, serverVars
<1>3. /\ leafList'[l] = {}
      /\ \A m \in Layers \ {l} : leafList'[m] = leafList[m]
  BY <1>2 DEF Inv, TypeInv, TypeOK
<1>4. taken[l] = {}
  <2>1. Paths(l, leafList[l]) \subseteq writeview[l]
    BY <1>2 DEF Paths, Path, PathBuckets, Unwritten
  <2>2. taken[l] \subseteq Paths(l, leafList[l])
    BY <1>2 DEF Inv, Books, Covered, Asked, Awaits
  <2>3. taken[l] \intersect writeview[l] = {}
    BY <1>2 DEF Inv, Books, Writing
  <2> QED
    BY <2>1, <2>2, <2>3
<1>5. NobodyCrashes' /\ Waits' /\ Marked' /\ OneInHand' /\ Exposure'
  BY <1>2 DEF Inv, NobodyCrashes, Waits, Marked, OneInHand, Exposure, Phases
<1>6. Phases'
  <2>1. CASE Bottom(l)
    <3>1. Layers \subseteq Above(l) \union {l}
      BY <2>1, LayersAssumption DEF Bottom, Above
    <3> QED
      BY <1>2, <1>3, <2>1, <3>1 DEF Inv, Phases
  <2>2. CASE ~Bottom(l)
    BY <1>2, <1>3, <2>2 DEF Inv, Phases
  <2> QED
    BY <2>1, <2>2
<1>7. Counting'
  BY <1>2 DEF Inv, Counting, Arrived, Fetching
<1>8. Books'
  <2> SUFFICES ASSUME NEW m \in Layers
               PROVE  /\ Covered(m)' \subseteq Asked(m)'
                      /\ Asked(m)' \ writeview'[m] \subseteq Covered(m)'
                      /\ taken'[m] \intersect writeview'[m] = Writing(m)'
    BY DEF Books
  <2>1. CASE m = l
    BY <1>2, <1>3, <1>4, <2>1 DEF Covered, Asked, Writing, Fetching, Awaits, Paths
  <2>2. CASE m # l
    BY <1>2, <1>3, <2>2 DEF Inv, Books, Covered, Asked, Writing, Fetching, Awaits
  <2> QED
    BY <2>1, <2>2
<1>9. NodeInv'
  BY <1>2, AllStill DEF Inv, Still, InFlight
<1>10. Located'
  BY <1>2 DEF Inv, Located, LiveBuckets
<1> QED
  BY <1>1, <1>5, <1>6, <1>7, <1>8, <1>9, <1>10 DEF Inv

(***************************************************************************)
(* Reading a node                                                          *)
(***************************************************************************)

(* What Deliver does with a node n of a cache c that has no two nodes of   *)
(* one id: it goes from the cache to the hand, or stays.                   *)
Handed(l, n, c) ==
  /\ cache'[l] \union hand'[l] = c
  /\ cache'[l] \intersect hand'[l] = {}
  /\ hand'[l] \subseteq {n}
  /\ kind # "insert" => hand'[l] = {}
  /\ modified'[l] = modified[l] \union {n.id}
  /\ \A m \in Layers \ {l} : /\ cache'[m] = cache[m]
                             /\ hand'[m] = hand[m]
                             /\ modified'[m] = modified[m]
  /\ \/ phase' = phase /\ done' = done \union {l}
     \/ phase' = "update" /\ kind = "insert"
     \/ phase' = "pad" /\ kind # "insert" /\ done' = {}

LEMMA DeliverHands ==
  ASSUME TypeInv, NEW l \in Layers, hand[l] = {},
         NEW c \in SUBSET NodeIn(l), \A m, n \in c : m.id = n.id => m = n,
         NEW n \in c, Deliver(l, n, c)
  PROVE  Handed(l, n, c)
<1>1. Named(c, n.id) = {n}
  BY DEF Named
<1>2. modified' = [modified EXCEPT ![l] = @ \union {n.id}]
  BY DEF Deliver, Touch
<1>3. \/ phase' = phase /\ done' = done \union {l}
      \/ phase' = "update" /\ kind = "insert"
      \/ phase' = "pad" /\ kind # "insert" /\ done' = {}
  BY DEF Deliver
<1>4. CASE kind = "insert"
  <2>1. /\ cache' = [cache EXCEPT ![l] = c \ {n}]
        /\ hand' = [hand EXCEPT ![l] = {n}]
    BY <1>1, <1>4 DEF Deliver
  <2> QED
    BY <1>2, <1>3, <1>4, <2>1 DEF Handed, TypeInv, TypeOK
<1>5. CASE kind # "insert"
  <2>1. /\ cache' = [cache EXCEPT ![l] = (c \ {n}) \union {n}]
        /\ hand' = hand
    BY <1>1, <1>5 DEF Deliver
  <2>2. cache' = [cache EXCEPT ![l] = c]
    BY <2>1
  <2> QED
    BY <1>2, <1>3, <1>5, <2>1, <2>2 DEF Handed, TypeInv, TypeOK
<1> QED
  BY <1>4, <1>5

LEMMA DeliverPhases ==
  ASSUME Inv, NEW l \in Layers, NEW n, NEW c, Handed(l, n, c),
         phase = "descend", call.op = "none" \/ Awaits(l, "read"),
         call'.op = "none",
         UNCHANGED <<kind, readCnt, writeview>>
  PROVE  Phases'
<1>1. \A m \in Layers : /\ kind # "insert" => hand'[m] = {}
                        /\ m \notin done /\ m # l => hand'[m] = {}
                        /\ readCnt'[m] <= 1
                        /\ m \notin done /\ m # l => readCnt'[m] = 0
                        /\ writeview'[m] = {}
  BY DEF Inv, Phases, Handed, Awaits
<1> QED
  BY <1>1 DEF Phases, Handed

(* A record that gets the position it has. *)
LEMMA SamePos ==
  ASSUME NEW n \in Node
  PROVE  [n EXCEPT !.pos = n.pos] = n
BY DEF Node

LEMMA InvReadCached ==
  ASSUME Inv, NEW l \in Layers, NEW i \in Ids, ReadCached(l, i)
  PROVE  Inv'
<1>1. TypeInv'
  BY TypeReadCached DEF Inv
<1>2. /\ call.op = "none" /\ wire.type = "none" /\ phase = "descend"
      /\ l \notin done /\ hand[l] = {}
      /\ UNCHANGED <<call, kind, grown, leafList, readCnt, writeview, pmap,
                     crashed, wire, store, readview, recvOdd, taken, exposed>>
  BY NotBeyondItself
  DEF ReadCached, Descends, Running, NoCall, Inv, TypeInv, Lockstep, Phases,
      serverVars
<1>3. PICK n \in Named(cache[l], i) :
        Deliver(l, [n EXCEPT !.pos = IF l = Mid1 THEN n.pos ELSE pmap[l][i]],
                cache[l])
  BY DEF ReadCached
<1>4. PlaceFacts(l) /\ PlaceFacts(l)'
  BY PlacesAre
<1>5. \A m, k \in cache[l] : m.id = k.id => m = k
  BY <1>4 DEF PlaceFacts, Inv, NodeInv, NodesAt, Unique
<1>6. [n EXCEPT !.pos = IF l = Mid1 THEN n.pos ELSE pmap[l][i]] = n
  <2>1. n \in cache[l] /\ n.id = i /\ n \in Node
    BY DEF Named, Inv, TypeInv, TypeOK
  <2>2. pmap[l][i] = n.pos
    BY <1>4, <2>1 DEF PlaceFacts, Inv, NodeInv, NodesAt, Agree
  <2> QED
    BY <2>1, <2>2, SamePos
<1>7. Handed(l, n, cache[l])
  <2>1. Deliver(l, n, cache[l])
    BY <1>3, <1>6
  <2>2. cache[l] \in SUBSET NodeIn(l) /\ n \in cache[l]
    BY DEF Inv, TypeInv, InRange, Named
  <2> QED
    BY <1>2, <1>5, <2>1, <2>2, DeliverHands DEF Inv
<1>8. NobodyCrashes' /\ Waits' /\ Marked'
  BY <1>2 DEF Inv, NobodyCrashes, Waits, Marked
<1>9. OneInHand'
  BY <1>7 DEF Handed, Inv, OneInHand
<1>10. Phases'
  BY <1>2, <1>7, DeliverPhases
<1>11. Counting'
  BY <1>2 DEF Inv, Counting, Arrived, Fetching
<1>12. Books'
  BY <1>2 DEF Inv, Books, Covered, Asked, Writing, Fetching, Awaits
<1>13. NodeInv'
  <2>1. \A m \in Layers : InFlight(m) = {} /\ InFlight(m)' = {}
    BY <1>2 DEF InFlight
  <2> QED
    BY <1>2, <1>7, <2>1, Gathered DEF Inv, Handed
<1>14. Located'
  BY <1>2 DEF Inv, Located, LiveBuckets
<1>15. Exposure'
  <2>1. \A m \in Layers \ {l} : IdsOf(cache'[m]) = IdsOf(cache[m]) /\ IdsOf(hand'[m]) = IdsOf(hand[m])
    BY <1>7 DEF Handed
  <2>2. IdsOf(cache[l]) \subseteq IdsOf(cache'[l]) \union IdsOf(hand'[l]) /\ IdsOf(hand[l]) = {}
    BY <1>2, <1>7 DEF Handed, IdsOf
  <2> QED
    BY <1>2, <1>7, <2>1, <2>2 DEF Inv, Exposure, Handed, Awaits
<1> QED
  BY <1>1, <1>8, <1>9, <1>10, <1>11, <1>12, <1>13, <1>14, <1>15 DEF Inv

(* A path that arrives brings no node the client has. *)
LEMMA Merging ==
  ASSUME Inv, wire.type = "path"
  PROVE  /\ call.layer \in Layers /\ wire.layer = call.layer
         /\ call.op \in {"read", "write", "pad"}
         /\ InFlight(call.layer) = wire.blocks
         /\ \A m \in Layers \ {call.layer} : InFlight(m) = {}
         /\ Merged(call.layer, wire.blocks) = cache[call.layer] \union wire.blocks
         /\ cache[call.layer] \intersect wire.blocks = {}
         /\ Merged(call.layer, wire.blocks) \in SUBSET NodeIn(call.layer)
         /\ \A m, n \in Merged(call.layer, wire.blocks) : m.id = n.id => m = n
<1> DEFINE l == call.layer
<1>1. l \in Layers /\ Merged(l, wire.blocks) \in SUBSET NodeIn(l)
  BY MergedIn DEF Inv
<1>2. wire.layer = l /\ call.op \in {"read", "write", "pad"}
  BY DEF Inv, TypeInv, Lockstep
<1>3. InFlight(l) = wire.blocks /\ \A m \in Layers \ {l} : InFlight(m) = {}
  BY <1>2 DEF InFlight
<1> HIDE DEF l
<1>4. PlaceFacts(l) /\ Unique(l)
  BY <1>1, PlacesAre DEF Inv, NodeInv, NodesAt
<1>5. /\ \A m \in cache[l], n \in wire.blocks : m.id # n.id
      /\ \A m, n \in cache[l] : m.id = n.id => m = n
      /\ \A m, n \in wire.blocks : m.id = n.id => m = n
  BY <1>3, <1>4 DEF PlaceFacts, Unique
<1>6. Merged(l, wire.blocks) = cache[l] \union wire.blocks
  BY <1>5 DEF Merged, Named
<1> QED
  BY <1>1, <1>2, <1>3, <1>5, <1>6 DEF l

(* The node the client waits for is on the path it waits for. *)
LEMMA ReadFinds ==
  ASSUME Inv, wire.type = "path", call.op = "read"
  PROVE  Named(Merged(call.layer, wire.blocks), call.id) # {}
<1> DEFINE l == call.layer
           i == call.id
<1>1. /\ l \in Layers /\ InFlight(l) = wire.blocks
      /\ Merged(l, wire.blocks) = cache[l] \union wire.blocks
  BY Merging
<1>2. phase = "descend"
  BY DEF Inv, Phases, TypeInv, TypeOK
<1>3. /\ i \in Ids
      /\ Named(cache[l], i) = {} /\ pmap[l][i] = call.leaf /\ l \notin done
      /\ call.leaf \in Leaves(l)
  BY DEF Inv, TypeInv, TypeOK, InRange, Call, NoCall, Waits
<1> HIDE DEF l, i
<1>4. hand[l] = {} /\ writeview[l] = {}
  BY <1>1, <1>2, <1>3 DEF Inv, Phases
<1>5. Known(l, i)
  BY <1>1, <1>3, LeavesNat DEF Known, NoPos
<1>6. PICK p \in Places(l) : \E n \in Held(l, p) : n.id = i
  BY <1>1, <1>3, <1>5 DEF Inv, NodeInv, NodesAt, Kept
<1>7. PICK n \in Held(l, p) : n.id = i
  BY <1>6
<1>8. PlaceFacts(l)
  BY <1>1, PlacesAre
<1>9. n.pos = call.leaf
  BY <1>1, <1>3, <1>7 DEF Inv, NodeInv, NodesAt, Agree
<1>10. p \notin LiveBuckets(l)
  <2> SUFFICES ASSUME p \in LiveBuckets(l) PROVE FALSE
    OBVIOUS
  <2>1. n \in store[<<l, p>>] /\ p \notin taken[l]
    BY <1>7, <1>8 DEF PlaceFacts
  <2>2. p \in Path(l, call.leaf)
    BY <1>1, <1>9, <2>1 DEF Inv, Located
  <2>3. p \in Asked(l)
    BY <2>2 DEF Asked, Awaits, l
  <2>4. p \in taken[l]
    BY <1>1, <1>4, <2>3 DEF Inv, Books, Covered, Fetching
  <2> QED
    BY <2>1, <2>4
<1>11. p # InCache /\ p # InHand
  BY <1>3, <1>4, <1>7, <1>8 DEF PlaceFacts, Named
<1>12. n \in wire.blocks
  BY <1>1, <1>7, <1>8, <1>10, <1>11 DEF PlaceFacts
<1> QED
  BY <1>1, <1>7, <1>12 DEF Named, l, i

LEMMA InvReceiveRead ==
  ASSUME Inv, NEW l \in Layers, l = call.layer, ReceiveRead
  PROVE  Inv'
<1> DEFINE c == Merged(l, wire.blocks)
<1>1. TypeInv'
  BY TypeReceiveRead DEF Inv
<1>2. /\ call.op = "read" /\ wire.type = "path"
      /\ call'.op = "none" /\ wire'.type = "none"
      /\ UNCHANGED <<kind, grown, readCnt, writeview, pmap, store, readview,
                     recvOdd, taken, exposed>>
  BY DEF ReceiveRead, Answers, NoCall, Silence, serverVars
<1>3. /\ l \in Layers /\ c = cache[l] \union wire.blocks
      /\ c \in SUBSET NodeIn(l)
      /\ \A m, n \in c : m.id = n.id => m = n
  BY <1>2, Merging
<1>4. /\ phase = "descend" /\ l \notin done /\ hand[l] = {}
      /\ call.leaf \in Leaves(l) /\ pmap[l][call.id] = call.leaf
  BY <1>2, <1>3 DEF Inv, Phases, TypeInv, TypeOK, Waits, InRange
<1>5. Named(c, call.id) # {}
  BY <1>2, ReadFinds
<1>6. /\ \E n \in Named(c, call.id) : Deliver(l, [n EXCEPT !.pos = call.leaf], c)
      /\ leafList' = [leafList EXCEPT ![l] = @ \union {call.leaf}]
      /\ UNCHANGED crashed
  BY <1>5 DEF ReceiveRead
<1>7. PICK n \in Named(c, call.id) : Deliver(l, [n EXCEPT !.pos = call.leaf], c)
  BY <1>6
<1> HIDE DEF c
<1>8. n \in c /\ n.id = call.id /\ n \in Node
  BY <1>3 DEF Named, NodeIn
<1>9. [n EXCEPT !.pos = call.leaf] = n
  <2>1. PlaceFacts(l) /\ InFlight(l) = wire.blocks
    BY <1>2, <1>3, PlacesAre, Merging
  <2>2. n \in Held(l, InCache) \/ n \in Held(l, InWire)
    BY <1>3, <1>8, <2>1 DEF PlaceFacts
  <2>3. n.pos = call.leaf
    BY <1>3, <1>4, <1>8, <2>1, <2>2 DEF PlaceFacts, Inv, NodeInv, NodesAt, Agree
  <2> QED
    BY <1>8, <2>3, SamePos
<1>10. Handed(l, n, c)
  BY <1>3, <1>4, <1>7, <1>8, <1>9, DeliverHands DEF Inv
<1>11. NobodyCrashes' /\ Waits' /\ Marked'
  BY <1>2, <1>6 DEF Inv, NobodyCrashes, Waits, Marked
<1>12. OneInHand'
  BY <1>10 DEF Handed, Inv, OneInHand
<1>13. Phases'
  BY <1>2, <1>3, <1>4, <1>10, DeliverPhases DEF Awaits
<1>14. Counting'
  BY <1>2 DEF Inv, Counting, Arrived, Fetching
<1>15. Books'
  <2>1. /\ leafList'[l] = leafList[l] \union {call.leaf}
        /\ \A m \in Layers \ {l} : leafList'[m] = leafList[m]
    BY <1>3, <1>6 DEF Inv, TypeInv, TypeOK
  <2>2. Paths(l, leafList[l] \union {call.leaf}) =
          Paths(l, leafList[l]) \union Path(l, call.leaf)
    BY DEF Paths
  <2>3. \A m \in Layers : /\ Covered(m)' = Covered(m)
                          /\ Writing(m)' = Writing(m)
    BY <1>2 DEF Covered, Writing, Fetching
  <2>4. Asked(l)' = Asked(l)
    BY <1>2, <2>1, <2>2 DEF Asked, Awaits, Paths
  <2>5. \A m \in Layers \ {l} : Asked(m)' = Asked(m)
    BY <1>2, <2>1 DEF Asked, Awaits, Paths
  <2> QED
    BY <1>2, <1>3, <2>3, <2>4, <2>5 DEF Inv, Books
<1>16. NodeInv'
  <2>1. /\ InFlight(l) = wire.blocks
        /\ \A m \in Layers \ {l} : InFlight(m) = {}
        /\ \A m \in Layers : InFlight(m)' = {}
    BY <1>2, Merging DEF InFlight
  <2> QED
    BY <1>2, <1>3, <1>4, <1>10, <2>1, Gathered DEF Handed, Inv
<1>17. Located'
  BY <1>2 DEF Inv, Located, LiveBuckets
<1>18. Exposure'
  <2>1. \A m \in Layers \ {l} : IdsOf(cache'[m]) = IdsOf(cache[m]) /\ IdsOf(hand'[m]) = IdsOf(hand[m])
    BY <1>10 DEF Handed
  <2>2. /\ IdsOf(cache[l]) \subseteq IdsOf(cache'[l]) \union IdsOf(hand'[l])
        /\ n.id \in IdsOf(cache'[l]) \union IdsOf(hand'[l])
        /\ IdsOf(hand[l]) = {}
    BY <1>3, <1>4, <1>8, <1>10 DEF Handed, IdsOf
  <2> QED
    BY <1>2, <1>8, <1>10, <2>1, <2>2 DEF Inv, Exposure, Handed, Awaits
<1> QED
  BY <1>1, <1>11, <1>12, <1>13, <1>14, <1>15, <1>16, <1>17, <1>18 DEF Inv

LEMMA InvReceivePad ==
  ASSUME Inv, NEW l \in Layers, l = call.layer, ReceivePad
  PROVE  Inv'
<1>1. TypeInv'
  BY TypeReceivePad DEF Inv
<1>2. /\ call.op = "pad" /\ wire.type = "path" /\ phase = "pad"
      /\ call'.op = "none" /\ wire'.type = "none"
      /\ cache' = [cache EXCEPT ![l] = Merged(l, wire.blocks)]
      /\ UNCHANGED <<phase, kind, done, grown, hand, modified, leafList,
                     readCnt, writeview, pmap, crashed, store, readview,
                     recvOdd, taken, exposed>>
  BY DEF ReceivePad, Answers, NoCall, Silence, serverVars, Inv, Phases, TypeInv,
         TypeOK
<1>3. /\ cache'[l] = cache[l] \union wire.blocks
      /\ \A m \in Layers \ {l} : cache'[m] = cache[m]
      /\ \A m \in Layers : hand[m] = {}
  BY <1>2, Merging DEF Inv, TypeInv, TypeOK, Phases
<1>4. NobodyCrashes' /\ Waits' /\ Marked' /\ OneInHand'
  BY <1>2 DEF Inv, NobodyCrashes, Waits, Marked, OneInHand
<1>5. Phases'
  BY <1>2 DEF Inv, Phases
<1>6. Counting'
  BY <1>2 DEF Inv, Counting, Arrived, Fetching
<1>7. Books'
  BY <1>2 DEF Inv, Books, Covered, Asked, Writing, Fetching, Awaits
<1>8. NodeInv'
  <2>1. /\ InFlight(l) = wire.blocks /\ cache[l] \intersect wire.blocks = {}
        /\ \A m \in Layers \ {l} : InFlight(m) = {}
        /\ \A m \in Layers : InFlight(m)' = {}
    BY <1>2, Merging DEF InFlight
  <2> QED
    BY <1>2, <1>3, <2>1, Gathered DEF Inv
<1>9. Located'
  BY <1>2 DEF Inv, Located, LiveBuckets
<1>10. Exposure'
  <2>1. \A m \in Layers : IdsOf(cache[m]) \subseteq IdsOf(cache'[m])
    BY <1>3 DEF IdsOf
  <2> QED
    BY <1>2, <2>1 DEF Inv, Exposure, Awaits
<1> QED
  BY <1>1, <1>4, <1>5, <1>6, <1>7, <1>8, <1>9, <1>10 DEF Inv

(***************************************************************************)
(* Changing nodes and writing new ones                                     *)
(***************************************************************************)
LEMMA InvReceiveWrite ==
  ASSUME Inv, NEW l \in Layers, l = call.layer,
         NEW n \in NodeIn(l), n = call.node, ReceiveWrite
  PROVE  Inv'
<1> DEFINE c == cache[l] \union wire.blocks
<1>1. TypeInv'
  BY TypeReceiveWrite DEF Inv
<1>2. /\ call.op = "write" /\ wire.type = "path" /\ phase = "update"
      /\ call'.op = "none" /\ wire'.type = "none"
      /\ cache' = [cache EXCEPT ![l] =
           (Merged(l, wire.blocks) \ Named(Merged(l, wire.blocks), n.id)) \union {n}]
      /\ leafList' = [leafList EXCEPT ![l] = @ \union {n.pos}]
      /\ pmap' = [pmap EXCEPT ![l][n.id] = n.pos]
      /\ grown' = grown \union {l}
      /\ UNCHANGED <<phase, kind, done, hand, modified, readCnt, writeview,
                     crashed, store, readview, recvOdd, taken, exposed>>
  BY DEF ReceiveWrite, Answers, NoCall, Silence, serverVars, Inv, Phases,
         TypeInv, TypeOK
<1>3. /\ n.id \in Ids /\ n.pos \in Leaves(l) /\ n.pos # NoPos
      /\ ~Known(l, n.id) /\ n.id \in modified[l]
  BY <1>2, LeavesNat DEF NodeIn, Node, NoPos, Inv, Waits, Marked
<1>4. PlaceFacts(l) /\ PlaceFacts(l)' /\ NodesAt(l)
  BY PlacesAre DEF Inv, NodeInv
<1>5. /\ InFlight(l) = wire.blocks
      /\ \A m \in Layers \ {l} : InFlight(m) = {}
      /\ \A m \in Layers : InFlight(m)' = {}
      /\ Merged(l, wire.blocks) = c
      /\ cache[l] \intersect wire.blocks = {}
  BY <1>2, Merging DEF InFlight
<1>6. \A p \in Places(l) : \A m \in Held(l, p) : m \in Node /\ m.id # n.id
  BY <1>3, <1>4, KnownHeld DEF Inv
<1>7. /\ cache'[l] = c \union {n}
      /\ \A m \in Layers \ {l} : cache'[m] = cache[m]
  <2>1. Named(c, n.id) = {}
    BY <1>4, <1>5, <1>6 DEF PlaceFacts, Named
  <2> QED
    BY <1>2, <1>5, <2>1 DEF Inv, TypeInv, TypeOK
<1>8. /\ pmap'[l] = [pmap[l] EXCEPT ![n.id] = n.pos]
      /\ pmap[l] \in [Ids -> Nat \union {NoPos}]
      /\ \A m \in Layers \ {l} : pmap'[m] = pmap[m]
  BY <1>2 DEF Inv, TypeInv, TypeOK
<1> HIDE DEF c
<1>9. NobodyCrashes' /\ Waits' /\ Marked' /\ OneInHand'
  BY <1>2 DEF Inv, NobodyCrashes, Waits, Marked, OneInHand
<1>10. Phases'
  BY <1>2 DEF Inv, Phases, Awaits
<1>11. Counting'
  BY <1>2 DEF Inv, Counting, Arrived, Fetching
<1>12. Books'
  <2>1. /\ leafList'[l] = leafList[l] \union {n.pos}
        /\ \A m \in Layers \ {l} : leafList'[m] = leafList[m]
    BY <1>2 DEF Inv, TypeInv, TypeOK
  <2>2. Paths(l, leafList[l] \union {n.pos}) =
          Paths(l, leafList[l]) \union Path(l, n.pos)
    BY DEF Paths
  <2>3. \A m \in Layers : /\ Covered(m)' = Covered(m)
                          /\ Writing(m)' = Writing(m)
    BY <1>2 DEF Covered, Writing, Fetching
  <2>4. Asked(l)' = Asked(l)
    BY <1>2, <2>1, <2>2 DEF Asked, Awaits, Paths
  <2>5. \A m \in Layers \ {l} : Asked(m)' = Asked(m)
    BY <1>2, <2>1 DEF Asked, Awaits, Paths
  <2> QED
    BY <1>2, <2>3, <2>4, <2>5 DEF Inv, Books
<1>13. NodeInv'
  <2>1. NodesAt(l)'
    <3>1. Places(l)' = Places(l)
      BY <1>2 DEF Places, LiveBuckets, Buckets
    <3>2. /\ Held(l, InCache)' = Held(l, InCache) \union Held(l, InWire) \union {n}
          /\ Held(l, InHand)' = Held(l, InHand)
          /\ Held(l, InWire)' = {}
          /\ \A b \in LiveBuckets(l) : Held(l, b)' = Held(l, b)
      BY <1>2, <1>4, <1>5, <1>7, ZenonT(60) DEF PlaceFacts, Buckets, c
    <3>3. Unique(l)'
      BY <1>4, <1>6, <3>1, <3>2 DEF PlaceFacts, NodesAt, Unique
    <3>4. Agree(l)'
      <4> SUFFICES ASSUME NEW p \in Places(l), NEW m \in Held(l, p)'
                   PROVE  pmap'[l][m.id] = m.pos
        BY <3>1 DEF Agree
      <4>1. m = n \/ \E q \in Places(l) : m \in Held(l, q)
        BY <1>4, <3>2 DEF PlaceFacts
      <4>2. CASE m = n
        BY <1>3, <1>8, <4>2
      <4>3. CASE \E q \in Places(l) : m \in Held(l, q)
        <5>1. m \in Node /\ m.id # n.id /\ pmap[l][m.id] = m.pos
          BY <1>4, <1>6, <4>3 DEF NodesAt, Agree
        <5> QED
          BY <1>8, <5>1 DEF Node
      <4> QED
        BY <4>1, <4>2, <4>3
    <3>5. Kept(l)'
      <4> SUFFICES ASSUME NEW i \in Ids, Known(l, i)'
                   PROVE  \E p \in Places(l) : \E m \in Held(l, p)' : m.id = i
        BY <3>1 DEF Kept
      <4>1. CASE i = n.id
        BY <1>4, <3>2, <4>1 DEF PlaceFacts
      <4>2. CASE i # n.id
        <5>1. Known(l, i)
          BY <1>3, <1>8, <4>2 DEF Known
        <5>2. PICK q \in Places(l) : \E m \in Held(l, q) : m.id = i
          BY <1>4, <5>1 DEF NodesAt, Kept
        <5> QED
          BY <1>4, <3>2, <5>2 DEF PlaceFacts
      <4> QED
        BY <4>1, <4>2
    <3> QED
      BY <3>3, <3>4, <3>5 DEF NodesAt
  <2>2. ASSUME NEW m \in Layers \ {l} PROVE NodesAt(m)'
    BY <1>2, <1>5, <1>7, <1>8, Stay DEF Inv, NodeInv, Still
  <2> QED
    BY <2>1, <2>2 DEF NodeInv
<1>14. Located'
  BY <1>2 DEF Inv, Located, LiveBuckets
<1>15. Exposure'
  <2>1. \A m \in Layers : IdsOf(cache[m]) \subseteq IdsOf(cache'[m])
    BY <1>7 DEF IdsOf, c
  <2>2. n.id \in IdsOf(cache'[l])
    BY <1>7 DEF IdsOf
  <2> SUFFICES ASSUME NEW m \in Layers, NEW i \in exposed[m]
               PROVE  \/ i \in modified[m] /\ i \in IdsOf(cache'[m])
                      \/ i \in IdsOf(hand[m])
    BY <1>2 DEF Exposure
  <2>3. CASE m = l /\ i = n.id
    BY <1>3, <2>2, <2>3
  <2>4. CASE ~(m = l /\ i = n.id)
    BY <1>2, <2>1, <2>4 DEF Inv, Exposure, Awaits
  <2> QED
    BY <2>3, <2>4
<1> QED
  BY <1>1, <1>9, <1>10, <1>11, <1>12, <1>13, <1>14, <1>15 DEF Inv

LEMMA InvWriteBack ==
  ASSUME Inv, NEW l \in Layers, WriteBack(l)
  PROVE  Inv'
<1>1. TypeInv'
  BY TypeWriteBack DEF Inv
<1>2. /\ call.op = "none" /\ wire.type = "none" /\ phase = "update"
      /\ hand' = [hand EXCEPT ![l] = {}]
      /\ UNCHANGED <<phase, kind, done, grown, call, leafList, readCnt,
                     writeview, pmap, crashed, wire, store, readview, recvOdd,
                     taken, exposed>>
  BY DEF WriteBack, Running, NoCall, Inv, TypeInv, Lockstep, serverVars
<1>3. PICK n \in hand[l] :
        /\ cache' = [cache EXCEPT ![l] = (@ \ Named(@, n.id)) \union {n}]
        /\ modified' = [modified EXCEPT ![l] = @ \union {n.id}]
  BY DEF WriteBack, Touch
<1>4. \A m \in Layers : InFlight(m) = {} /\ InFlight(m)' = {}
  BY <1>2 DEF InFlight
<1>5. /\ cache'[l] = cache[l] \union {n} /\ n \notin cache[l]
      /\ modified'[l] = modified[l] \union {n.id}
      /\ hand[l] = {n} /\ hand'[l] = {}
      /\ \A m \in Layers \ {l} : /\ cache'[m] = cache[m]
                                 /\ hand'[m] = hand[m]
                                 /\ modified'[m] = modified[m]
  <2>1. PlaceFacts(l) /\ Unique(l)
    BY PlacesAre DEF Inv, NodeInv, NodesAt
  <2>2. Named(cache[l], n.id) = {}
    BY <1>3, <2>1 DEF PlaceFacts, Unique, Named
  <2>3. hand[l] = {n}
    BY <1>3 DEF Inv, OneInHand
  <2> QED
    BY <1>2, <1>3, <2>2, <2>3 DEF Inv, TypeInv, TypeOK, Named
<1>6. NobodyCrashes' /\ Waits' /\ Marked' /\ OneInHand'
  BY <1>2, <1>5 DEF Inv, NobodyCrashes, Waits, Marked, OneInHand
<1>7. Phases'
  BY <1>2 DEF Inv, Phases, Awaits
<1>8. Counting'
  BY <1>2 DEF Inv, Counting, Arrived, Fetching
<1>9. Books'
  BY <1>2 DEF Inv, Books, Covered, Asked, Writing, Fetching, Awaits
<1>10. NodeInv'
  BY <1>2, <1>4, <1>5, Gathered DEF Inv
<1>11. Located'
  BY <1>2 DEF Inv, Located, LiveBuckets
<1>12. Exposure'
  <2>1. /\ IdsOf(cache'[l]) = IdsOf(cache[l]) \union {n.id}
        /\ IdsOf(hand[l]) = {n.id}
    BY <1>5 DEF IdsOf
  <2>2. \A m \in Layers \ {l} : /\ IdsOf(cache'[m]) = IdsOf(cache[m])
                                /\ IdsOf(hand'[m]) = IdsOf(hand[m])
    BY <1>5
  <2> QED
    BY <1>2, <1>5, <2>1, <2>2 DEF Inv, Exposure, Awaits
<1> QED
  BY <1>1, <1>6, <1>7, <1>8, <1>9, <1>10, <1>11, <1>12 DEF Inv

LEMMA InvModify ==
  ASSUME Inv, NEW l \in Layers, NEW id \in Ids, NEW x \in Data, Modify(l, id, x)
  PROVE  Inv'
<1> DEFINE M(n) == [n EXCEPT !.id = id, !.data = x]
<1>1. TypeInv'
  BY TypeModify DEF Inv
<1>2. /\ call.op = "none" /\ wire.type = "none" /\ phase = "update"
      /\ UNCHANGED <<phase, kind, grown, call, leafList, readCnt, writeview,
                     crashed, wire, store, readview, recvOdd, taken>>
  BY DEF Modify, Running, NoCall, Inv, TypeInv, Lockstep, serverVars
<1>3. PICK n \in hand[l] :
        /\ id = n.id \/ ~Known(l, id)
        /\ pmap' = [pmap EXCEPT ![l] = Renamed(@, n.id, id)]
        /\ exposed' = [exposed EXCEPT ![l] =
                         {IF i = n.id THEN id ELSE i : i \in @}]
        /\ IF Bottom(l)
             THEN /\ hand' = [hand EXCEPT ![l] = {}]
                  /\ cache' = [cache EXCEPT ![l] =
                                 (@ \ Named(@, id)) \union {M(n)}]
                  /\ modified' = [modified EXCEPT ![l] = @ \union {id}]
             ELSE /\ hand' = [hand EXCEPT ![l] = {M(n)}]
                  /\ UNCHANGED <<cache, modified>>
  BY DEF Modify, Touch
<1>4. PlaceFacts(l) /\ PlaceFacts(l)' /\ NodesAt(l)
  BY PlacesAre DEF Inv, NodeInv
<1>5. /\ n \in Node /\ hand[l] = {n} /\ Known(l, n.id) /\ n.id \in Ids
      /\ pmap[l][n.id] = n.pos
  <2>1. n \in Held(l, InHand)
    BY <1>4 DEF PlaceFacts
  <2>2. n \in Node /\ Known(l, n.id) /\ pmap[l][n.id] = n.pos
    BY <1>4, <2>1, KnownHeld DEF PlaceFacts, Inv, NodesAt, Agree
  <2> QED
    BY <2>2 DEF Inv, OneInHand, Node
<1> DEFINE m == M(n)
<1>6. m \in Node /\ m.id = id /\ m.pos = n.pos
  BY <1>5 DEF Node
<1>7. \A p \in Places(l) : \A k \in Held(l, p) :
        k # n => k \in Node /\ Known(l, k.id) /\ k.id # n.id /\ k.id # id
  <2> SUFFICES ASSUME NEW p \in Places(l), NEW k \in Held(l, p), k # n
               PROVE  k \in Node /\ Known(l, k.id) /\ k.id # n.id /\ k.id # id
    OBVIOUS
  <2>1. k \in Node /\ Known(l, k.id)
    BY <1>4, KnownHeld DEF Inv
  <2>2. k.id # n.id
    BY <1>4, <1>5 DEF PlaceFacts, NodesAt, Unique
  <2> QED
    BY <1>3, <2>1, <2>2
<1> HIDE DEF M, m
<1>8. /\ cache'[l] \union hand'[l] = cache[l] \union {m}
      /\ n \notin cache[l] /\ m \notin cache[l]
      /\ cache'[l] \intersect hand'[l] = {}
      /\ hand'[l] \subseteq {m}
      /\ modified[l] \subseteq modified'[l]
      /\ m \in cache'[l] => id \in modified'[l]
      /\ cache[l] \subseteq cache'[l]
      /\ \A k \in Layers \ {l} : /\ cache'[k] = cache[k]
                                 /\ hand'[k] = hand[k]
                                 /\ modified'[k] = modified[k]
  <2>1. n \notin cache[l]
    BY <1>3, <1>4 DEF PlaceFacts, NodesAt, Unique
  <2>2. m \notin cache[l] /\ Named(cache[l], id) = {}
    BY <1>4, <1>6, <1>7, <2>1 DEF PlaceFacts, Named
  <2>3. CASE Bottom(l)
    <3>1. /\ hand' = [hand EXCEPT ![l] = {}]
          /\ cache' = [cache EXCEPT ![l] = (@ \ Named(@, id)) \union {m}]
          /\ modified' = [modified EXCEPT ![l] = @ \union {id}]
      BY <1>3, <2>3 DEF m
    <3> QED
      BY <2>1, <2>2, <3>1 DEF Inv, TypeInv, TypeOK, Named
  <2>4. CASE ~Bottom(l)
    <3>1. hand' = [hand EXCEPT ![l] = {m}] /\ UNCHANGED <<cache, modified>>
      BY <1>3, <2>4 DEF m
    <3> QED
      BY <2>1, <2>2, <3>1 DEF Inv, TypeInv, TypeOK
  <2> QED
    BY <2>3, <2>4
<1>9. /\ \A i \in Ids : pmap'[l][i] = IF i = id THEN n.pos
                                    ELSE IF i = n.id THEN NoPos ELSE pmap[l][i]
      /\ \A k \in Layers \ {l} : pmap'[k] = pmap[k]
      /\ exposed'[l] = {IF i = n.id THEN id ELSE i : i \in exposed[l]}
      /\ \A k \in Layers \ {l} : exposed'[k] = exposed[k]
  <2>1. pmap'[l] = Renamed(pmap[l], n.id, id)
    BY <1>3 DEF Inv, TypeInv, TypeOK
  <2>2. \A i \in Ids : pmap'[l][i] = IF i = id THEN n.pos
                                    ELSE IF i = n.id THEN NoPos ELSE pmap[l][i]
    BY <1>5, <2>1 DEF Renamed
  <2> QED
    BY <1>3, <2>2 DEF Inv, TypeInv, TypeOK
<1>10. NobodyCrashes' /\ Waits' /\ Marked'
  BY <1>2 DEF Inv, NobodyCrashes, Waits, Marked
<1>11. OneInHand'
  BY <1>8 DEF Inv, OneInHand
<1>12. Phases'
  BY <1>2 DEF Inv, Phases, Awaits
<1>13. Counting'
  BY <1>2 DEF Inv, Counting, Arrived, Fetching
<1>14. Books'
  BY <1>2 DEF Inv, Books, Covered, Asked, Writing, Fetching, Awaits
<1>15. NodeInv'
  <2>0. \A k \in Layers : InFlight(k) = {} /\ InFlight(k)' = {}
    BY <1>2 DEF InFlight
  <2>1. NodesAt(l)'
    <3>1. Places(l)' = Places(l)
      BY <1>2 DEF Places, LiveBuckets, Buckets
    <3>2. /\ Held(l, InCache)' \union Held(l, InHand)' = Held(l, InCache) \union {m}
          /\ Held(l, InCache)' \intersect Held(l, InHand)' = {}
          /\ Held(l, InHand) = {n} /\ n \notin Held(l, InCache)
          /\ Held(l, InWire)' = {} /\ Held(l, InWire) = {}
          /\ \A b \in LiveBuckets(l) : Held(l, b)' = Held(l, b)
      BY <1>2, <1>4, <1>5, <1>8, <2>0 DEF PlaceFacts, Buckets
    <3>3. \A p \in Places(l) : \A k \in Held(l, p)' :
            \/ k = m /\ p \in {InCache, InHand}
            \/ k # n /\ \E q \in Places(l) :
                          /\ k \in Held(l, q)
                          /\ q \in {InCache, InHand} <=> p \in {InCache, InHand}
                          /\ q \notin {InCache, InHand} => q = p
      BY <1>4, <3>2 DEF PlaceFacts, NodesAt, Unique
    <3>4. Unique(l)'
      <4> SUFFICES ASSUME NEW p \in Places(l), NEW q \in Places(l),
                          NEW j \in Held(l, p)', NEW k \in Held(l, q)', j.id = k.id
                   PROVE  j = k /\ p = q
        BY <3>1 DEF Unique
      <4>1. j = k
        BY <1>4, <1>6, <1>7, <3>3 DEF NodesAt, Unique
      <4>2. p \in {InCache, InHand} <=> q \in {InCache, InHand}
        BY <1>4, <1>6, <1>7, <3>3, <4>1 DEF NodesAt, Unique
      <4>3. CASE p \in {InCache, InHand}
        BY <3>2, <4>1, <4>2, <4>3
      <4>4. CASE p \notin {InCache, InHand}
        BY <1>4, <3>3, <4>1, <4>2, <4>4 DEF NodesAt, Unique
      <4> QED
        BY <4>1, <4>3, <4>4
    <3>5. Agree(l)'
      <4> SUFFICES ASSUME NEW p \in Places(l), NEW k \in Held(l, p)'
                   PROVE  pmap'[l][k.id] = k.pos
        BY <3>1 DEF Agree
      <4>1. CASE k = m
        BY <1>6, <1>9, <4>1
      <4>2. CASE k # m
        <5>1. PICK q \in Places(l) : k \in Held(l, q) /\ k # n
          BY <3>3, <4>2
        <5>2. k \in Node /\ k.id # n.id /\ k.id # id /\ pmap[l][k.id] = k.pos
          BY <1>4, <1>7, <5>1 DEF NodesAt, Agree
        <5> QED
          BY <1>9, <5>2 DEF Node
      <4> QED
        BY <4>1, <4>2
    <3>6. Kept(l)'
      <4> SUFFICES ASSUME NEW i \in Ids, Known(l, i)'
                   PROVE  \E p \in Places(l) : \E k \in Held(l, p)' : k.id = i
        BY <3>1 DEF Kept
      <4>1. CASE i = id
        BY <1>4, <1>6, <3>2, <4>1 DEF PlaceFacts
      <4>2. CASE i # id
        <5>1. i # n.id /\ Known(l, i)
          BY <1>9, <4>2 DEF Known
        <5>2. PICK q \in Places(l) : \E k \in Held(l, q) : k.id = i
          BY <1>4, <5>1 DEF NodesAt, Kept
        <5> QED
          BY <1>4, <3>2, <5>1, <5>2 DEF PlaceFacts
      <4> QED
        BY <4>1, <4>2
    <3> QED
      BY <3>4, <3>5, <3>6 DEF NodesAt
  <2>2. ASSUME NEW k \in Layers \ {l} PROVE NodesAt(k)'
    BY <1>2, <1>8, <1>9, <2>0, Stay DEF Inv, NodeInv, Still
  <2> QED
    BY <2>1, <2>2 DEF NodeInv
<1>16. Located'
  BY <1>2 DEF Inv, Located, LiveBuckets
<1>17. Exposure'
  <2> SUFFICES ASSUME NEW k \in Layers, NEW i \in exposed'[k]
               PROVE  \/ i \in modified'[k] /\ i \in IdsOf(cache'[k])
                      \/ i \in IdsOf(hand'[k])
    BY <1>2 DEF Exposure
  <2>1. CASE k # l
    BY <1>2, <1>8, <1>9, <2>1 DEF Inv, Exposure, Awaits
  <2>2. CASE k = l /\ i = id
    BY <1>6, <1>8, <2>2 DEF IdsOf
  <2>3. CASE k = l /\ i # id
    <3>1. i \in exposed[l] /\ i # n.id
      BY <1>9, <2>3
    <3>2. i \in modified[l] /\ i \in IdsOf(cache[l])
      BY <1>2, <1>5, <3>1 DEF Inv, Exposure, Awaits, IdsOf
    <3> QED
      BY <1>8, <2>3, <3>2 DEF IdsOf
  <2> QED
    BY <2>1, <2>2, <2>3
<1> QED
  BY <1>1, <1>10, <1>11, <1>12, <1>13, <1>14, <1>15, <1>16, <1>17 DEF Inv

(***************************************************************************)
(* finish                                                                  *)
(***************************************************************************)
LEMMA InvRemap ==
  ASSUME Inv, NEW l \in Layers, Remap(l)
  PROVE  Inv'
<1>1. TypeInv'
  BY TypeRemap DEF Inv
<1>2. /\ call.op = "none" /\ wire.type = "none" /\ phase = "pad"
      /\ done = Below(l)
      /\ \A m \in Layers : readCnt[m] >= 2
      /\ IF Above(l) = {} THEN phase' = "evict" /\ done' = {}
                          ELSE phase' = phase /\ done' = done \union {l}
      /\ UNCHANGED <<kind, grown, call, hand, modified, leafList, readCnt,
                     writeview, crashed, wire, store, readview, recvOdd, taken>>
  BY DEF Remap, Running, NoCall, Inv, TypeInv, Lockstep, serverVars
<1>3. PICK new \in [IdsOf(cache[l]) \intersect modified[l] -> Leaves(l)] :
        LET nodes == {IF n.id \in DOMAIN new
                        THEN [n EXCEPT !.pos = new[n.id]] ELSE n
                      : n \in cache[l]}
        IN  /\ cache' = [cache EXCEPT ![l] = nodes]
            /\ pmap' = [pmap EXCEPT ![l] = Entries(l, nodes)]
            /\ exposed' = [exposed EXCEPT ![l] = @ \ DOMAIN new]
  BY DEF Remap
<1> DEFINE F(n) == IF n.id \in DOMAIN new THEN [n EXCEPT !.pos = new[n.id]] ELSE n
           nodes == {F(n) : n \in cache[l]}
<1>4. /\ cache'[l] = nodes
      /\ pmap'[l] = Entries(l, nodes)
      /\ exposed'[l] = exposed[l] \ (IdsOf(cache[l]) \intersect modified[l])
      /\ \A m \in Layers \ {l} : /\ cache'[m] = cache[m]
                                 /\ pmap'[m] = pmap[m]
                                 /\ exposed'[m] = exposed[m]
  BY <1>3 DEF Inv, TypeInv, TypeOK
<1>5. \A n \in cache[l] : n \in Node /\ F(n).id = n.id
  BY DEF Inv, TypeInv, TypeOK, Node
<1> HIDE DEF F
<1>6. PlaceFacts(l) /\ PlaceFacts(l)' /\ NodesAt(l)
  BY PlacesAre DEF Inv, NodeInv
<1>7. /\ \A m \in Layers : hand[m] = {}
      /\ \A m \in Layers : InFlight(m) = {} /\ InFlight(m)' = {}
  BY <1>2 DEF Inv, Phases, InFlight
<1>8. /\ exposed'[l] = {}
      /\ \A m \in done : exposed[m] = {}
  <2>1. \A i \in exposed[l] : i \in modified[l] /\ i \in IdsOf(cache[l])
    BY <1>2, <1>7 DEF Inv, Exposure, Awaits, IdsOf
  <2> QED
    BY <1>2, <1>4, <2>1 DEF Inv, Phases
<1>9. NobodyCrashes' /\ Waits' /\ Marked' /\ OneInHand'
  BY <1>2 DEF Inv, NobodyCrashes, Waits, Marked, OneInHand
<1>10. Phases'
  <2>1. \A m \in Layers : readCnt[m] = 2
    BY <1>2 DEF Inv, Counting
  <2>2. CASE Above(l) = {}
    <3>1. \A m \in Layers : m = l \/ m \in done
      BY <1>2, <2>2, LayersAssumption DEF Above, Below
    <3>2. \A m \in Layers : exposed'[m] = {}
      BY <1>4, <1>8, <3>1
    <3> QED
      BY <1>2, <1>7, <2>1, <2>2, <3>2 DEF Phases
  <2>3. CASE Above(l) # {}
    <3>1. \A m \in done' : exposed'[m] = {}
      BY <1>1, <1>2, <1>4, <1>8, <2>3, SMTT(30) DEF Inv, TypeInv, TypeOK
    <3> QED
      BY <1>2, <1>7, <2>3, <3>1 DEF Inv, Phases
  <2> QED
    BY <2>2, <2>3
<1>11. Counting'
  BY <1>2 DEF Inv, Counting, Arrived, Fetching
<1>12. Books'
  BY <1>2 DEF Inv, Books, Covered, Asked, Writing, Fetching, Awaits
<1>13. NodeInv'
  <2>1. NodesAt(l)'
    <3>1. Places(l)' = Places(l)
      BY <1>2 DEF Places, LiveBuckets, Buckets
    <3>2. /\ Held(l, InCache)' = {F(n) : n \in Held(l, InCache)}
          /\ \A p \in Places(l) : p # InCache => Held(l, p)' = Held(l, p)
      BY <1>2, <1>4, <1>6, <1>7, ZenonT(60) DEF PlaceFacts, Buckets
    <3>3. \A n \in Held(l, InCache) : n \in Node /\ F(n).id = n.id
      BY <1>5, <1>6 DEF PlaceFacts
    <3> HIDE DEF nodes
    <3>4. \A n \in Held(l, InCache) : pmap'[l][n.id] = F(n).pos
      <4> SUFFICES ASSUME NEW n \in Held(l, InCache) PROVE pmap'[l][n.id] = F(n).pos
        OBVIOUS
      <4>1. n \in cache[l] /\ n \in Node /\ Known(l, n.id) /\ n.id \in Ids
        BY <1>6, KnownHeld DEF PlaceFacts, Inv, Node
      <4>2. F(n) \in nodes /\ \A k \in nodes : k.id = n.id => k = F(n)
        BY <1>5, <1>6, <4>1 DEF nodes, PlaceFacts, NodesAt, Unique
      <4>3. (CHOOSE k \in nodes : k.id = n.id) = F(n)
        BY <1>5, <4>1, <4>2
      <4>4. Named(nodes, n.id) # {}
        BY <1>5, <4>1, <4>2 DEF Named
      <4> QED
        BY <1>4, <4>1, <4>3, <4>4 DEF Entries
    <3>5. \A i \in Ids : (\A n \in Held(l, InCache) : n.id # i) => pmap'[l][i] = pmap[l][i]
      <4> SUFFICES ASSUME NEW i \in Ids, \A n \in Held(l, InCache) : n.id # i
                   PROVE  pmap'[l][i] = pmap[l][i]
        OBVIOUS
      <4>1. Named(nodes, i) = {}
        BY <1>5, <1>6 DEF Named, nodes, PlaceFacts
      <4> QED
        BY <1>4, <4>1 DEF Entries
    <3>6. Unique(l)'
      <4> SUFFICES ASSUME NEW p \in Places(l), NEW q \in Places(l),
                          NEW j \in Held(l, p)', NEW k \in Held(l, q)', j.id = k.id
                   PROVE  j = k /\ p = q
        BY <3>1 DEF Unique
      <4>1. PICK a \in Held(l, p) : a.id = j.id /\ (p = InCache => j = F(a))
                                    /\ (p # InCache => j = a)
        BY <3>2, <3>3
      <4>2. PICK b \in Held(l, q) : b.id = k.id /\ (q = InCache => k = F(b))
                                    /\ (q # InCache => k = b)
        BY <3>2, <3>3
      <4>3. a = b /\ p = q
        BY <1>6, <4>1, <4>2 DEF NodesAt, Unique
      <4> QED
        BY <4>1, <4>2, <4>3
    <3>7. Agree(l)'
      <4> SUFFICES ASSUME NEW p \in Places(l), NEW k \in Held(l, p)'
                   PROVE  pmap'[l][k.id] = k.pos
        BY <3>1 DEF Agree
      <4>1. CASE p = InCache
        BY <3>2, <3>3, <3>4, <4>1
      <4>2. CASE p # InCache
        <5>1. k \in Held(l, p) /\ k \in Node
          BY <1>6, <3>2, <4>2, KnownHeld DEF Inv
        <5>2. \A n \in Held(l, InCache) : n.id # k.id
          BY <1>6, <4>2, <5>1 DEF PlaceFacts, NodesAt, Unique
        <5>3. pmap[l][k.id] = k.pos /\ k.id \in Ids
          BY <1>6, <5>1 DEF NodesAt, Agree, Node
        <5> QED
          BY <3>5, <5>2, <5>3
      <4> QED
        BY <4>1, <4>2
    <3>8. Kept(l)'
      <4> SUFFICES ASSUME NEW i \in Ids, Known(l, i)'
                   PROVE  \E p \in Places(l) : \E k \in Held(l, p)' : k.id = i
        BY <3>1 DEF Kept
      <4>1. Known(l, i)
        BY <1>4 DEF Known, Entries
      <4>2. PICK q \in Places(l) : \E k \in Held(l, q) : k.id = i
        BY <1>6, <4>1 DEF NodesAt, Kept
      <4> QED
        BY <3>2, <3>3, <4>2
    <3> QED
      BY <3>6, <3>7, <3>8 DEF NodesAt
  <2>2. ASSUME NEW m \in Layers \ {l} PROVE NodesAt(m)'
    BY <1>2, <1>4, <1>7, Stay DEF Inv, NodeInv, Still
  <2> QED
    BY <2>1, <2>2 DEF NodeInv
<1>14. Located'
  BY <1>2 DEF Inv, Located, LiveBuckets
<1>15. Exposure'
  <2> SUFFICES ASSUME NEW m \in Layers, NEW i \in exposed'[m]
               PROVE  \/ i \in modified[m] /\ i \in IdsOf(cache'[m])
                      \/ i \in IdsOf(hand[m])
    BY <1>2 DEF Exposure
  <2>1. m # l
    BY <1>8
  <2> QED
    BY <1>2, <1>4, <2>1 DEF Inv, Exposure, Awaits
<1> QED
  BY <1>1, <1>9, <1>10, <1>11, <1>12, <1>13, <1>14, <1>15 DEF Inv

LEMMA InvEvict ==
  ASSUME Inv, NEW l \in Layers, NEW d \in 0 .. Depth[l], Evict(l, d)
  PROVE  Inv'
<1>1. TypeInv'
  BY TypeEvict DEF Inv
<1>2. /\ call.op = "none" /\ wire.type = "none" /\ phase = "evict"
      /\ call'.op = "evict"
      /\ UNCHANGED <<phase, kind, done, grown, hand, modified, leafList,
                     readCnt, pmap, crashed, store, readview, recvOdd, taken,
                     exposed>>
  BY DEF Evict, Evicting, Running, NoCall, Inv, TypeInv, Lockstep, serverVars
<1>3. PICK b \in Unwritten(l, d) : \E blocks \in SUBSET Intersecting(l, b, d) :
        /\ cache' = [cache EXCEPT ![l] = @ \ blocks]
        /\ writeview' = [writeview EXCEPT ![l] = @ \union {b}]
        /\ wire' = [type |-> "write", layer |-> l, index |-> b, blocks |-> blocks]
  BY DEF Evict
<1>4. PICK blocks \in SUBSET Intersecting(l, b, d) :
        /\ cache' = [cache EXCEPT ![l] = @ \ blocks]
        /\ writeview' = [writeview EXCEPT ![l] = @ \union {b}]
        /\ wire' = [type |-> "write", layer |-> l, index |-> b, blocks |-> blocks]
  BY <1>3
<1>5. /\ cache'[l] = cache[l] \ blocks /\ blocks \subseteq cache[l]
      /\ \A n \in blocks : b \in Path(l, n.pos)
      /\ writeview'[l] = writeview[l] \union {b}
      /\ \A m \in Layers \ {l} : cache'[m] = cache[m] /\ writeview'[m] = writeview[m]
  BY <1>4 DEF Inv, TypeInv, TypeOK, Intersecting, Path, PathBuckets
<1>6. b \in taken[l] /\ b \notin writeview[l]
  <2>1. b \in Paths(l, leafList[l]) /\ b \notin writeview[l]
    BY DEF Unwritten, Paths, Path, PathBuckets
  <2> QED
    BY <1>2, <2>1 DEF Inv, Books, Covered, Asked, Fetching
<1>7. PlaceFacts(l) /\ PlaceFacts(l)' /\ NodesAt(l)
  BY PlacesAre DEF Inv, NodeInv
<1>8. /\ \A m \in Layers : InFlight(m) = {}
      /\ InFlight(l)' = blocks
      /\ \A m \in Layers \ {l} : InFlight(m)' = {}
  BY <1>2, <1>4 DEF InFlight
<1>9. NobodyCrashes' /\ Waits' /\ Marked' /\ OneInHand'
  BY <1>2 DEF Inv, NobodyCrashes, Waits, Marked, OneInHand
<1>10. Phases'
  BY <1>2 DEF Inv, Phases
<1>11. Counting'
  BY <1>2, <1>4 DEF Inv, Counting, Arrived, Fetching
<1>12. Books'
  <2>1. \A m \in Layers : Covered(m)' = Covered(m) /\ Asked(m)' = Asked(m)
    BY <1>2, <1>4 DEF Covered, Asked, Fetching, Awaits, Paths
  <2>2. /\ Writing(l)' = {b} /\ Writing(l) = {}
        /\ \A m \in Layers \ {l} : Writing(m)' = Writing(m)
    BY <1>2, <1>4 DEF Writing
  <2>3. \A m \in Layers \ {l} :
          /\ Covered(m)' \subseteq Asked(m)'
          /\ Asked(m)' \ writeview'[m] \subseteq Covered(m)'
          /\ taken'[m] \intersect writeview'[m] = Writing(m)'
    BY <1>2, <1>5, <2>1, <2>2 DEF Inv, Books
  <2>4. /\ Covered(l)' \subseteq Asked(l)'
        /\ Asked(l)' \ writeview'[l] \subseteq Covered(l)'
        /\ taken'[l] \intersect writeview'[l] = Writing(l)'
    BY <1>2, <1>5, <1>6, <2>1, <2>2 DEF Inv, Books
  <2> QED
    BY <2>3, <2>4 DEF Books
<1>13. NodeInv'
  <2>1. NodesAt(l)'
    <3>1. Places(l)' = Places(l)
      BY <1>2 DEF Places, LiveBuckets, Buckets
    <3>2. /\ Held(l, InCache)' \union Held(l, InWire)' = Held(l, InCache)
          /\ Held(l, InCache)' \intersect Held(l, InWire)' = {}
          /\ Held(l, InWire) = {}
          /\ Held(l, InHand)' = Held(l, InHand)
          /\ \A c \in LiveBuckets(l) : Held(l, c)' = Held(l, c)
      <4>1. /\ Held(l, InCache)' = Held(l, InCache) \ blocks
            /\ Held(l, InWire)' = blocks
            /\ Held(l, InWire) = {}
            /\ Held(l, InHand)' = Held(l, InHand)
            /\ blocks \subseteq Held(l, InCache)
        BY <1>2, <1>5, <1>7, <1>8 DEF PlaceFacts
      <4>2. \A c \in LiveBuckets(l) : Held(l, c)' = Held(l, c)
        BY <1>2, <1>7 DEF PlaceFacts, Buckets
      <4> QED
        BY <4>1, <4>2
    <3>3. \A p \in Places(l) : \A m \in Held(l, p)' : \E q \in Places(l) : m \in Held(l, q)
      BY <1>7, <3>2 DEF PlaceFacts
    <3>4. \A q \in Places(l) : \A m \in Held(l, q) : \E p \in Places(l) : m \in Held(l, p)'
      BY <1>7, <3>2 DEF PlaceFacts
    <3>5. \A p, q \in Places(l) : \A m \in Held(l, p)' : m \in Held(l, q)' => p = q
      BY <1>7, <3>2 DEF PlaceFacts, NodesAt, Unique
    <3> QED
      BY <1>2, <1>7, <3>1, <3>3, <3>4, <3>5, MovedWithin
  <2>2. ASSUME NEW m \in Layers \ {l} PROVE NodesAt(m)'
    BY <1>2, <1>5, <1>8, Stay DEF Inv, NodeInv, Still
  <2> QED
    BY <2>1, <2>2 DEF NodeInv
<1>14. Located'
  BY <1>2, <1>4, <1>5 DEF Inv, Located, LiveBuckets
<1>15. Exposure'
  BY <1>2 DEF Inv, Phases, Exposure
<1> QED
  BY <1>1, <1>9, <1>10, <1>11, <1>12, <1>13, <1>14, <1>15 DEF Inv

(***************************************************************************)
(* The server                                                              *)
(***************************************************************************)
LEMMA InvServeFetch ==
  ASSUME Inv, NEW l \in Layers, l = wire.layer, NEW leaf \in Leaves(l),
         leaf = wire.leaf, ServeFetch
  PROVE  Inv'
<1> DEFINE fresh == Path(l, leaf) \ Started[l]
           blocks == UNION {store[<<l, b>>] : b \in fresh}
<1>1. TypeInv' /\ UNCHANGED crashed
  BY TypeServeFetch DEF Inv
<1>2. /\ wire.type = "fetch"
      /\ UNCHANGED <<phase, kind, done, grown, call, cache, hand, modified,
                     leafList, readCnt, writeview, pmap, exposed>>
  BY DEF ServeFetch, clientVars
<1>3. fresh \subseteq Buckets(l)
  BY PathsInTree
<1>4. /\ wire' = [type |-> "path", layer |-> l, blocks |-> blocks]
      /\ recvOdd' = [recvOdd EXCEPT ![l] = ~@]
      /\ readview' = [Started EXCEPT ![l] = @ \union fresh]
      /\ taken' = [taken EXCEPT ![l] = @ \union fresh]
      /\ UNCHANGED store
  BY <1>3 DEF ServeFetch
<1>5. /\ call.op \in {"read", "write", "pad"}
      /\ writeview[l] = {}
      /\ \A m \in Layers : writeview[m] = {}
  BY <1>2 DEF Inv, TypeInv, TypeOK, Lockstep, Phases
<1>6. /\ Arrived(l) = readCnt[l] - 1 /\ readCnt[l] \in {1, 2}
      /\ recvOdd[l] \in BOOLEAN
      /\ \A m \in Layers \ {l} : Arrived(m) = readCnt[m]
      /\ \A m \in Layers : Arrived(m)' = readCnt[m]
  BY <1>2, <1>4 DEF Inv, Counting, Arrived, Fetching, TypeInv, TypeOK
<1>7. Started[l] = taken[l]
  <2>1. CASE recvOdd[l] = TRUE
    BY <2>1 DEF Inv, Counting, Started
  <2>2. CASE recvOdd[l] = FALSE
    <3>1. Arrived(l) # 1
      BY <2>2 DEF Inv, Counting
    <3>2. Arrived(l) = 0
      BY <1>6, <3>1
    <3> QED
      BY <2>2, <3>2 DEF Inv, Counting, Started
  <2> QED
    BY <1>6, <2>1, <2>2
<1> HIDE DEF blocks
<1>8. /\ taken'[l] = taken[l] \union Path(l, leaf)
      /\ readview'[l] = taken'[l]
      /\ \A m \in Layers \ {l} : taken'[m] = taken[m] /\ readview'[m] = Started[m]
      /\ recvOdd'[l] = ~recvOdd[l]
      /\ \A m \in Layers \ {l} : recvOdd'[m] = recvOdd[m]
  BY <1>4, <1>7 DEF Inv, TypeInv, TypeOK, Started
<1>9. NobodyCrashes' /\ Waits' /\ Marked' /\ OneInHand'
  BY <1>1, <1>2 DEF Inv, NobodyCrashes, Waits, Marked, OneInHand, Known
<1>10. Phases'
  BY <1>2 DEF Inv, Phases, Awaits
<1>11. Counting'
  <2> SUFFICES ASSUME NEW m \in Layers
               PROVE  /\ readCnt[m] \in 0 .. 2
                      /\ recvOdd'[m] <=> readCnt[m] = 1
                      /\ readCnt[m] = 0 => taken'[m] = {}
                      /\ recvOdd'[m] => readview'[m] = taken'[m]
    BY <1>2, <1>4, <1>6 DEF Counting, Fetching
  <2>1. CASE m = l
    <3>1. recvOdd[l] <=> readCnt[l] = 2
      <4>1. recvOdd[l] <=> Arrived(l) = 1
        BY DEF Inv, Counting
      <4> QED
        BY <1>6, <4>1
    <3>2. recvOdd'[l] <=> readCnt[l] = 1
      <4>1. recvOdd'[l] <=> ~recvOdd[l]
        BY <1>8
      <4> QED
        BY <1>6, <3>1, <4>1
    <3> QED
      BY <1>6, <1>8, <2>1, <3>2, SMTT(30)
  <2>2. CASE m # l
    <3>1. /\ readCnt[m] \in 0 .. 2
          /\ recvOdd[m] <=> readCnt[m] = 1
          /\ readCnt[m] = 0 => taken[m] = {}
          /\ recvOdd[m] => readview[m] = taken[m]
      BY <1>6, <2>2 DEF Inv, Counting
    <3>2. recvOdd[m] => Started[m] = readview[m]
      BY DEF Started
    <3> QED
      BY <1>8, <2>2, <3>1, <3>2
  <2> QED
    BY <2>1, <2>2
<1>12. Books'
  <2>1. \A m \in Layers : /\ Covered(m)' = Covered(m)
                          /\ Writing(m)' = Writing(m) /\ Writing(m) = {}
    BY <1>2, <1>4, <1>8 DEF Covered, Writing, Fetching
  <2>2. \A m \in Layers : Asked(m)' = Asked(m)
    BY <1>2 DEF Asked, Awaits, Paths
  <2> QED
    BY <1>2, <1>5, <2>1, <2>2 DEF Inv, Books
<1>13. NodeInv'
  <2>0. /\ \A m \in Layers : InFlight(m) = {}
        /\ InFlight(l)' = blocks
        /\ \A m \in Layers \ {l} : InFlight(m)' = {}
    BY <1>2, <1>4 DEF InFlight
  <2>1. NodesAt(l)'
    <3>1. PlaceFacts(l) /\ PlaceFacts(l)' /\ NodesAt(l)
      BY PlacesAre DEF Inv, NodeInv
    <3>2. fresh \subseteq LiveBuckets(l) /\ LiveBuckets(l)' = LiveBuckets(l) \ fresh
      BY <1>3, <1>7, <1>8, <3>1 DEF PlaceFacts, LiveBuckets, Buckets
    <3>3. /\ Held(l, InCache)' = Held(l, InCache)
          /\ Held(l, InHand)' = Held(l, InHand)
          /\ Held(l, InWire) = {}
          /\ \A n : n \in Held(l, InWire)' <=> \E b \in fresh : n \in Held(l, b)
          /\ \A b \in LiveBuckets(l) \ fresh : Held(l, b)' = Held(l, b)
      <4>1. /\ Held(l, InCache)' = Held(l, InCache)
            /\ Held(l, InHand)' = Held(l, InHand)
            /\ Held(l, InWire) = {}
            /\ Held(l, InWire)' = blocks
        BY <1>2, <2>0, <3>1 DEF PlaceFacts
      <4>2. \A b \in Buckets(l) : Held(l, b)' = Held(l, b) /\ Held(l, b) = store[<<l, b>>]
        BY <1>4, <3>1 DEF PlaceFacts, Buckets
      <4>3. \A n : n \in blocks <=> \E b \in fresh : n \in store[<<l, b>>]
        BY DEF blocks
      <4> HIDE DEF fresh
      <4>4. \A n : n \in Held(l, InWire)' <=> \E b \in fresh : n \in Held(l, b)
        <5>1. \A b \in fresh : Held(l, b) = store[<<l, b>>]
          BY <1>3, <4>2
        <5> QED
          BY <4>1, <4>3, <5>1
      <4>5. ASSUME NEW b \in LiveBuckets(l) \ fresh
            PROVE  Held(l, b)' = Held(l, b)
        <5>1. b \in Buckets(l)
          BY DEF LiveBuckets
        <5> QED
          BY <4>2, <5>1
      <4> QED
        BY <4>1, <4>4, <4>5
    <3> HIDE DEF fresh
    <3>4. \A p \in Places(l)' : \A m \in Held(l, p)' : \E q \in Places(l) : m \in Held(l, q)
      BY <3>1, <3>2, <3>3 DEF PlaceFacts
    <3>5. \A q \in Places(l) : \A m \in Held(l, q) : \E p \in Places(l)' : m \in Held(l, p)'
      BY <3>1, <3>2, <3>3 DEF PlaceFacts
    <3>6. \A p, q \in Places(l)' : \A m \in Held(l, p)' : m \in Held(l, q)' => p = q
      BY <3>1, <3>2, <3>3 DEF PlaceFacts, NodesAt, Unique
    <3> QED
      BY <1>2, <3>1, <3>4, <3>5, <3>6, MovedWithin
  <2>2. ASSUME NEW m \in Layers \ {l} PROVE NodesAt(m)'
    BY <1>2, <1>4, <1>8, <2>0, Stay, SMTT(30) DEF Inv, NodeInv, Still
  <2> QED
    BY <2>1, <2>2 DEF NodeInv
<1>14. Located'
  <2>1. \A m \in Layers : LiveBuckets(m)' \subseteq LiveBuckets(m)
    BY <1>8 DEF LiveBuckets, Buckets
  <2> QED
    BY <1>4, <2>1 DEF Inv, Located
<1>15. Exposure'
  BY <1>2 DEF Inv, Exposure, Awaits
<1> QED
  BY <1>1, <1>9, <1>10, <1>11, <1>12, <1>13, <1>14, <1>15 DEF Inv

LEMMA InvServeWrite ==
  ASSUME Inv, NEW l \in Layers, l = wire.layer, NEW b \in Buckets(l),
         b = wire.index, ServeWrite
  PROVE  Inv'
<1>1. TypeInv'
  BY TypeServeWrite DEF Inv
<1>2. /\ wire.type = "write" /\ wire' = [type |-> "ack"]
      /\ readview' = Started
      /\ store' = [store EXCEPT ![<<l, b>>] = wire.blocks]
      /\ taken' = [taken EXCEPT ![l] = @ \ {b}]
      /\ UNCHANGED <<phase, kind, done, grown, call, cache, hand, modified,
                     leafList, readCnt, writeview, pmap, crashed, recvOdd,
                     exposed>>
  BY DEF ServeWrite, clientVars
<1>3. phase = "evict" /\ call.op = "evict"
  BY <1>2 DEF Inv, TypeInv, TypeOK, Lockstep, Phases
<1>4. /\ taken'[l] = taken[l] \ {b}
      /\ \A m \in Layers \ {l} : taken'[m] = taken[m]
      /\ store'[<<l, b>>] = wire.blocks
      /\ \A m \in Layers : \A c \in Buckets(m) :
           ~(m = l /\ c = b) => store'[<<m, c>>] = store[<<m, c>>]
  <2>1. \A m \in Layers : \A c \in Buckets(m) : <<m, c>> \in Tree
    BY DEF Tree
  <2> QED
    BY <1>2, <2>1 DEF Inv, TypeInv, TypeOK
<1>5. b \in taken[l] /\ b \in writeview[l]
  BY <1>2 DEF Inv, Books, Writing
<1>6. NobodyCrashes' /\ Waits' /\ Marked' /\ OneInHand'
  BY <1>2 DEF Inv, NobodyCrashes, Waits, Marked, OneInHand, Known
<1>7. Phases'
  BY <1>2 DEF Inv, Phases, Awaits
<1>8. Counting'
  <2>1. \A m \in Layers : readCnt[m] = 2 /\ ~recvOdd[m]
    BY <1>2, <1>3 DEF Inv, Phases, Counting, Arrived, Fetching
  <2> QED
    BY <1>2, <2>1 DEF Counting, Arrived, Fetching
<1>9. Books'
  <2>1. \A m \in Layers : Asked(m)' = Asked(m) /\ Covered(m) = taken[m]
                          /\ Covered(m)' = taken'[m]
    BY <1>2 DEF Asked, Covered, Fetching, Awaits, Paths
  <2>2. /\ Writing(l) = {b} /\ \A m \in Layers \ {l} : Writing(m) = {}
        /\ \A m \in Layers : Writing(m)' = {}
    BY <1>2 DEF Writing
  <2>3. \A m \in Layers \ {l} :
          /\ Covered(m)' \subseteq Asked(m)'
          /\ Asked(m)' \ writeview'[m] \subseteq Covered(m)'
          /\ taken'[m] \intersect writeview'[m] = Writing(m)'
    BY <1>2, <1>4, <2>1, <2>2 DEF Inv, Books
  <2>4. /\ Covered(l)' \subseteq Asked(l)'
        /\ Asked(l)' \ writeview'[l] \subseteq Covered(l)'
        /\ taken'[l] \intersect writeview'[l] = Writing(l)'
    BY <1>2, <1>4, <1>5, <2>1, <2>2 DEF Inv, Books
  <2> QED
    BY <2>3, <2>4 DEF Books
<1>10. NodeInv'
  <2>0. /\ InFlight(l) = wire.blocks
        /\ \A m \in Layers \ {l} : InFlight(m) = {}
        /\ \A m \in Layers : InFlight(m)' = {}
    BY <1>2 DEF InFlight
  <2>1. NodesAt(l)'
    <3>1. PlaceFacts(l) /\ PlaceFacts(l)' /\ NodesAt(l)
      BY PlacesAre DEF Inv, NodeInv
    <3>2. LiveBuckets(l)' = LiveBuckets(l) \union {b} /\ b \notin LiveBuckets(l)
      BY <1>4, <1>5 DEF LiveBuckets, Buckets
    <3>3. /\ Held(l, InCache)' = Held(l, InCache)
          /\ Held(l, InHand)' = Held(l, InHand)
          /\ Held(l, InWire)' = {}
          /\ Held(l, b)' = Held(l, InWire)
          /\ \A c \in LiveBuckets(l) : Held(l, c)' = Held(l, c)
      <4>1. /\ Held(l, InCache)' = Held(l, InCache)
            /\ Held(l, InHand)' = Held(l, InHand)
            /\ Held(l, InWire)' = {}
            /\ Held(l, InWire) = wire.blocks
        BY <1>2, <2>0, <3>1 DEF PlaceFacts
      <4>2. Held(l, b)' = wire.blocks
        BY <1>4, <3>1 DEF PlaceFacts, Buckets
      <4>3. \A c \in LiveBuckets(l) : c \in Buckets(l) /\ c # b
        BY <3>2 DEF LiveBuckets
      <4>4. ASSUME NEW c \in LiveBuckets(l) PROVE Held(l, c)' = Held(l, c)
        <5>1. c \in Buckets(l) /\ c # b
          BY <4>3
        <5>2. store'[<<l, c>>] = store[<<l, c>>]
          BY <1>4, <5>1
        <5>3. Held(l, c)' = store'[<<l, c>>] /\ Held(l, c) = store[<<l, c>>]
          BY <3>1, <5>1 DEF PlaceFacts, Buckets
        <5> QED
          BY <5>2, <5>3
      <4> QED
        BY <4>1, <4>2, <4>4
    <3>4. \A p \in Places(l)' : \A m \in Held(l, p)' : \E q \in Places(l) : m \in Held(l, q)
      BY <3>1, <3>2, <3>3 DEF PlaceFacts
    <3>5. \A q \in Places(l) : \A m \in Held(l, q) : \E p \in Places(l)' : m \in Held(l, p)'
      BY <3>1, <3>2, <3>3 DEF PlaceFacts
    <3>6. \A p, q \in Places(l)' : \A m \in Held(l, p)' : m \in Held(l, q)' => p = q
      BY <3>1, <3>2, <3>3 DEF PlaceFacts, NodesAt, Unique
    <3> QED
      BY <1>2, <3>1, <3>4, <3>5, <3>6, MovedWithin
  <2>2. ASSUME NEW m \in Layers \ {l} PROVE NodesAt(m)'
    BY <1>2, <1>4, <2>0, Stay DEF Inv, NodeInv, Still
  <2> QED
    BY <2>1, <2>2 DEF NodeInv
<1>11. Located'
  <2>1. \A m \in Layers : \A c \in LiveBuckets(m)' :
          (m = l /\ c = b) \/ (c \in LiveBuckets(m) /\ ~(m = l /\ c = b))
    BY <1>4, <1>5 DEF LiveBuckets, Buckets
  <2>2. \A m \in Layers : LiveBuckets(m) \subseteq Buckets(m)
    BY DEF LiveBuckets
  <2> QED
    BY <1>2, <1>4, <2>1, <2>2 DEF Inv, Located
<1>12. Exposure'
  BY <1>2 DEF Inv, Exposure, Awaits
<1> QED
  BY <1>1, <1>6, <1>7, <1>8, <1>9, <1>10, <1>11, <1>12 DEF Inv

(***************************************************************************)
(* The invariant, and the properties it gives                              *)
(***************************************************************************)
LEMMA InvStutter ==
  ASSUME Inv, UNCHANGED vars
  PROVE  Inv'
<1>1. /\ UNCHANGED <<phase, kind, done, grown, call, answer, cache, hand, modified>>
      /\ UNCHANGED <<leafList, readCnt, writeview, pmap, crashed, wire>>
      /\ UNCHANGED <<store, readview, recvOdd, taken, exposed>>
  BY DEF vars, clientVars, serverVars
<1>2. TypeInv'
  BY <1>1 DEF Inv, TypeInv, TypeOK, InRange, Lockstep
<1>3. NobodyCrashes' /\ Phases' /\ Waits' /\ Counting' /\ OneInHand' /\ Marked'
  BY <1>1 DEF Inv, NobodyCrashes, Phases, Waits, Counting, OneInHand, Marked,
              Awaits, Arrived, Fetching, Known
<1>4. Books' /\ Located' /\ Exposure'
  BY <1>1 DEF Inv, Books, Located, Exposure, Awaits, Fetching, Covered, Asked,
              Writing, Paths, LiveBuckets
<1>5. NodeInv'
  BY <1>1, AllStill DEF Inv, Still, InFlight
<1> QED
  BY <1>2, <1>3, <1>4, <1>5 DEF Inv

LEMMA InvClient ==
  ASSUME SplitsKept', Inv, Client
  PROVE  Inv'
<1>1. CASE \E l \in Layers, i \in Ids : ReadCached(l, i) \/ ReadRemote(l, i)
  BY <1>1, InvReadCached, InvReadRemote
<1>2. CASE ReceiveRead
  <2>1. call.layer \in Layers
    BY <1>2, Merging DEF ReceiveRead, Answers
  <2> QED
    BY <1>2, <2>1, InvReceiveRead
<1>3. CASE \E l \in Layers, i \in Ids, x \in Data : Modify(l, i, x)
  BY <1>3, InvModify
<1>4. CASE \E l \in Layers, i \in Ids, x \in Data :
             \E p \in Leaves(l) \union LeavesOf(SplitDepth[l]) :
               WriteNew(l, i, x, p)
  BY <1>4, InvWriteNew
<1>5. CASE ReceiveWrite
  <2>1. call.layer \in Layers /\ call.op = "write"
    BY <1>5, Merging DEF ReceiveWrite, Answers
  <2>2. call.node \in NodeIn(call.layer)
    BY <2>1 DEF Inv, TypeInv, InRange
  <2> QED
    BY <1>5, <2>1, <2>2, InvReceiveWrite
<1>6. CASE \E l \in Layers : WriteBack(l)
  BY <1>6, InvWriteBack
<1>7. CASE EndUpdate
  BY <1>7, InvEndUpdate
<1>8. CASE \E l \in Layers : \E leaf \in Leaves(l) : Pad(l, leaf)
  BY <1>8, InvPad
<1>9. CASE ReceivePad
  <2>1. call.layer \in Layers
    BY <1>9, Merging DEF ReceivePad, Answers
  <2> QED
    BY <1>9, <2>1, InvReceivePad
<1>10. CASE \E l \in Layers : Remap(l)
  BY <1>10, InvRemap
<1>11. CASE \E l \in Layers : \E d \in 0 .. Depth[l] : Evict(l, d)
  BY <1>11, InvEvict
<1>12. CASE ReceiveAck
  BY <1>12, InvReceiveAck
<1>13. CASE \E l \in Layers : EndEvict(l)
  BY <1>13, InvEndEvict
<1> QED
  BY <1>1, <1>2, <1>3, <1>4, <1>5, <1>6, <1>7, <1>8, <1>9, <1>10, <1>11,
     <1>12, <1>13 DEF Client

LEMMA InvServer ==
  ASSUME Inv, Server
  PROVE  Inv'
<1>1. CASE ServeFetch
  <2>1. wire.type = "fetch"
    BY <1>1 DEF ServeFetch
  <2>2. wire.layer \in Layers
    BY <2>1 DEF Inv, TypeInv, TypeOK, Message, Silence
  <2>3. wire.leaf \in Leaves(wire.layer)
    BY <2>1 DEF Inv, TypeInv, InRange
  <2> QED
    BY <1>1, <2>2, <2>3, InvServeFetch
<1>2. CASE ServeWrite
  <2>1. wire.type = "write"
    BY <1>2 DEF ServeWrite
  <2>2. wire.layer \in Layers
    BY <2>1 DEF Inv, TypeInv, TypeOK, Message, Silence
  <2>3. wire.index \in Buckets(wire.layer)
    BY <2>1 DEF Inv, TypeInv, InRange
  <2> QED
    BY <1>2, <2>2, <2>3, InvServeWrite
<1> QED
  BY <1>1, <1>2 DEF Server

LEMMA InvStep ==
  ASSUME SplitsKept', Inv, [Next]_vars
  PROVE  Inv'
BY InvStutter, InvBegin, InvClient, InvServer DEF Next

(* If splits draw positions of the right tree, every step of the client     *)
(* (client.cpp, from part_init to finish) and of the server (server.cpp,    *)
(* ORAM.cpp) preserves the invariant that relates their records.            *)
THEOREM Invariance == Spec /\ []SplitsKept => []Inv
<1>1. Inv /\ SplitsKept' /\ [Next]_vars => Inv'
  BY InvStep
<1> QED
  BY InvInit, <1>1, PTL DEF Spec

(* If splits draw positions of the right tree, every Read...Node that asks  *)
(* the server (client.cpp: Readmid1Node, Readmid2Node, ReadleafNode) finds  *)
(* its node on the path its parent's entry names, and the server finds      *)
(* every bucket of that path.                                               *)
THEOREM ReadsFindTheirNode ==
  Spec /\ []SplitsKept => []NobodyCrashes
<1>1. Inv => NobodyCrashes
  BY DEF Inv
<1> QED
  BY Invariance, <1>1, PTL

(* If splits draw positions of the right tree, a node in a bucket that the  *)
(* client has not taken is on the path of its position, and that position   *)
(* is the one its parent's entry names, across remapping (finish), splits   *)
(* (Insert, Update) and eviction (Write...Path).                            *)
THEOREM NodesStayOnTheirPath ==
  Spec /\ []SplitsKept => []OnItsPath
<1>1. Inv => OnItsPath
  <2> SUFFICES ASSUME Inv, NEW l \in Layers, NEW b \in LiveBuckets(l),
                      NEW n \in store[<<l, b>>]
               PROVE  b \in Path(l, n.pos) /\ pmap[l][n.id] = n.pos
    BY DEF OnItsPath
  <2>1. b \in Path(l, n.pos)
    BY DEF Inv, Located
  <2>2. PlaceFacts(l)
    BY PlacesAre
  <2>3. b \in Places(l) /\ n \in Held(l, b)
    BY <2>2 DEF PlaceFacts, LiveBuckets
  <2>4. pmap[l][n.id] = n.pos
    BY <2>3 DEF Inv, NodeInv, NodesAt, Agree
  <2> QED
    BY <2>1, <2>4
<1> QED
  BY Invariance, <1>1, PTL

(* If splits draw positions of the right tree, Write...Path only overwrites *)
(* buckets whose blocks the client fetched in the same operation.           *)
THEOREM OnlyTakenIsOverwritten ==
  Spec /\ []SplitsKept => []WritesOnlyTaken
<1>1. Inv => WritesOnlyTaken
  <2> SUFFICES ASSUME Inv, wire.type = "write"
               PROVE  wire.index \in taken[wire.layer]
    BY DEF WritesOnlyTaken
  <2>1. wire.layer \in Layers
    BY DEF Inv, TypeInv, TypeOK, Message, Silence
  <2> QED
    BY <2>1 DEF Inv, Books, Writing
<1> QED
  BY Invariance, <1>1, PTL

(* The parts of Inv that say where nodes are, together. *)
LEMMA InvKeepsNodes ==
  ASSUME Inv PROVE NoNodeLost
<1> SUFFICES ASSUME NEW l \in Layers
             PROVE  /\ IdsOf(Live(l)) = {i \in Ids : Known(l, i)}
                    /\ \A m, n \in Live(l) : m.id = n.id => m = n
  BY DEF NoNodeLost
<1>1. TypeInv /\ NodesAt(l) /\ PlaceFacts(l)
  BY PlacesAre DEF Inv, NodeInv
<1>2. \A n : n \in Live(l) <=> \E p \in Places(l) : n \in Held(l, p)
  <2>1. \A n : n \in InStore(l) <=> \E b \in LiveBuckets(l) : n \in store[<<l, b>>]
    BY DEF InStore
  <2>2. \A b \in LiveBuckets(l) : Held(l, b) = store[<<l, b>>]
    BY <1>1 DEF PlaceFacts, LiveBuckets
  <2>3. \A n : n \in Live(l) <=> \/ n \in Held(l, InCache)
                                 \/ n \in Held(l, InHand)
                                 \/ n \in Held(l, InWire)
                                 \/ n \in InStore(l)
    BY <1>1 DEF Live, PlaceFacts
  <2>4. ASSUME NEW n, NEW p \in Places(l), n \in Held(l, p)
        PROVE  n \in Live(l)
    BY <1>1, <2>1, <2>2, <2>3, <2>4 DEF PlaceFacts
  <2>5. ASSUME NEW n \in InStore(l)
        PROVE  \E p \in Places(l) : n \in Held(l, p)
    <3>1. PICK b \in LiveBuckets(l) : n \in store[<<l, b>>]
      BY <2>1, <2>5
    <3>2. b \in Places(l) /\ n \in Held(l, b)
      BY <1>1, <2>2, <3>1 DEF PlaceFacts
    <3> QED
      BY <3>2
  <2>6. /\ InCache \in Places(l) /\ InHand \in Places(l)
        /\ InWire \in Places(l)
    BY <1>1 DEF PlaceFacts
  <2>7. ASSUME NEW n \in Live(l)
        PROVE  \E p \in Places(l) : n \in Held(l, p)
    BY <2>3, <2>5, <2>6
  <2> QED
    BY <2>4, <2>7
<1>3. \A n \in Live(l) : n.id \in Ids /\ Known(l, n.id)
  BY <1>1, <1>2, KnownHeld DEF Node
<1>4. \A i \in Ids : Known(l, i) => \E n \in Live(l) : n.id = i
  BY <1>1, <1>2 DEF NodesAt, Kept
<1>5. \A m, n \in Live(l) : m.id = n.id => m = n
  BY <1>1, <1>2 DEF NodesAt, Unique
<1> QED
  BY <1>3, <1>4, <1>5 DEF IdsOf

(* If splits draw positions of the right tree, the cache, the connection    *)
(* and the server hold between them exactly one node for every entry of a   *)
(* parent, whatever is fetched, evicted, split and remapped (Fetch...Path,  *)
(* Write...Path, FetchPath, WriteBucket).                                   *)
THEOREM NodesAreKept ==
  Spec /\ []SplitsKept => []NoNodeLost
<1>1. Inv => NoNodeLost
  BY InvKeepsNodes
<1> QED
  BY Invariance, <1>1, PTL

(* If splits draw positions of the right tree, the server holds the whole   *)
(* tree of every layer between operations, each ORAM was fetched from an    *)
(* even number of times (so ORAM::start forgets its readviewmap), and the   *)
(* client has no node outside its caches.                                   *)
THEOREM QuietBetween ==
  Spec /\ []SplitsKept => []QuietBetweenOperations
<1>1. Inv => QuietBetweenOperations
  <2> SUFFICES ASSUME Inv, phase = "idle", NEW l \in Layers
               PROVE  taken[l] = {} /\ ~recvOdd[l] /\ hand[l] = {}
    BY DEF QuietBetweenOperations
  <2>1. /\ call.op = "none" /\ hand[l] = {} /\ leafList[l] = {}
        /\ readCnt[l] \in {0, 2}
    BY DEF Inv, Phases
  <2>2. wire.type = "none"
    BY <2>1 DEF Inv, TypeInv, Lockstep
  <2>3. taken[l] = {}
    BY <2>1, <2>2 DEF Inv, Books, Covered, Asked, Paths, Fetching, Awaits
  <2>4. ~recvOdd[l]
    BY <2>1, <2>2 DEF Inv, Counting, Arrived, Fetching
  <2> QED
    BY <2>1, <2>3, <2>4
<1> QED
  BY Invariance, <1>1, PTL

(* If splits draw positions of the right tree, a position the server saw    *)
(* requested is no longer that of the node it was requested for when the    *)
(* operation ends: finish drew another for it, renamed or new as it may be. *)
THEOREM AccessesAreRemapped ==
  Spec /\ []SplitsKept => []RemappedAfterAccess
<1>1. Inv => RemappedAfterAccess
  BY DEF Inv, Phases, RemappedAfterAccess
<1> QED
  BY Invariance, <1>1, PTL

(***************************************************************************)
(* Sizes                                                                   *)
(***************************************************************************)
LEMMA FiniteOnto ==
  ASSUME NEW S, IsFiniteSet(S), NEW T, NEW f \in [S -> T],
         \A t \in T : \E s \in S : f[s] = t
  PROVE  IsFiniteSet(T)
<1>1. f \in Surjection(S, T)
  BY DEF Surjection
<1> QED
  BY <1>1, FS_Surjection

LEMMA SizedInit == Init => Sized
BY FS_EmptySet, TreesAssumption DEF Init, Sized, Silence

(* only the cache of layer l changes, if any *)
LEMMA SizedCache ==
  ASSUME TypeOK, Sized, NEW l \in Layers, NEW c, IsFiniteSet(c),
         cache' = [cache EXCEPT ![l] = c] \/ UNCHANGED cache,
         wire'.type \notin {"path", "write"} \/ UNCHANGED wire,
         UNCHANGED store
  PROVE  Sized'
<1>1. \A m \in Layers : IsFiniteSet(cache'[m])
  BY DEF TypeOK, Sized
<1> QED
  BY <1>1 DEF Sized

LEMMA SizedMerged ==
  ASSUME Sized, NEW l \in Layers, wire.type = "path"
  PROVE  IsFiniteSet(Merged(l, wire.blocks))
<1>1. IsFiniteSet(cache[l]) /\ IsFiniteSet(wire.blocks)
  BY DEF Sized
<1>2. IsFiniteSet({n \in wire.blocks : Named(cache[l], n.id) = {}})
  BY <1>1, FS_Subset
<1> QED
  BY <1>1, <1>2, FS_Union DEF Merged

LEMMA SizedReplaced ==
  ASSUME NEW c, IsFiniteSet(c), NEW i, NEW n
  PROVE  /\ IsFiniteSet(c \ Named(c, i))
         /\ IsFiniteSet((c \ Named(c, i)) \union {n})
<1>1. IsFiniteSet(c \ Named(c, i))
  BY FS_Subset
<1> QED
  BY <1>1, FS_AddElement

LEMMA SizedDeliver ==
  ASSUME TypeOK, Sized, NEW l \in Layers, NEW c, IsFiniteSet(c), NEW n,
         Deliver(l, n, c),
         wire'.type \notin {"path", "write"} \/ UNCHANGED wire,
         UNCHANGED store
  PROVE  Sized'
<1>1. \/ cache' = [cache EXCEPT ![l] = c \ Named(c, n.id)]
      \/ cache' = [cache EXCEPT ![l] = (c \ Named(c, n.id)) \union {n}]
  BY DEF Deliver
<1>2. /\ IsFiniteSet(c \ Named(c, n.id))
      /\ IsFiniteSet((c \ Named(c, n.id)) \union {n})
  BY SizedReplaced
<1> QED
  BY <1>1, <1>2, SizedCache

LEMMA SizedRemap ==
  ASSUME TypeOK, Sized, NEW l \in Layers, Remap(l)
  PROVE  Sized'
<1>1. PICK new \in [IdsOf(cache[l]) \intersect modified[l] -> Leaves(l)] :
        cache' = [cache EXCEPT ![l] =
          {IF n.id \in DOMAIN new THEN [n EXCEPT !.pos = new[n.id]] ELSE n :
           n \in cache[l]}]
  BY DEF Remap
<1> DEFINE image == [n \in cache[l] |-> IF n.id \in DOMAIN new
                                          THEN [n EXCEPT !.pos = new[n.id]] ELSE n]
           nodes == {IF n.id \in DOMAIN new
                       THEN [n EXCEPT !.pos = new[n.id]] ELSE n : n \in cache[l]}
<1>2. /\ image \in [cache[l] -> nodes]
      /\ \A m \in nodes : \E n \in cache[l] : image[n] = m
  OBVIOUS
<1>3. IsFiniteSet(cache[l])
  BY DEF Sized
<1> HIDE DEF image, nodes
<1>4. IsFiniteSet(nodes)
  BY <1>2, <1>3, FiniteOnto
<1>5. cache' = [cache EXCEPT ![l] = nodes] /\ UNCHANGED <<wire, store>>
  BY <1>1 DEF nodes, Remap, serverVars
<1> QED
  BY <1>4, <1>5, SizedCache

LEMMA SizedEvict ==
  ASSUME TypeOK, Sized, NEW l \in Layers, NEW d, Evict(l, d)
  PROVE  Sized'
<1>1. PICK b, blocks :
        /\ FirstOf(Intersecting(l, b, d), blocks)
        /\ cache' = [cache EXCEPT ![l] = @ \ blocks]
        /\ wire' = [type |-> "write", layer |-> l, index |-> b, blocks |-> blocks]
        /\ UNCHANGED store
  BY DEF Evict, serverVars
<1>2. IsFiniteSet(Intersecting(l, b, d))
  BY FS_Subset DEF Sized, Intersecting
<1>3. IsFiniteSet(blocks)
  BY <1>1, <1>2, FS_Subset DEF FirstOf
<1>4. Cardinality(blocks) <= Z
  <2>1. /\ Cardinality(Intersecting(l, b, d)) \in Nat
        /\ Cardinality(blocks) =
             IF Cardinality(Intersecting(l, b, d)) < Z
               THEN Cardinality(Intersecting(l, b, d)) ELSE Z
    BY <1>1, <1>2, FS_CardinalityType DEF FirstOf
  <2> QED
    BY <2>1, TreesAssumption
<1>5. \A m \in Layers : IsFiniteSet(cache'[m])
  <2>1. IsFiniteSet(cache[l] \ blocks)
    BY FS_Subset DEF Sized
  <2> QED
    BY <1>1, <2>1 DEF TypeOK, Sized
<1> QED
  BY <1>1, <1>3, <1>4, <1>5 DEF Sized

LEMMA SizedServeFetch ==
  ASSUME TypeOK, Sized, ServeFetch
  PROVE  Sized'
<1>1. CASE UNCHANGED <<wire, store>>
  BY <1>1 DEF ServeFetch, clientVars, Sized
<1>2. CASE ~UNCHANGED <<wire, store>>
  <2> DEFINE l     == wire.layer
             fresh == Path(l, wire.leaf) \ Started[l]
             read  == {store[<<l, b>>] : b \in fresh}
             f     == [b \in fresh |-> store[<<l, b>>]]
  <2>1. /\ l \in Layers
        /\ fresh \subseteq Buckets(l)
        /\ wire' = [type |-> "path", layer |-> l, blocks |-> UNION read]
        /\ UNCHANGED <<cache, store>>
    <3>1. l \in Layers
      BY DEF ServeFetch, TypeOK, Message, Silence
    <3>2. fresh \subseteq Buckets(l)
      BY <1>2 DEF ServeFetch, serverVars
    <3> QED
      BY <3>1, <3>2 DEF ServeFetch, clientVars
  <2>2. IsFiniteSet(fresh)
    <3>1. BucketCount(Depth[l]) - 1 \in Int
      BY <2>1, TreesAssumption DEF BucketCount
    <3>2. IsFiniteSet(Buckets(l))
      BY <3>1, FS_Interval DEF Buckets
    <3> QED
      BY <2>1, <3>2, FS_Subset
  <2>3. f \in [fresh -> read] /\ \A s \in read : \E b \in fresh : f[b] = s
    OBVIOUS
  <2>4. \A s \in read : IsFiniteSet(s)
    <3>1. \A b \in fresh : <<l, b>> \in Tree
      BY <2>1 DEF Tree
    <3> QED
      BY <3>1 DEF Sized
  <2> HIDE DEF fresh, read, f, l
  <2>5. IsFiniteSet(UNION read)
    BY <2>2, <2>3, <2>4, FiniteOnto, FS_UNION
  <2> QED
    BY <2>1, <2>5 DEF Sized
<1> QED
  BY <1>1, <1>2

LEMMA SizedStep ==
  ASSUME Inv, Sized, [Next]_vars
  PROVE  Sized'
<1> USE DEF clientVars, serverVars, Silence
<1>0. TypeOK /\ \A l \in Layers : IsFiniteSet(cache[l])
  BY DEF Inv, TypeInv, Sized
<1>1. CASE UNCHANGED <<cache, wire, store>>
  BY <1>1 DEF Sized
<1>2. CASE UNCHANGED <<cache, store>> /\ wire'.type \notin {"path", "write"}
  BY <1>2 DEF Sized
<1>3. ASSUME NEW l \in Layers, NEW i \in Ids, ReadCached(l, i)
      PROVE  Sized'
  BY <1>0, <1>3, SizedDeliver DEF ReadCached
<1>4. CASE ReceiveRead
  <2>1. wire.type = "path" /\ call.layer \in Layers
    BY <1>4, Merging DEF ReceiveRead, Answers
  <2>2. IsFiniteSet(Merged(call.layer, wire.blocks))
    BY <2>1, SizedMerged
  <2>3. wire'.type \notin {"path", "write"} /\ UNCHANGED store
    BY <1>4 DEF ReceiveRead, Answers
  <2>4. CASE \E n : Deliver(call.layer, n, Merged(call.layer, wire.blocks))
    BY <1>0, <2>1, <2>2, <2>3, <2>4, SizedDeliver
  <2>5. CASE cache' = [cache EXCEPT ![call.layer] = Merged(call.layer, wire.blocks)]
    BY <1>0, <2>1, <2>2, <2>3, <2>5, SizedCache
  <2> QED
    BY <1>4, <2>4, <2>5 DEF ReceiveRead
<1>5. CASE ReceivePad
  <2>1. wire.type = "path" /\ call.layer \in Layers
    BY <1>5, Merging DEF ReceivePad, Answers
  <2> QED
    BY <1>0, <1>5, <2>1, SizedMerged, SizedCache DEF ReceivePad, Answers
<1>6. CASE ReceiveWrite
  <2> DEFINE c == Merged(call.layer, wire.blocks)
  <2>1. wire.type = "path" /\ call.layer \in Layers
    BY <1>6, Merging DEF ReceiveWrite, Answers
  <2>2. IsFiniteSet((c \ Named(c, call.node.id)) \union {call.node})
    BY <2>1, SizedMerged, SizedReplaced
  <2>3. /\ cache' = [cache EXCEPT ![call.layer] =
                       (c \ Named(c, call.node.id)) \union {call.node}]
        /\ wire'.type \notin {"path", "write"} /\ UNCHANGED store
    BY <1>6 DEF ReceiveWrite, Answers
  <2> HIDE DEF c
  <2> QED
    BY <1>0, <2>1, <2>2, <2>3, SizedCache
<1>7. ASSUME NEW l \in Layers, NEW id \in Ids, NEW x \in Data, Modify(l, id, x)
      PROVE  Sized'
  <2>1. PICK m : \/ cache' = [cache EXCEPT ![l] =
                                (cache[l] \ Named(cache[l], id)) \union {m}]
                 \/ UNCHANGED cache
    BY <1>7 DEF Modify
  <2>2. IsFiniteSet((cache[l] \ Named(cache[l], id)) \union {m})
    BY <1>0, SizedReplaced
  <2> QED
    BY <1>0, <1>7, <2>1, <2>2, SizedCache DEF Modify
<1>8. ASSUME NEW l \in Layers, WriteBack(l)
      PROVE  Sized'
  <2>1. PICK n : cache' = [cache EXCEPT ![l] =
                             (cache[l] \ Named(cache[l], n.id)) \union {n}]
    BY <1>8 DEF WriteBack
  <2>2. IsFiniteSet((cache[l] \ Named(cache[l], n.id)) \union {n})
    BY <1>0, SizedReplaced
  <2> QED
    BY <1>0, <1>8, <2>1, <2>2, SizedCache DEF WriteBack
<1>9. ASSUME NEW l \in Layers, Remap(l)
      PROVE  Sized'
  BY <1>0, <1>9, SizedRemap
<1>10. ASSUME NEW l \in Layers, NEW d, Evict(l, d)
       PROVE  Sized'
  BY <1>0, <1>10, SizedEvict
<1>11. CASE Client
  BY <1>1, <1>2, <1>3, <1>4, <1>5, <1>6, <1>7, <1>8, <1>9, <1>10, <1>11
  DEF Client, ReadRemote, WriteNew, EndUpdate, Pad, ReceiveAck, EndEvict, SendFetch
<1>12. CASE ServeFetch
  BY <1>0, <1>12, SizedServeFetch
<1>13. CASE ServeWrite
  BY <1>0, <1>13 DEF ServeWrite, Sized, TypeOK
<1>14. CASE \E k \in {"first", "insert", "search"} : Begin(k)
  BY <1>1, <1>14 DEF Begin
<1>15. CASE UNCHANGED vars
  BY <1>1, <1>15 DEF vars
<1> QED
  BY <1>11, <1>12, <1>13, <1>14, <1>15 DEF Next, Server

(* If splits draw positions of the right tree, Write...Path never fills a   *)
(* bucket beyond its Z blocks: it takes at most Z of the nodes that          *)
(* GetIntersectingBlocks finds, and WriteBucket stores what it was sent.    *)
THEOREM BucketsHoldZ ==
  Spec /\ []SplitsKept => []BucketsFit
<1>1. Inv /\ Sized /\ SplitsKept' /\ [Next]_vars => (Inv /\ Sized)'
  BY InvStep, SizedStep
<1>2. Init => Inv /\ Sized
  BY InvInit, SizedInit
<1>3. Sized => BucketsFit
  BY DEF Sized, BucketsFit
<1> QED
  BY <1>1, <1>2, <1>3, PTL DEF Spec

-----------------------------------------------------------------------------
(* 3. The refinement of BlockStore *)

Bare(n) == [id |-> n.id, data |-> n.data]
Content(l) == {Bare(n) : n \in Live(l)}

LEMMA ContentIs ==
  /\ [l \in Layers |-> {[id |-> n.id, data |-> n.data] : n \in Live(l)}] =
       [l \in Layers |-> Content(l)]
  /\ [l \in Layers |-> {[id |-> n.id, data |-> n.data] : n \in Live(l)'}] =
       [l \in Layers |-> Content(l)']
BY DEF Content, Bare

LiveFacts ==
  \A l \in Layers :
    /\ Live(l) \subseteq Node
    /\ \A m, n \in Live(l) : m.id = n.id => m = n
    /\ \A n \in Live(l) : Known(l, n.id)
    /\ \A i \in Ids : Known(l, i) => \E n \in Live(l) : n.id = i

LEMMA LiveNodes == Inv => LiveFacts
<1> SUFFICES ASSUME Inv, NEW l \in Layers
             PROVE  /\ Live(l) \subseteq Node
                    /\ \A m, n \in Live(l) : m.id = n.id => m = n
                    /\ \A n \in Live(l) : Known(l, n.id)
                    /\ \A i \in Ids : Known(l, i) => \E n \in Live(l) : n.id = i
  BY DEF LiveFacts
<1>1. NoNodeLost
  BY InvKeepsNodes
<1>2. cache[l] \union hand[l] \union InFlight(l) \subseteq Node
  BY DEF Inv, TypeInv, InRange, NodeIn, InFlight
<1>3. \A b \in Buckets(l) : store[<<l, b>>] \subseteq Node
  BY DEF Inv, TypeInv, InRange, NodeIn
<1>4. InStore(l) \subseteq Node
  BY <1>3 DEF InStore, LiveBuckets
<1> QED
  BY <1>1, <1>2, <1>4 DEF NoNodeLost, IdsOf, Node, Live

LEMMA LiveNodesNext == Inv' => LiveFacts'
BY LiveNodes, PTL

(* A layer in which nothing new appears keeps its content. *)
LEMMA Unchanged ==
  ASSUME Inv, Inv', NEW l \in Layers,
         \A i \in Ids : Known(l, i) => Known(l, i)',
         \A n \in Live(l)' : \E m \in Live(l) : Bare(m) = Bare(n)
  PROVE  Content(l)' = Content(l)
<1>1. /\ Live(l) \subseteq Node
      /\ \A m, n \in Live(l) : m.id = n.id => m = n
      /\ \A n \in Live(l) : Known(l, n.id)
  BY LiveNodes DEF LiveFacts
<1>2. \A i \in Ids : Known(l, i)' => \E n \in Live(l)' : n.id = i
  BY LiveNodesNext DEF LiveFacts
<1>3. Content(l)' \subseteq Content(l)
  BY DEF Content
<1>4. ASSUME NEW m \in Live(l)
      PROVE  \E n \in Live(l)' : Bare(n) = Bare(m)
  <2>1. m.id \in Ids /\ Known(l, m.id)'
    BY <1>1 DEF Node
  <2>2. PICK n \in Live(l)' : n.id = m.id
    BY <1>2, <2>1
  <2>3. PICK k \in Live(l) : Bare(k) = Bare(n)
    OBVIOUS
  <2>4. k.id = m.id
    BY <2>2, <2>3 DEF Bare
  <2> QED
    BY <1>1, <2>3, <2>4
<1> QED
  BY <1>3, <1>4 DEF Content

LEMMA StoreStays ==
  ASSUME UNCHANGED <<store, taken>>, NEW l \in Layers
  PROVE  InStore(l)' = InStore(l)
BY DEF InStore, LiveBuckets, Buckets

(* A step that moves nodes between places at most *)
LEMMA MovesOnly ==
  ASSUME Inv, Inv', UNCHANGED <<pmap, answer>>,
         \A l \in Layers : Live(l)' \subseteq Live(l)
  PROVE  UNCHANGED Blocks!vars
<1>1. ASSUME NEW l \in Layers PROVE Content(l)' = Content(l)
  <2>1. \A i \in Ids : Known(l, i) => Known(l, i)'
    BY DEF Known
  <2> QED
    BY <2>1, Unchanged
<1> QED
  BY <1>1, ContentIs DEF Blocks!vars

(* ... and between the cache, the hand and the connection only *)
LEMMA MovesAtClient ==
  ASSUME Inv, Inv', UNCHANGED <<pmap, answer, store, taken>>,
         \A l \in Layers : cache'[l] \union hand'[l] \union InFlight(l)'
                             \subseteq cache[l] \union hand[l] \union InFlight(l)
  PROVE  UNCHANGED Blocks!vars
<1>1. \A l \in Layers : Live(l)' \subseteq Live(l)
  BY StoreStays DEF Live
<1> QED
  BY <1>1, MovesOnly

(***************************************************************************)
(* Steps that do not show                                                  *)
(***************************************************************************)
LEMMA NoMove ==
  ASSUME Inv, Inv', wire'.type \in {"none", "fetch", "ack"},
         UNCHANGED <<pmap, answer, store, taken, cache, hand>>
  PROVE  UNCHANGED Blocks!vars
<1>1. \A l \in Layers : InFlight(l)' = {}
  BY DEF InFlight
<1> QED
  BY <1>1, MovesAtClient

LEMMA SilentSteps ==
  ASSUME Inv, Inv',
         \/ \E l \in Layers, i \in Ids : ReadRemote(l, i)
         \/ \E l \in Layers, i \in Ids, x \in Data :
              \E p \in Leaves(l) \union LeavesOf(SplitDepth[l]) : WriteNew(l, i, x, p)
         \/ EndUpdate
         \/ \E l \in Layers : \E leaf \in Leaves(l) : Pad(l, leaf)
         \/ ReceiveAck
         \/ \E l \in Layers : EndEvict(l)
  PROVE  UNCHANGED Blocks!vars
<1>1. Running => wire.type = "none"
  BY DEF Running, NoCall, Inv, TypeInv, Lockstep
<1>2. CASE \E l \in Layers, i \in Ids : ReadRemote(l, i)
  BY <1>2, NoMove DEF ReadRemote, SendFetch, serverVars
<1>3. CASE \E l \in Layers, i \in Ids, x \in Data :
             \E p \in Leaves(l) \union LeavesOf(SplitDepth[l]) : WriteNew(l, i, x, p)
  BY <1>3, NoMove DEF WriteNew, SendFetch, serverVars
<1>4. CASE EndUpdate
  BY <1>1, <1>4, NoMove DEF EndUpdate, serverVars
<1>5. CASE \E l \in Layers : \E leaf \in Leaves(l) : Pad(l, leaf)
  BY <1>5, NoMove DEF Pad, SendFetch, serverVars
<1>6. CASE ReceiveAck
  BY <1>6, NoMove DEF ReceiveAck, Silence, serverVars
<1>7. CASE \E l \in Layers : EndEvict(l)
  BY <1>1, <1>7, NoMove DEF EndEvict, Evicting, serverVars
<1> QED
  BY <1>2, <1>3, <1>4, <1>5, <1>6, <1>7

LEMMA PadMoves ==
  ASSUME Inv, Inv', ReceivePad
  PROVE  UNCHANGED Blocks!vars
<1>1. /\ wire.type = "path" /\ wire'.type = "none"
      /\ cache' = [cache EXCEPT ![call.layer] = Merged(call.layer, wire.blocks)]
      /\ UNCHANGED <<answer, hand, pmap, store, taken>>
  BY DEF ReceivePad, Answers, Silence, serverVars
<1>2. /\ call.layer \in Layers
      /\ InFlight(call.layer) = wire.blocks
      /\ Merged(call.layer, wire.blocks) = cache[call.layer] \union wire.blocks
  BY <1>1, Merging
<1>3. \A l \in Layers : InFlight(l)' = {}
  BY <1>1 DEF InFlight
<1>4. \A l \in Layers : cache'[l] \subseteq cache[l] \union InFlight(l)
  BY <1>1, <1>2 DEF Inv, TypeInv, TypeOK
<1> QED
  BY <1>1, <1>3, <1>4, MovesAtClient

LEMMA WriteBackMoves ==
  ASSUME Inv, Inv', NEW l \in Layers, WriteBack(l)
  PROVE  UNCHANGED Blocks!vars
<1>1. /\ wire.type = "none" /\ wire' = wire
      /\ hand' = [hand EXCEPT ![l] = {}]
      /\ UNCHANGED <<answer, pmap, store, taken>>
  BY DEF WriteBack, Running, NoCall, Inv, TypeInv, Lockstep, serverVars
<1>2. PICK n \in hand[l] :
        cache' = [cache EXCEPT ![l] = (@ \ Named(@, n.id)) \union {n}]
  BY DEF WriteBack
<1>3. \A m \in Layers : InFlight(m)' = {}
  BY <1>1 DEF InFlight
<1>4. \A m \in Layers : /\ cache'[m] \subseteq cache[m] \union hand[m]
                        /\ hand'[m] \subseteq hand[m]
  BY <1>1, <1>2 DEF Inv, TypeInv, TypeOK
<1> QED
  BY <1>1, <1>3, <1>4, MovesAtClient

LEMMA EvictMoves ==
  ASSUME Inv, Inv', NEW l \in Layers, NEW d \in 0 .. Depth[l], Evict(l, d)
  PROVE  UNCHANGED Blocks!vars
<1>1. UNCHANGED <<answer, hand, pmap, store, taken>>
  BY DEF Evict, serverVars
<1>2. PICK b \in Unwritten(l, d) : \E blocks \in SUBSET Intersecting(l, b, d) :
        /\ cache' = [cache EXCEPT ![l] = @ \ blocks]
        /\ wire' = [type |-> "write", layer |-> l, index |-> b, blocks |-> blocks]
  BY DEF Evict
<1>3. PICK blocks \in SUBSET Intersecting(l, b, d) :
        /\ cache' = [cache EXCEPT ![l] = @ \ blocks]
        /\ wire' = [type |-> "write", layer |-> l, index |-> b, blocks |-> blocks]
  BY <1>2
<1>4. blocks \subseteq cache[l]
  BY DEF Intersecting
<1>5. \A m \in Layers : /\ InFlight(m)' \subseteq cache[m]
                        /\ cache'[m] \subseteq cache[m]
  BY <1>3, <1>4 DEF InFlight, Inv, TypeInv, TypeOK
<1> QED
  BY <1>1, <1>5, MovesAtClient

(* The server leaves out the dead buckets, so what it sends was live. *)
LEMMA FetchMoves ==
  ASSUME Inv, Inv', ServeFetch
  PROVE  UNCHANGED Blocks!vars
<1> DEFINE l == wire.layer
           fresh == Path(l, wire.leaf) \ Started[l]
<1>1. /\ wire.type = "fetch" /\ l \in Layers /\ wire.leaf \in Leaves(l)
      /\ UNCHANGED <<answer, cache, hand, pmap, readCnt>>
  BY DEF ServeFetch, clientVars, Inv, TypeInv, TypeOK, InRange, Message, Silence
<1>2. fresh \subseteq Buckets(l)
  BY <1>1, PathsInTree
<1>3. /\ wire' = [type |-> "path", layer |-> l,
                  blocks |-> UNION {store[<<l, b>>] : b \in fresh}]
      /\ taken' = [taken EXCEPT ![l] = @ \union fresh]
      /\ UNCHANGED store
  BY <1>2 DEF ServeFetch
<1>4. Started[l] = taken[l]
  <2>1. /\ Arrived(l) = readCnt[l] - 1 /\ readCnt[l] \in {1, 2}
        /\ recvOdd[l] \in BOOLEAN
    BY <1>1 DEF Inv, Counting, Arrived, Fetching, TypeInv, TypeOK
  <2>2. CASE recvOdd[l] = TRUE
    BY <1>1, <2>2 DEF Inv, Counting, Started
  <2>3. CASE recvOdd[l] = FALSE
    <3>1. Arrived(l) # 1
      BY <1>1, <2>3 DEF Inv, Counting
    <3>2. Arrived(l) = 0
      BY <2>1, <3>1
    <3> QED
      BY <1>1, <2>3, <3>2 DEF Inv, Counting, Started
  <2> QED
    BY <2>1, <2>2, <2>3
<1>5. fresh \subseteq LiveBuckets(l)
  BY <1>2, <1>4 DEF LiveBuckets
<1>6. \A m \in Layers : taken[m] \subseteq taken'[m]
  BY <1>1, <1>3 DEF Inv, TypeInv, TypeOK
<1>7. \A m \in Layers : LiveBuckets(m)' \subseteq LiveBuckets(m)
  BY <1>6 DEF LiveBuckets, Buckets
<1>8. \A m \in Layers : InStore(m)' \subseteq InStore(m)
  BY <1>3, <1>7 DEF InStore
<1>9. \A m \in Layers : InFlight(m)' \subseteq InStore(m)
  BY <1>3, <1>5 DEF InFlight, InStore
<1>10. \A m \in Layers : Live(m)' \subseteq Live(m)
  BY <1>1, <1>8, <1>9 DEF Live
<1> QED
  BY <1>1, <1>10, MovesOnly

LEMMA WriteMoves ==
  ASSUME Inv, Inv', ServeWrite
  PROVE  UNCHANGED Blocks!vars
<1> DEFINE l == wire.layer
           b == wire.index
<1>1. /\ wire.type = "write" /\ l \in Layers /\ b \in Buckets(l)
      /\ wire'.type = "ack"
      /\ store' = [store EXCEPT ![<<l, b>>] = wire.blocks]
      /\ taken' = [taken EXCEPT ![l] = @ \ {b}]
      /\ UNCHANGED <<answer, cache, hand, pmap>>
  BY DEF ServeWrite, clientVars, Inv, TypeInv, TypeOK, InRange, Message, Silence
<1>2. \A m \in Layers : InFlight(m)' = {}
  BY <1>1 DEF InFlight
<1>3. ASSUME NEW m \in Layers, NEW n \in InStore(m)'
      PROVE  n \in InStore(m) \union InFlight(m)
  <2>1. PICK k \in LiveBuckets(m)' : n \in store'[<<m, k>>]
    BY <1>3 DEF InStore
  <2>2. k \in Buckets(m) /\ k \notin taken'[m] /\ <<m, k>> \in Tree
    BY <2>1 DEF LiveBuckets, Buckets, Tree
  <2>3. CASE <<m, k>> = <<l, b>>
    <3>1. store'[<<m, k>>] = wire.blocks
      BY <1>1, <2>2, <2>3 DEF Inv, TypeInv, TypeOK
    <3> QED
      BY <1>1, <2>1, <2>3, <3>1 DEF InFlight
  <2>4. CASE <<m, k>> # <<l, b>>
    <3>1. store'[<<m, k>>] = store[<<m, k>>]
      BY <1>1, <2>2, <2>4 DEF Inv, TypeInv, TypeOK
    <3>2. k \notin taken[m]
      BY <1>1, <2>2, <2>4 DEF Inv, TypeInv, TypeOK
    <3> QED
      BY <2>1, <2>2, <3>1, <3>2 DEF InStore, LiveBuckets
  <2> QED
    BY <2>3, <2>4
<1>4. \A m \in Layers : Live(m)' \subseteq Live(m)
  BY <1>1, <1>2, <1>3 DEF Live
<1> QED
  BY <1>1, <1>4, MovesOnly

(* finish moves a node to another path: its content stays. *)
LEMMA RemapMoves ==
  ASSUME Inv, Inv', NEW l \in Layers, Remap(l)
  PROVE  UNCHANGED Blocks!vars
<1>1. UNCHANGED <<answer, hand, wire, store, taken>> /\ wire.type = "none"
  BY DEF Remap, Running, NoCall, Inv, TypeInv, Lockstep, serverVars
<1>2. PICK new \in [IdsOf(cache[l]) \intersect modified[l] -> Leaves(l)] :
        LET nodes == {IF n.id \in DOMAIN new
                        THEN [n EXCEPT !.pos = new[n.id]] ELSE n
                      : n \in cache[l]}
        IN  /\ cache' = [cache EXCEPT ![l] = nodes]
            /\ pmap' = [pmap EXCEPT ![l] = Entries(l, nodes)]
  BY DEF Remap
<1> DEFINE F(n) == IF n.id \in DOMAIN new THEN [n EXCEPT !.pos = new[n.id]] ELSE n
           nodes == {F(n) : n \in cache[l]}
<1>3. /\ cache'[l] = nodes
      /\ pmap'[l] = Entries(l, nodes)
      /\ \A m \in Layers \ {l} : cache'[m] = cache[m] /\ pmap'[m] = pmap[m]
  BY <1>2 DEF Inv, TypeInv, TypeOK
<1>4. \A n \in cache[l] : Bare(F(n)) = Bare(n) /\ F(n).pos # NoPos
  <2>1. cache[l] \subseteq Node
    BY DEF Inv, TypeInv, TypeOK
  <2> QED
    BY <2>1, LeavesNat DEF Node, Bare, NoPos
<1> HIDE DEF F
<1>5. \A m \in Layers : \A i \in Ids : Known(m, i) => Known(m, i)'
  <2> SUFFICES ASSUME NEW i \in Ids, Known(l, i) PROVE Known(l, i)'
    BY <1>3 DEF Known
  <2>1. CASE Named(nodes, i) # {}
    <3>1. (CHOOSE n \in nodes : n.id = i) \in nodes
      BY <2>1 DEF Named
    <3> QED
      BY <1>3, <1>4, <2>1, <3>1 DEF Known, Entries
  <2>2. CASE Named(nodes, i) = {}
    BY <1>3, <2>2 DEF Known, Entries
  <2> QED
    BY <2>1, <2>2
<1>6. \A m \in Layers : InStore(m)' = InStore(m) /\ InFlight(m)' = {}
  BY <1>1, StoreStays DEF InFlight
<1>7. ASSUME NEW m \in Layers, NEW n \in Live(m)'
      PROVE  \E k \in Live(m) : Bare(k) = Bare(n)
  <2>1. CASE n \in cache'[m]
    <3>1. \E k \in cache[m] : Bare(k) = Bare(n)
      BY <1>3, <1>4, <2>1
    <3> QED
      BY <3>1 DEF Live
  <2>2. CASE n \in hand[m] \union InStore(m)
    BY <2>2 DEF Live
  <2> QED
    BY <1>1, <1>6, <1>7, <2>1, <2>2 DEF Live
<1>8. \A m \in Layers : Content(m)' = Content(m)
  BY <1>5, <1>7, Unchanged
<1> QED
  BY <1>1, <1>8, ContentIs DEF Blocks!vars

(***************************************************************************)
(* Steps that do                                                           *)
(***************************************************************************)

(* A node of the layer is delivered and nothing else happens to the content. *)
LEMMA Reads ==
  ASSUME Inv, Inv', NEW l \in Layers, NEW n \in Live(l),
         answer' = {[layer |-> l, id |-> n.id, data |-> n.data]},
         UNCHANGED <<pmap, store, taken>>,
         \A m \in Layers : cache'[m] \union hand'[m] \union InFlight(m)'
                             \subseteq cache[m] \union hand[m] \union InFlight(m)
  PROVE  Blocks!Read(l)
<1>1. \A m \in Layers : Live(m)' \subseteq Live(m)
  BY StoreStays DEF Live
<1>2. \A m \in Layers : Content(m)' = Content(m)
  <2> SUFFICES ASSUME NEW m \in Layers PROVE Content(m)' = Content(m)
    OBVIOUS
  <2>1. \A i \in Ids : Known(m, i) => Known(m, i)'
    BY DEF Known
  <2> QED
    BY <1>1, <2>1, Unchanged
<1>3. /\ Bare(n) \in Content(l)
      /\ answer' = {[layer |-> l, id |-> Bare(n).id, data |-> Bare(n).data]}
  BY DEF Content, Bare
<1> QED
  BY <1>2, <1>3, ContentIs DEF Blocks!Read

LEMMA ReadCachedReads ==
  ASSUME Inv, Inv', NEW l \in Layers, NEW i \in Ids, ReadCached(l, i)
  PROVE  Blocks!Read(l)
<1>1. /\ wire.type = "none" /\ phase = "descend" /\ l \notin done
      /\ hand[l] = {}
      /\ UNCHANGED <<pmap, wire, store, taken>>
  BY NotBeyondItself
  DEF ReadCached, Descends, Running, NoCall, Inv, TypeInv, Lockstep, Phases,
      serverVars
<1>2. PICK n \in Named(cache[l], i) :
        Deliver(l, [n EXCEPT !.pos = IF l = Mid1 THEN n.pos ELSE pmap[l][i]],
                cache[l])
  BY DEF ReadCached
<1>3. PlaceFacts(l)
  BY PlacesAre
<1>4. [n EXCEPT !.pos = IF l = Mid1 THEN n.pos ELSE pmap[l][i]] = n
  <2>1. n \in cache[l] /\ n.id = i /\ n \in Node
    BY DEF Named, Inv, TypeInv, TypeOK
  <2>2. pmap[l][i] = n.pos
    BY <1>3, <2>1 DEF PlaceFacts, Inv, NodeInv, NodesAt, Agree
  <2> QED
    BY <2>1, <2>2, SamePos
<1>5. Deliver(l, n, cache[l]) /\ n \in cache[l]
  BY <1>2, <1>4 DEF Named
<1>6. Handed(l, n, cache[l])
  <2>1. \A m, k \in cache[l] : m.id = k.id => m = k
    BY <1>3 DEF PlaceFacts, Inv, NodeInv, NodesAt, Unique
  <2>2. cache[l] \in SUBSET NodeIn(l)
    BY DEF Inv, TypeInv, InRange
  <2> QED
    BY <1>1, <1>5, <2>1, <2>2, DeliverHands DEF Inv
<1>7. answer' = {[layer |-> l, id |-> n.id, data |-> n.data]}
  BY <1>5 DEF Deliver
<1>8. \A m \in Layers : /\ InFlight(m)' = {}
                        /\ cache'[m] \union hand'[m] \subseteq cache[m] \union hand[m]
  BY <1>1, <1>6 DEF Handed, InFlight
<1>9. n \in Live(l)
  BY <1>5 DEF Live
<1> QED
  BY <1>1, <1>7, <1>8, <1>9, Reads

LEMMA ReceiveReadReads ==
  ASSUME Inv, Inv', ReceiveRead
  PROVE  \E l \in Layers : Blocks!Read(l)
<1> DEFINE l == call.layer
           c == Merged(l, wire.blocks)
<1>1. /\ call.op = "read" /\ wire.type = "path" /\ wire'.type = "none"
      /\ UNCHANGED <<pmap, store, taken>>
  BY DEF ReceiveRead, Answers, Silence, serverVars
<1>2. /\ l \in Layers /\ c = cache[l] \union wire.blocks
      /\ InFlight(l) = wire.blocks
      /\ c \in SUBSET NodeIn(l)
      /\ \A m, n \in c : m.id = n.id => m = n
  BY <1>1, Merging
<1>3. /\ hand[l] = {} /\ pmap[l][call.id] = call.leaf
  BY <1>1, <1>2 DEF Inv, Phases, TypeInv, TypeOK, Waits
<1>4. Named(c, call.id) # {}
  BY <1>1, ReadFinds
<1>5. PICK n \in Named(c, call.id) : Deliver(l, [n EXCEPT !.pos = call.leaf], c)
  BY <1>4 DEF ReceiveRead
<1> HIDE DEF c
<1>6. n \in c /\ n.id = call.id /\ n \in Node
  BY <1>2 DEF Named, NodeIn
<1>7. [n EXCEPT !.pos = call.leaf] = n
  <2>1. PlaceFacts(l)
    BY <1>2, PlacesAre
  <2>2. n \in Held(l, InCache) \/ n \in Held(l, InWire)
    BY <1>2, <1>6, <2>1 DEF PlaceFacts
  <2>3. n.pos = call.leaf
    BY <1>2, <1>3, <1>6, <2>1, <2>2 DEF PlaceFacts, Inv, NodeInv, NodesAt, Agree
  <2> QED
    BY <1>6, <2>3, SamePos
<1>8. Deliver(l, n, c)
  BY <1>5, <1>7
<1>9. Handed(l, n, c)
  BY <1>2, <1>3, <1>6, <1>8, DeliverHands DEF Inv
<1>10. answer' = {[layer |-> l, id |-> n.id, data |-> n.data]}
  BY <1>8 DEF Deliver
<1>11. \A m \in Layers : InFlight(m)' = {}
  BY <1>1 DEF InFlight
<1>12. \A m \in Layers : cache'[m] \union hand'[m] \subseteq
                           cache[m] \union hand[m] \union InFlight(m)
  BY <1>2, <1>9 DEF Handed
<1>13. n \in Live(l)
  BY <1>2, <1>6 DEF Live
<1> QED
  BY <1>1, <1>2, <1>10, <1>11, <1>12, <1>13, Reads

(* Another operation begins: the answer of the last one is forgotten. *)
LEMMA BeginForgets ==
  ASSUME Inv, Inv', NEW k \in {"first", "insert", "search"}, Begin(k)
  PROVE  Blocks!Forget
<1>1. /\ answer' = {} /\ UNCHANGED <<pmap, wire, store, taken, cache, hand>>
  BY DEF Begin, serverVars
<1>2. ASSUME NEW l \in Layers PROVE Content(l)' = Content(l)
  <2>1. Live(l)' \subseteq Live(l)
    BY <1>1, StoreStays DEF Live, InFlight
  <2>2. \A i \in Ids : Known(l, i) => Known(l, i)'
    BY <1>1 DEF Known
  <2> QED
    BY <2>1, <2>2, Unchanged
<1> QED
  BY <1>1, <1>2, ContentIs DEF Blocks!Forget

(* In a layer where m takes the place of n, or of none, and its id that of *)
(* n, nothing else changes.                                                *)
LEMMA Replaced ==
  ASSUME Inv, Inv', NEW l \in Layers, NEW old \in SUBSET Live(l), NEW m \in Live(l)',
         \A j, k \in old : j = k,
         Live(l)' \subseteq Live(l) \union {m},
         \A n \in Live(l) : n.id = m.id => n \in old,
         \A i \in Ids : Known(l, i)' <=> \/ i = m.id
                                         \/ Known(l, i) /\ i \notin IdsOf(old)
  PROVE  Content(l)' = (Content(l) \ {Bare(n) : n \in old}) \union {Bare(m)}
<1>1. /\ Live(l) \subseteq Node
      /\ \A j, k \in Live(l) : j.id = k.id => j = k
      /\ \A n \in Live(l) : Known(l, n.id)
  BY LiveNodes DEF LiveFacts
<1>2. /\ Live(l)' \subseteq Node
      /\ \A j, k \in Live(l)' : j.id = k.id => j = k
      /\ \A n \in Live(l)' : Known(l, n.id)'
      /\ \A i \in Ids : Known(l, i)' => \E n \in Live(l)' : n.id = i
  BY LiveNodesNext DEF LiveFacts
<1>3. ASSUME NEW k \in Live(l)', k # m
      PROVE  k \in Live(l) /\ Bare(k) \notin {Bare(n) : n \in old}
  <2>1. k \in Live(l) /\ k.id # m.id /\ k.id \in Ids
    BY <1>2, <1>3 DEF Node
  <2>2. k.id \notin IdsOf(old)
    BY <1>2, <2>1
  <2> QED
    BY <2>1, <2>2 DEF Bare, IdsOf
<1>4. ASSUME NEW k \in Live(l), Bare(k) \notin {Bare(n) : n \in old}
      PROVE  k \in Live(l)'
  <2>1. k \notin old /\ k.id \in Ids /\ Known(l, k.id)
    BY <1>1, <1>4 DEF Node
  <2>2. k.id \notin IdsOf(old) /\ k.id # m.id
    BY <1>1, <2>1 DEF IdsOf
  <2>3. PICK j \in Live(l)' : j.id = k.id
    BY <1>2, <2>1, <2>2
  <2>4. j \in Live(l)
    BY <2>2, <2>3
  <2> QED
    BY <1>1, <2>3, <2>4
<1> QED
  BY <1>3, <1>4 DEF Content

LEMMA FreeUnlessKnown ==
  ASSUME Inv, NEW l \in Layers, NEW i \in Ids, ~Known(l, i)
  PROVE  \A e \in Content(l) : e.id # i
BY LiveNodes DEF LiveFacts, Content, Bare

(* insert changes the node it has in hand, and renames it. *)
LEMMA ModifyUpdates ==
  ASSUME Inv, Inv', NEW l \in Layers, NEW id \in Ids, NEW x \in Data,
         Modify(l, id, x)
  PROVE  /\ Blocks!Update(l, id, x)
         /\ \A n \in hand[l] :
              [k \in Layers |-> Content(k)'] =
                [[k \in Layers |-> Content(k)] EXCEPT ![l] =
                   (@ \ {Bare(n)}) \union {[id |-> id, data |-> x]}]
<1> DEFINE M(n) == [n EXCEPT !.id = id, !.data = x]
<1>1. /\ wire.type = "none" /\ UNCHANGED <<answer, wire, store, taken>>
  BY DEF Modify, Running, NoCall, Inv, TypeInv, Lockstep, serverVars
<1>2. PICK n \in hand[l] :
        /\ id = n.id \/ ~Known(l, id)
        /\ pmap' = [pmap EXCEPT ![l] = Renamed(@, n.id, id)]
        /\ \/ /\ hand' = [hand EXCEPT ![l] = {}]
              /\ cache' = [cache EXCEPT ![l] = (@ \ Named(@, id)) \union {M(n)}]
           \/ /\ hand' = [hand EXCEPT ![l] = {M(n)}]
              /\ UNCHANGED cache
  BY DEF Modify
<1>3. /\ n \in Live(l) /\ n \in Node /\ n.id \in Ids /\ Known(l, n.id)
      /\ hand[l] = {n}
  BY LiveNodes DEF LiveFacts, Live, Node, Inv, OneInHand
<1> DEFINE m == M(n)
<1>4. m.id = id /\ m.data = x
  BY <1>3 DEF Node
<1>5. /\ m \in cache'[l] \union hand'[l]
      /\ cache'[l] \union hand'[l] \subseteq cache[l] \union {m}
      /\ \A k \in Layers \ {l} : cache'[k] = cache[k] /\ hand'[k] = hand[k]
  BY <1>2 DEF Inv, TypeInv, TypeOK
<1>6. \A k \in Layers : InFlight(k)' = InFlight(k) /\ InStore(k)' = InStore(k)
  BY <1>1, StoreStays DEF InFlight
<1>7. /\ m \in Live(l)'
      /\ Live(l)' \subseteq Live(l) \union {m}
      /\ \A k \in Layers \ {l} : Live(k)' \subseteq Live(k)
  BY <1>5, <1>6 DEF Live
<1>8. /\ \A k \in Layers \ {l} : pmap'[k] = pmap[k]
      /\ \A i \in Ids : pmap'[l][i] = IF i = id THEN pmap[l][n.id]
                                      ELSE IF i = n.id THEN NoPos ELSE pmap[l][i]
  BY <1>2 DEF Renamed, Inv, TypeInv, TypeOK
<1> HIDE DEF m, M
<1>9. Content(l)' = (Content(l) \ {Bare(n)}) \union {Bare(m)}
  <2>1. \A k \in Live(l) : k.id = m.id => k \in {n}
    BY <1>2, <1>3, <1>4, LiveNodes DEF LiveFacts
  <2>2. \A i \in Ids : Known(l, i)' <=> \/ i = m.id
                                        \/ Known(l, i) /\ i \notin IdsOf({n})
    BY <1>3, <1>4, <1>8 DEF Known, IdsOf
  <2>3. Content(l)' = (Content(l) \ {Bare(k) : k \in {n}}) \union {Bare(m)}
    BY <1>3, <1>7, <2>1, <2>2, Replaced
  <2> QED
    BY <2>3
<1>10. ASSUME NEW k \in Layers \ {l} PROVE Content(k)' = Content(k)
  <2>1. \A i \in Ids : Known(k, i) => Known(k, i)'
    BY <1>8 DEF Known
  <2> QED
    BY <1>7, <2>1, Unchanged
<1>11. Bare(m) = [id |-> id, data |-> x]
  BY <1>4 DEF Bare
<1>12. /\ Bare(n) \in Content(l)
       /\ id = Bare(n).id \/ \A e \in Content(l) : e.id # id
  BY <1>2, <1>3, FreeUnlessKnown DEF Content, Bare
<1>13. [k \in Layers |-> Content(k)'] =
         [[k \in Layers |-> Content(k)] EXCEPT ![l] =
            (@ \ {Bare(n)}) \union {[id |-> id, data |-> x]}]
  BY <1>9, <1>10, <1>11
<1>14. Blocks!Update(l, id, x)
  <2>1. \E e \in [k \in Layers |-> Content(k)][l] :
          /\ \/ id = e.id
             \/ \A f \in [k \in Layers |-> Content(k)][l] : f.id # id
          /\ [k \in Layers |-> Content(k)'] =
               [[k \in Layers |-> Content(k)] EXCEPT ![l] =
                  (@ \ {e}) \union {[id |-> id, data |-> x]}]
    BY <1>12, <1>13
  <2> QED
    BY <1>1, <2>1, ContentIs DEF Blocks!Update, Blocks!IsFree
<1> QED
  BY <1>3, <1>13, <1>14

(* A node that split off, or of the first insert, comes to its cache. *)
LEMMA ReceiveWriteCreates ==
  ASSUME Inv, Inv', NEW l \in Layers, l = call.layer,
         NEW n \in NodeIn(l), n = call.node, ReceiveWrite
  PROVE  Blocks!Create(l, n.id, n.data)
<1> DEFINE c == Merged(l, wire.blocks)
<1>1. /\ wire.type = "path" /\ wire'.type = "none" /\ call.op = "write"
      /\ cache' = [cache EXCEPT ![l] = (c \ Named(c, n.id)) \union {n}]
      /\ pmap' = [pmap EXCEPT ![l][n.id] = n.pos]
      /\ UNCHANGED <<answer, hand, store, taken>>
  BY DEF ReceiveWrite, Answers, Silence, serverVars
<1>2. /\ l \in Layers /\ c = cache[l] \union wire.blocks
      /\ InFlight(l) = wire.blocks
  BY <1>1, Merging
<1>3. ~Known(l, n.id)
  BY <1>1 DEF Inv, Waits
<1>4. n \in Node /\ n.id \in Ids /\ n.data \in Data /\ n.pos # NoPos
  BY LeavesNat DEF NodeIn, Node, NoPos
<1> HIDE DEF c
<1>5. \A k \in Layers : InFlight(k)' = {} /\ InStore(k)' = InStore(k)
  BY <1>1, StoreStays DEF InFlight
<1>6. /\ n \in Live(l)'
      /\ Live(l)' \subseteq Live(l) \union {n}
      /\ \A k \in Layers \ {l} : Live(k)' \subseteq Live(k)
  BY <1>1, <1>2, <1>5 DEF Live, Inv, TypeInv, TypeOK
<1>7. /\ \A k \in Layers \ {l} : pmap'[k] = pmap[k]
      /\ \A i \in Ids : pmap'[l][i] = IF i = n.id THEN n.pos ELSE pmap[l][i]
  BY <1>1, <1>2, <1>4 DEF Inv, TypeInv, TypeOK
<1>8. Content(l)' = Content(l) \union {Bare(n)}
  <2>1. PICK old \in SUBSET Live(l) : old = {}
    OBVIOUS
  <2>2. \A k \in Live(l) : k.id = n.id => k \in old
    BY <1>3, LiveNodes DEF LiveFacts
  <2>3. \A i \in Ids : Known(l, i)' <=> \/ i = n.id
                                        \/ Known(l, i) /\ i \notin IdsOf(old)
    BY <1>4, <1>7, <2>1 DEF Known, IdsOf
  <2>4. /\ n \in Live(l)'
        /\ Live(l)' \subseteq Live(l) \union {n}
        /\ \A j, k \in old : j = k
    BY <1>6, <2>1
  <2>5. Content(l)' = (Content(l) \ {Bare(k) : k \in old}) \union {Bare(n)}
    BY <2>2, <2>3, <2>4, Replaced
  <2> QED
    BY <2>1, <2>5
<1>9. ASSUME NEW k \in Layers \ {l} PROVE Content(k)' = Content(k)
  <2>1. \A i \in Ids : Known(k, i) => Known(k, i)'
    BY <1>7 DEF Known
  <2> QED
    BY <1>6, <2>1, Unchanged
<1>10. \A e \in Content(l) : e.id # n.id
  BY <1>2, <1>3, <1>4, FreeUnlessKnown
<1>11. Bare(n) = [id |-> n.id, data |-> n.data]
  BY DEF Bare
<1>12. [k \in Layers |-> Content(k)'] =
         [[k \in Layers |-> Content(k)] EXCEPT ![l] =
            @ \union {[id |-> n.id, data |-> n.data]}]
  BY <1>8, <1>9, <1>11
<1> QED
  BY <1>1, <1>10, <1>12, ContentIs DEF Blocks!Create, Blocks!IsFree

-----------------------------------------------------------------------------
LEMMA InitRefines == Init => Blocks!Init
<1> SUFFICES ASSUME Init PROVE Blocks!Init
  OBVIOUS
<1>1. \A l \in Layers : \A b \in LiveBuckets(l) : store[<<l, b>>] = {}
  BY DEF Init, LiveBuckets, Tree
<1>2. \A l \in Layers : InStore(l) = {}
  BY <1>1 DEF InStore
<1>3. \A l \in Layers : Live(l) = {}
  BY <1>2 DEF Init, Live, InFlight, Silence
<1> QED
  BY <1>3 DEF Blocks!Init, Init

LEMMA ClientRefines ==
  ASSUME Inv, Inv', Client
  PROVE  [Blocks!Next]_(Blocks!vars)
<1>1. CASE \E l \in Layers, i \in Ids : ReadCached(l, i)
  BY <1>1, ReadCachedReads DEF Blocks!Next
<1>2. CASE ReceiveRead
  BY <1>2, ReceiveReadReads DEF Blocks!Next
<1>3. CASE \E l \in Layers, i \in Ids, x \in Data : Modify(l, i, x)
  BY <1>3, ModifyUpdates DEF Blocks!Next
<1>4. CASE ReceiveWrite
  <2>1. call.layer \in Layers /\ call.op = "write"
    BY <1>4, Merging DEF ReceiveWrite, Answers
  <2>2. call.node \in NodeIn(call.layer)
    BY <2>1 DEF Inv, TypeInv, InRange
  <2>3. PICK l \in Layers : l = call.layer
    BY <2>1
  <2>4. PICK n \in NodeIn(l) : n = call.node
    BY <2>2, <2>3
  <2>5. Blocks!Create(l, n.id, n.data)
    BY <1>4, <2>3, <2>4, ReceiveWriteCreates
  <2>6. n.id \in Ids /\ n.data \in Data
    BY DEF NodeIn, Node
  <2> QED
    BY <2>5, <2>6 DEF Blocks!Next
<1>5. CASE \E l \in Layers : WriteBack(l)
  BY <1>5, WriteBackMoves
<1>6. CASE ReceivePad
  BY <1>6, PadMoves
<1>7. CASE \E l \in Layers : Remap(l)
  BY <1>7, RemapMoves
<1>8. CASE \E l \in Layers : \E d \in 0 .. Depth[l] : Evict(l, d)
  BY <1>8, EvictMoves
<1>9. CASE \/ \E l \in Layers, i \in Ids : ReadRemote(l, i)
           \/ \E l \in Layers, i \in Ids, x \in Data :
                \E p \in Leaves(l) \union LeavesOf(SplitDepth[l]) : WriteNew(l, i, x, p)
           \/ EndUpdate
           \/ \E l \in Layers : \E leaf \in Leaves(l) : Pad(l, leaf)
           \/ ReceiveAck
           \/ \E l \in Layers : EndEvict(l)
  BY <1>9, SilentSteps
<1> QED
  BY <1>1, <1>2, <1>3, <1>4, <1>5, <1>6, <1>7, <1>8, <1>9 DEF Client

LEMMA StepRefines ==
  ASSUME Inv, Inv', [Next]_vars
  PROVE  [Blocks!Next]_(Blocks!vars)
<1>1. CASE UNCHANGED vars
  <2>1. /\ UNCHANGED <<pmap, answer, store, taken, cache, hand, wire>>
    BY <1>1 DEF vars, clientVars, serverVars
  <2>2. \A l \in Layers : InFlight(l)' = InFlight(l)
    BY <2>1 DEF InFlight
  <2> QED
    BY <2>1, <2>2, MovesAtClient
<1>2. CASE \E k \in {"first", "insert", "search"} : Begin(k)
  BY <1>2, BeginForgets DEF Blocks!Next
<1>3. CASE Client
  BY <1>3, ClientRefines
<1>4. CASE Server
  BY <1>4, FetchMoves, WriteMoves DEF Server
<1> QED
  BY <1>1, <1>2, <1>3, <1>4 DEF Next

(* If splits draw positions of the right tree, the client (client.cpp, from *)
(* part_init to finish) and the server (server.cpp, ORAM.cpp) are together  *)
(* a store of nodes by id: what Read...Node returns is what was last        *)
(* written under that id, and no fetch, eviction, remapping or message      *)
(* changes what is stored.                                                  *)
THEOREM ImplementsStore ==
  Spec /\ []SplitsKept => ImplementsBlockStore
<1>1. Inv /\ Inv' /\ [Next]_vars => [Blocks!Next]_(Blocks!vars)
  BY StepRefines
<1> QED
  BY Invariance, InitRefines, <1>1, PTL DEF Spec, ImplementsBlockStore, Blocks!Spec
=============================================================================
