---------------------------- MODULE PathORAM_inv ----------------------------
(***************************************************************************)
(* The inductive invariant of PathORAM, in parts.  None of the safety      *)
(* properties of PathORAM is inductive: that a fetch finds the node it is  *)
(* for rests on where nodes are, on which buckets the client and the       *)
(* server have each recorded, and on how often every ORAM is fetched from  *)
(* in an operation.                                                        *)
(***************************************************************************)
EXTENDS PathORAM

(* Positions are positions of the tree of their layer, wherever they are.  *)
NodeIn(l) == {n \in Node : n.pos \in Leaves(l)}

InRange ==
  /\ \A l \in Layers :
       /\ cache[l] \subseteq NodeIn(l)
       /\ hand[l] \subseteq NodeIn(l)
       /\ leafList[l] \subseteq Leaves(l)
       /\ \A i \in Ids : pmap[l][i] \in Leaves(l) \union {NoPos}
  /\ \A l \in Layers : \A b \in Buckets(l) : store[<<l, b>>] \subseteq NodeIn(l)
  /\ call.op = "read" => call.leaf \in Leaves(call.layer)
  /\ call.op = "write" => call.node \in NodeIn(call.layer)
  /\ wire.type = "fetch" => wire.leaf \in Leaves(wire.layer)
  /\ wire.type \in {"path", "write"} => wire.blocks \subseteq NodeIn(wire.layer)
  /\ wire.type = "write" => wire.index \in Buckets(wire.layer)

(* One request is in flight at a time, and the message on the connection is *)
(* the one the client waits for an answer to, or that answer.               *)
Lockstep ==
  /\ wire.type = "none" <=> call.op = "none"
  /\ wire.type \in {"fetch", "path"} =>
       call.op \in {"read", "write", "pad"} /\ call.layer = wire.layer
  /\ wire.type = "write" => call.op = "evict" /\ call.layer = wire.layer
  /\ wire.type = "ack" => call.op = "evict"
  /\ wire.type = "fetch" =>
       /\ call.op = "read" => wire.leaf = call.leaf
       /\ call.op = "write" => wire.leaf = call.node.pos
       /\ call.op = "pad" => wire.leaf \in leafList[wire.layer]

TypeInv == TypeOK /\ InRange /\ Lockstep

-----------------------------------------------------------------------------
Fetching(l) == wire.type = "fetch" /\ wire.layer = l
Awaits(l, op) == call.op = op /\ call.layer = l

(* What each phase has established: an operation fetches at most once from *)
(* every ORAM on the way down and at most once when a node splits, and     *)
(* finish makes that two; before finish no node is out of its cache.       *)
Phases ==
  /\ phase = "idle" =>
       /\ call.op = "none"
       /\ \A l \in Layers : /\ hand[l] = {}
                            /\ leafList[l] = {}
                            /\ exposed[l] = {}
                            /\ readCnt[l] \in {0, 2}
  /\ phase = "descend" =>
       /\ call.op \in {"none", "read"}
       /\ \A l \in Layers :
            /\ l \notin done \/ kind # "insert" => hand[l] = {}
            /\ readCnt[l] <= 1
            /\ l \notin done /\ ~Awaits(l, "read") => readCnt[l] = 0
  /\ phase = "update" =>
       /\ call.op \in {"none", "write"}
       /\ \A l \in Layers :
            l \notin grown /\ ~Awaits(l, "write") => readCnt[l] <= 1
  /\ phase = "pad" =>
       /\ call.op \in {"none", "pad"}
       /\ \A l \in Layers : hand[l] = {}
       /\ \A l \in done : exposed[l] = {}
  /\ phase = "evict" =>
       /\ call.op \in {"none", "evict"}
       /\ \A l \in Layers : /\ hand[l] = {}
                            /\ exposed[l] = {}
                            /\ readCnt[l] = 2
       /\ \A l \in done : leafList[l] = {}
  /\ phase \notin {"idle", "evict"} => \A l \in Layers : writeview[l] = {}

(* What the client waits for: a node that is not in its cache, or a place  *)
(* for a node that no entry names yet.                                     *)
Waits ==
  /\ call.op = "read" =>
       /\ Named(cache[call.layer], call.id) = {}
       /\ pmap[call.layer][call.id] = call.leaf
       /\ call.layer \notin done
  /\ call.op = "write" => ~Known(call.layer, call.node.id)

(* The server's view of an operation: the parity of its count is that of   *)
(* the fetches that reached it, and between the first and the second of    *)
(* them its readviewmap is exactly what the client holds.                  *)
Arrived(l) == IF Fetching(l) THEN readCnt[l] - 1 ELSE readCnt[l]
Counting ==
  \A l \in Layers :
    /\ readCnt[l] \in 0 .. 2
    /\ Fetching(l) => readCnt[l] # 0
    /\ recvOdd[l] <=> Arrived(l) = 1
    /\ Arrived(l) = 0 => taken[l] = {}
    /\ recvOdd[l] => readview[l] = taken[l]

(* The client's view of it: the buckets taken are those of the paths in    *)
(* leafList (and of the path it waits for) that it has not written back.   *)
Covered(l) ==
  taken[l] \union (IF Fetching(l) THEN Path(l, wire.leaf) ELSE {})
Asked(l) ==
  Paths(l, leafList[l])
    \union (IF Awaits(l, "read") THEN Path(l, call.leaf) ELSE {})
    \union (IF Awaits(l, "write") THEN Path(l, call.node.pos) ELSE {})
Writing(l) ==
  IF wire.type = "write" /\ wire.layer = l THEN {wire.index} ELSE {}
Books ==
  \A l \in Layers :
    /\ Covered(l) \subseteq Asked(l)
    /\ Asked(l) \ writeview[l] \subseteq Covered(l)
    /\ taken[l] \intersect writeview[l] = Writing(l)

-----------------------------------------------------------------------------
(* The places a node of layer l can be in, and the nodes in a place.       *)
InCache == -1
InHand == -2
InWire == -3
Places(l) == {InCache, InHand, InWire} \union LiveBuckets(l)
Held(l, p) ==
  CASE p = InCache -> cache[l]
    [] p = InHand  -> hand[l]
    [] p = InWire  -> InFlight(l)
    [] OTHER       -> store[<<l, p>>]

(* No two nodes of a layer share an id, and no node is in two places.      *)
Unique(l) ==
  \A p, q \in Places(l) :
    \A m \in Held(l, p), n \in Held(l, q) : m.id = n.id => m = n /\ p = q

(* Every node is at the position its parent's entry says, ... *)
Agree(l) ==
  \A p \in Places(l) : \A n \in Held(l, p) : pmap[l][n.id] = n.pos

(* ... every entry has a node, ... *)
Kept(l) ==
  \A i \in Ids :
    Known(l, i) => \E p \in Places(l) : \E n \in Held(l, p) : n.id = i

NodesAt(l) == Unique(l) /\ Agree(l) /\ Kept(l)
NodeInv == \A l \in Layers : NodesAt(l)

(* ... and what is on the server, or on the way to a bucket, is on its path. *)
Located ==
  \A l \in Layers :
    /\ \A b \in LiveBuckets(l) : \A n \in store[<<l, b>>] : b \in Path(l, n.pos)
    /\ wire.type = "write" /\ wire.layer = l =>
         \A n \in wire.blocks : wire.index \in Path(l, n.pos)

OneInHand == \A l \in Layers : \A m, n \in hand[l] : m = n

(* A node whose position the server saw is where finish will remap it.     *)
Exposure ==
  \A l \in Layers : \A i \in exposed[l] :
    \/ i \in modified[l] /\ i \in IdsOf(cache[l])
    \/ i \in IdsOf(hand[l])
    \/ Awaits(l, "read") /\ i = call.id
    \/ Awaits(l, "write") /\ i = call.node.id

(* WriteNew marks the node before it has the path the node goes to.        *)
Marked ==
  call.op = "write" => call.node.id \in modified[call.layer]

(* The invariant: at every step of every operation, the server's record of  *)
(* what it sent (readviewmap, recv_count), the client's of what it asked    *)
(* for, holds and wrote back (leafList, the caches, writeviewmap), and the  *)
(* positions in nodes and in their parents agree with each other.           *)
Inv ==
  /\ TypeInv
  /\ NobodyCrashes
  /\ Phases
  /\ Waits
  /\ Counting
  /\ Books
  /\ NodeInv
  /\ Located
  /\ OneInHand
  /\ Exposure
  /\ Marked

(* What the client caches, and what a bucket or a message holds, is finite, *)
(* so that the first Z of it can be counted.                               *)
Sized ==
  /\ \A l \in Layers : IsFiniteSet(cache[l])
  /\ wire.type \in {"path", "write"} => IsFiniteSet(wire.blocks)
  /\ wire.type = "write" => Cardinality(wire.blocks) <= Z
  /\ \A t \in Tree : IsFiniteSet(store[t]) /\ Cardinality(store[t]) <= Z
=============================================================================
