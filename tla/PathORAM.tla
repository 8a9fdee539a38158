------------------------------ MODULE PathORAM ------------------------------
(***************************************************************************)
(* The storage protocol of bODS: a client (client.cpp) that keeps the      *)
(* nodes of every layer of its map in one Path ORAM per layer on a server  *)
(* (server.cpp, ORAM.cpp), over one connection with one request in flight. *)
(*                                                                         *)
(* A node is [id, pos, data]: id is its max_value, under which caches and  *)
(* parents know it, pos its position in the bucket tree of its layer, data *)
(* the rest of it.  The tree of keys above this protocol is abstracted to  *)
(* pmap: for each layer, the position the entry of that id in its parent   *)
(* (childMap) carries.  What the caller does is constrained only by what   *)
(* client::insert and client::search do with ids: a node is created under  *)
(* an id that names no node of its layer, and renamed to such an id.       *)
(*                                                                         *)
(* An operator named X_Something, before the operator X, is a wrong X: a    *)
(* bug the properties are shown to tell from the code.                      *)
(***************************************************************************)
EXTENDS PathTree, FiniteSets

CONSTANTS
  Layers,      \* numbers of the layers: mid1 is 1, mid2 is 2, leaf is 3
  Depth,       \* depth of the bucket tree of each layer
  SplitDepth,  \* depth of the tree from which the constructor called by a
               \* split draws the position of the new node
  Z,           \* blocks in a bucket
  Ids,         \* what max_value ranges over
  Data         \* contents of a node

ASSUME LayersAssumption ==
  /\ Layers \subseteq Nat
  /\ Layers # {}
  /\ IsFiniteSet(Layers)
ASSUME TreesAssumption ==
  /\ Depth \in [Layers -> Nat]
  /\ SplitDepth \in [Layers -> Nat]
  /\ Z \in Nat \ {0}
ASSUME IdsAssumption == Ids \subseteq Nat

Leaves(l) == LeavesOf(Depth[l])
Buckets(l) == 0 .. BucketCount(Depth[l]) - 1
Path_ButLeaf(l, leaf) ==
  {GetNodeOnPath(Depth[l], leaf, d) : d \in 0 .. Depth[l] - 1}
Path(l, leaf) == PathBuckets(Depth[l], leaf)
Tree == UNION {{l} \X Buckets(l) : l \in Layers}
Paths(l, leafs) == UNION {Path(l, leaf) : leaf \in leafs}

(* a split draws positions of the tree it inserts into *)
SplitsInRange == \A l \in Layers : LeavesOf(SplitDepth[l]) \subseteq Leaves(l)

Node == [id : Ids, pos : Nat, data : Data]
IdsOf(nodes) == {n.id : n \in nodes}

NoPos == -1
Mid1 == 1
Bottom(l) == \A m \in Layers : m <= l
Above(l) == {m \in Layers : m < l}
Below(l) == {m \in Layers : m > l}

VARIABLES
  phase,      \* what client::insert_map / search_map is doing
  kind,       \* the operation: first insert, insert, search
  done,       \* layers the current phase has dealt with
  grown,      \* layers that got a new node in this operation
  call,       \* the access whose answer the client waits for
  answer,     \* the content the last read of this operation returned
  cache,      \* mid1cache[0], mid2cache, leafcache
  hand,       \* node of each layer that insert erased from the cache
  modified,   \* mid1modified[0], mid2modified, leafmodified
  leafList,   \* leafList1[0], leafList2, leafList3
  readCnt,    \* readCntmid1[0], readCntmid2, readCntleaf
  writeview,  \* writeviewmap1[0], writeviewmap2, writeviewmap3
  pmap,       \* pos of the childMap entry of each id, NoPos if none
  crashed,    \* the processes that died
  wire,       \* the message on the connection
  store,      \* RAMStore of each ORAM
  readview,   \* readviewmap of each ORAM
  recvOdd,    \* recv_count of each ORAM is odd
  taken,      \* history: buckets handed out and not written back since
  exposed     \* history: ids whose position the server saw requested

clientVars == <<phase, kind, done, grown, call, answer, cache, hand, modified,
                leafList, readCnt, writeview, pmap>>
serverVars == <<store, readview, recvOdd, taken>>
vars == <<clientVars, crashed, wire, serverVars, exposed>>

NoCall == [op |-> "none"]
Silence == [type |-> "none"]

Call == {NoCall}
  \union [op : {"read"}, layer : Layers, id : Ids, leaf : Nat]
  \union [op : {"write"}, layer : Layers, node : Node]
  \union [op : {"pad"}, layer : Layers]
  \union [op : {"evict"}, layer : Layers]

Message == {Silence}
  \union [type : {"fetch"}, layer : Layers, leaf : Nat]
  \union [type : {"path"}, layer : Layers, blocks : SUBSET Node]
  \union [type : {"write"}, layer : Layers, index : Nat, blocks : SUBSET Node]
  \union [type : {"ack"}]

TypeOK ==
  /\ phase \in {"idle", "descend", "update", "pad", "evict"}
  /\ kind \in {"first", "insert", "search"}
  /\ done \in SUBSET Layers
  /\ grown \in SUBSET Layers
  /\ call \in Call
  /\ answer \in SUBSET [layer : Layers, id : Ids, data : Data]
  /\ cache \in [Layers -> SUBSET Node]
  /\ hand \in [Layers -> SUBSET Node]
  /\ modified \in [Layers -> SUBSET Ids]
  /\ leafList \in [Layers -> SUBSET Nat]
  /\ readCnt \in [Layers -> Nat]
  /\ writeview \in [Layers -> SUBSET Nat]
  /\ pmap \in [Layers -> [Ids -> Nat \union {NoPos}]]
  /\ crashed \in SUBSET {"client", "server"}
  /\ wire \in Message
  /\ store \in [Tree -> SUBSET Node]
  /\ readview \in [Layers -> SUBSET Nat]
  /\ recvOdd \in [Layers -> BOOLEAN]
  /\ taken \in [Layers -> SUBSET Nat]
  /\ exposed \in [Layers -> SUBSET Ids]

Init ==
  /\ phase = "idle"
  /\ kind = "first"
  /\ done = {}
  /\ grown = {}
  /\ call = NoCall
  /\ answer = {}
  /\ cache = [l \in Layers |-> {}]
  /\ hand = [l \in Layers |-> {}]
  /\ modified = [l \in Layers |-> {}]
  /\ leafList = [l \in Layers |-> {}]
  /\ readCnt = [l \in Layers |-> 0]
  /\ writeview = [l \in Layers |-> {}]
  /\ pmap = [l \in Layers |-> [i \in Ids |-> NoPos]]
  /\ crashed = {}
  /\ wire = Silence
  /\ store = [t \in Tree |-> {}]
  /\ readview = [l \in Layers |-> {}]
  /\ recvOdd = [l \in Layers |-> FALSE]
  /\ taken = [l \in Layers |-> {}]
  /\ exposed = [l \in Layers |-> {}]

Named(nodes, id) == {n \in nodes : n.id = id}
Known(l, id) == pmap[l][id] # NoPos
RootEmpty == \A l \in Layers, i \in Ids : ~Known(l, i)

(***************************************************************************)
(* The client between two messages: it runs only while it waits for none.  *)
(***************************************************************************)
Running == crashed = {} /\ call = NoCall

(* insert_map, search_map: part_init, then the first step of insert or     *)
(* search.  A search of an empty map is left out: it reads childMap[-1].   *)
Begin(k) ==
  /\ Running
  /\ phase = "idle"
  /\ (k = "first") = RootEmpty
  /\ kind' = k
  /\ phase' = IF k = "first" THEN "update" ELSE "descend"
  /\ answer' = {}
  /\ readCnt' = [l \in Layers |-> 0]
  /\ writeview' = [l \in Layers |-> {}]
  /\ UNCHANGED <<done, grown, call, cache, hand, modified, leafList, pmap,
                 crashed, wire, serverVars, exposed>>

(* ...modified.insert(bid): finish will draw a new position for the node *)
Touch_Read(l, id) ==
  modified' = IF phase = "descend" THEN [modified EXCEPT ![l] = @ \union {id}]
              ELSE modified
Touch(l, id) == modified' = [modified EXCEPT ![l] = @ \union {id}]

(* The node of layer l is in hand: Read...Node returns it, insert erases it *)
(* from the cache c, search leaves it there.                                *)
Deliver(l, n, c) ==
  LET others == c \ Named(c, n.id)
      last   == done \union {l} = Layers
  IN  /\ Touch(l, n.id)
      /\ answer' = {[layer |-> l, id |-> n.id, data |-> n.data]}
      /\ IF kind = "insert"
           THEN /\ cache' = [cache EXCEPT ![l] = others]
                /\ hand' = [hand EXCEPT ![l] = {n}]
           ELSE /\ cache' = [cache EXCEPT ![l] = others \union {n}]
                /\ UNCHANGED hand
      /\ done' = IF last THEN {} ELSE done \union {l}
      /\ phase' = IF ~last THEN phase
                  ELSE IF kind = "insert" THEN "update" ELSE "pad"

(* insert and search go down one layer at a time, to an id of the map *)
Descends(l, id) ==
  /\ Running
  /\ phase = "descend"
  /\ done = Above(l)
  /\ Known(l, id)

(* Read...Node, the node is in the cache.  Readmid2Node and ReadleafNode   *)
(* overwrite its pos with the one the parent gave, Readmid1Node does not.  *)
ReadCached(l, id) ==
  /\ Descends(l, id)
  /\ \E n \in Named(cache[l], id) :
       Deliver(l, [n EXCEPT !.pos = IF l = Mid1 THEN @ ELSE pmap[l][id]],
               cache[l])
  /\ UNCHANGED <<kind, grown, call, leafList, readCnt, writeview, pmap,
                 crashed, wire, serverVars, exposed>>

SendFetch_NewUncounted(l, leaf) ==
  /\ wire' = [type |-> "fetch", layer |-> l, leaf |-> leaf]
  /\ readCnt' = IF phase = "update" THEN readCnt
                ELSE [readCnt EXCEPT ![l] = @ + 1]
SendFetch_Uncounted(l, leaf) ==
  /\ wire' = [type |-> "fetch", layer |-> l, leaf |-> leaf]
  /\ UNCHANGED readCnt
SendFetch(l, leaf) ==
  /\ wire' = [type |-> "fetch", layer |-> l, leaf |-> leaf]
  /\ readCnt' = [readCnt EXCEPT ![l] = @ + 1]

(* Read...Node, the node is not in the cache: Fetch...Path, up to its recv *)
ReadRemote(l, id) ==
  /\ Descends(l, id)
  /\ Named(cache[l], id) = {}
  /\ SendFetch(l, pmap[l][id])
  /\ call' = [op |-> "read", layer |-> l, id |-> id, leaf |-> pmap[l][id]]
  /\ exposed' = [exposed EXCEPT ![l] = @ \union {id}]
  /\ UNCHANGED <<phase, kind, done, grown, answer, cache, hand, modified,
                 leafList, writeview, pmap, crashed, serverVars>>

(* Fetch...Path puts the blocks of the answer in the cache, unless a node of *)
(* that id is there.                                                         *)
Merged_IfEmpty(l, blocks) == IF cache[l] = {} THEN blocks ELSE cache[l]
Merged(l, blocks) ==
  cache[l] \union {n \in blocks : Named(cache[l], n.id) = {}}

Answers(op) ==
  /\ crashed = {}
  /\ wire.type = "path"
  /\ call.op = op
  /\ wire' = Silence
  /\ call' = NoCall

ReceiveRead ==
  /\ Answers("read")
  /\ LET l == call.layer
         c == Merged(l, wire.blocks)
     IN  IF Named(c, call.id) # {}
           THEN /\ \E n \in Named(c, call.id) :
                     Deliver(l, [n EXCEPT !.pos = call.leaf], c)
                /\ leafList' = [leafList EXCEPT ![l] = @ \union {call.leaf}]
                /\ UNCHANGED crashed
           ELSE \* Read...Node returns NULL and its caller dereferences it
                /\ cache' = [cache EXCEPT ![l] = c]
                /\ crashed' = {"client"}
                /\ UNCHANGED <<answer, hand, modified, done, phase, leafList>>
  /\ UNCHANGED <<kind, grown, readCnt, writeview, pmap, serverVars, exposed>>

(***************************************************************************)
(* The second half of insert: from the leaf up, the node read is changed   *)
(* (Insert, Update) and may split off a new node, which is written with a  *)
(* fetch of its own; the nodes of the upper layers go back to their caches *)
(* last.  The first insert only writes new nodes.                          *)
(***************************************************************************)

(* Update: the entry found under the old id takes the new one *)
Renamed(entries, old, new) ==
  [i \in Ids |-> IF i = new THEN entries[old]
                 ELSE IF i = old THEN NoPos ELSE entries[i]]

(* The id (max_value) of the node changes to one that names no node of the *)
(* layer; Update renames its entry in the parent.                          *)
Modify(l, id, data) ==
  /\ Running
  /\ phase = "update"
  /\ kind = "insert"
  /\ done = Below(l)
  /\ \E n \in hand[l] :
       LET m == [n EXCEPT !.id = id, !.data = data] IN
       /\ id = n.id \/ ~Known(l, id)
       /\ pmap' = [pmap EXCEPT ![l] = Renamed(@, n.id, id)]
       /\ exposed' = [exposed EXCEPT ![l] =
                        {IF i = n.id THEN id ELSE i : i \in @}]
       /\ IF Bottom(l)    \* WriteleafNode(true, ...) comes at once
            THEN /\ hand' = [hand EXCEPT ![l] = {}]
                 /\ cache' = [cache EXCEPT ![l] =
                                (@ \ Named(@, id)) \union {m}]
                 /\ Touch(l, id)
            ELSE /\ hand' = [hand EXCEPT ![l] = {m}]
                 /\ UNCHANGED <<cache, modified>>
  /\ done' = done \union {l}
  /\ UNCHANGED <<phase, kind, grown, call, answer, leafList, readCnt,
                 writeview, crashed, wire, serverVars>>

(* Write...Node(false, ...) of a node a constructor gave a random position, *)
(* up to its recv                                                           *)
WriteNew(l, id, data, pos) ==
  /\ Running
  /\ phase = "update"
  /\ grown = Below(l)
  /\ IF kind = "first"
       THEN pos \in Leaves(l)
       ELSE /\ pos \in LeavesOf(SplitDepth[l])
            /\ done = Below(l) \union {l}
            /\ \A m \in Layers : ~Bottom(m) => hand[m] # {}
  /\ ~Known(l, id)
  /\ SendFetch(l, pos)
  /\ call' = [op |-> "write", layer |-> l,
              node |-> [id |-> id, pos |-> pos, data |-> data]]
  /\ Touch(l, id)
  /\ exposed' = [exposed EXCEPT ![l] = @ \union {id}]
  /\ UNCHANGED <<phase, kind, done, grown, answer, cache, hand, leafList,
                 writeview, pmap, crashed, serverVars>>

(* ... from its recv; the parent's Insert then makes an entry for the node *)
ReceiveWrite ==
  /\ Answers("write")
  /\ LET l == call.layer
         n == call.node
         c == Merged(l, wire.blocks)
     IN  /\ cache' = [cache EXCEPT ![l] = (c \ Named(c, n.id)) \union {n}]
         /\ leafList' = [leafList EXCEPT ![l] = @ \union {n.pos}]
         /\ pmap' = [pmap EXCEPT ![l][n.id] = n.pos]
         /\ grown' = grown \union {l}
  /\ UNCHANGED <<phase, kind, done, answer, hand, modified, readCnt, writeview,
                 crashed, serverVars, exposed>>

(* Write...Node(true, ...) of the upper layers *)
WriteBack(l) ==
  /\ Running
  /\ phase = "update"
  /\ done = Layers
  /\ \A m \in Below(l) : hand[m] = {}
  /\ \E n \in hand[l] :
       /\ cache' = [cache EXCEPT ![l] = (@ \ Named(@, n.id)) \union {n}]
       /\ Touch(l, n.id)
  /\ hand' = [hand EXCEPT ![l] = {}]
  /\ UNCHANGED <<phase, kind, done, grown, call, answer, leafList, readCnt,
                 writeview, pmap, crashed, wire, serverVars, exposed>>

EndUpdate ==
  /\ Running
  /\ phase = "update"
  /\ IF kind = "first" THEN grown = Layers ELSE done = Layers
  /\ \A l \in Layers : hand[l] = {}
  /\ phase' = "pad"
  /\ done' = {}
  /\ grown' = {}
  /\ UNCHANGED <<kind, call, answer, cache, hand, modified, leafList, readCnt,
                 writeview, pmap, crashed, wire, serverVars, exposed>>

(***************************************************************************)
(* finish: every ORAM is brought to two fetches, every node touched gets a *)
(* new position, and all fetched paths are written back.                   *)
(***************************************************************************)

(* finalizemid1, finalizemid2, finalizeleaf: one more fetch *)
Pad(l, leaf) ==
  /\ Running
  /\ phase = "pad"
  /\ readCnt[l] < 2
  /\ \A m \in Above(l) : readCnt[m] >= 2
  /\ leaf \in Leaves(l)
  /\ SendFetch(l, leaf)
  /\ call' = [op |-> "pad", layer |-> l]
  /\ leafList' = [leafList EXCEPT ![l] = @ \union {leaf}]
  /\ UNCHANGED <<phase, kind, done, grown, answer, cache, hand, modified,
                 writeview, pmap, crashed, serverVars, exposed>>

ReceivePad ==
  /\ Answers("pad")
  /\ cache' = [cache EXCEPT ![call.layer] = Merged(call.layer, wire.blocks)]
  /\ UNCHANGED <<phase, kind, done, grown, answer, hand, modified, leafList,
                 readCnt, writeview, pmap, crashed, serverVars, exposed>>

(* the childMap entries of the parents, once the cached nodes of layer l *)
(* are these                                                             *)
Entries_Stale(l, nodes) == pmap[l]
Entries(l, nodes) ==
  [i \in Ids |-> IF Known(l, i) /\ Named(nodes, i) # {}
                   THEN (CHOOSE n \in nodes : n.id = i).pos
                   ELSE pmap[l][i]]

(* The loops of finish over leafcache, mid2cache, mid1cache: modified nodes *)
(* of the cache get new positions, and the entries of the parents follow.   *)
Remap(l) ==
  /\ Running
  /\ phase = "pad"
  /\ \A m \in Layers : readCnt[m] >= 2
  /\ done = Below(l)
  /\ \E new \in [IdsOf(cache[l]) \intersect modified[l] -> Leaves(l)] :
       LET nodes == {IF n.id \in DOMAIN new
                       THEN [n EXCEPT !.pos = new[n.id]] ELSE n
                     : n \in cache[l]}
       IN  /\ cache' = [cache EXCEPT ![l] = nodes]
           /\ pmap' = [pmap EXCEPT ![l] = Entries(l, nodes)]
           /\ exposed' = [exposed EXCEPT ![l] = @ \ DOMAIN new]
  /\ IF Above(l) = {}
       THEN phase' = "evict" /\ done' = {}
       ELSE done' = done \union {l} /\ UNCHANGED phase
  /\ UNCHANGED <<kind, grown, call, answer, hand, modified, leafList, readCnt,
                 writeview, crashed, wire, serverVars>>

Evicting(l) == Running /\ phase = "evict" /\ done = Above(l)

Unwritten_Again(l, d) ==
  {GetNodeOnPath(Depth[l], leaf, d) : leaf \in leafList[l]}
Unwritten_Shifted(l, d) ==
  {GetNodeOnPath(Depth[l], leaf, d) - 1 : leaf \in leafList[l]} \ writeview[l]
Unwritten_Filled(l, d) ==
  ({GetNodeOnPath(Depth[l], leaf, d) : leaf \in leafList[l]} \ writeview[l])
    \intersect {GetNodeOnPath(Depth[l], n.pos, d) : n \in cache[l]}
Unwritten(l, d) ==
  {GetNodeOnPath(Depth[l], leaf, d) : leaf \in leafList[l]} \ writeview[l]

(* GetIntersectingBlocks: cached nodes whose path has bucket b at depth d *)
Intersecting_Any(l, b, d) == cache[l]
Intersecting(l, b, d) ==
  {n \in cache[l] : GetNodeOnPath(Depth[l], n.pos, d) = b}

(* the first Z of them in the order of the cache, a map by id *)
FirstOf_OneMore(nodes, blocks) ==
  /\ blocks \subseteq nodes
  /\ Cardinality(blocks) =
       IF Cardinality(nodes) <= Z THEN Cardinality(nodes) ELSE Z + 1
FirstOf(nodes, blocks) ==
  /\ blocks \subseteq nodes
  /\ Cardinality(blocks) =
       IF Cardinality(nodes) < Z THEN Cardinality(nodes) ELSE Z
  /\ \A n \in blocks, m \in nodes \ blocks : n.id < m.id

(* Write...Path, deepest buckets first, up to its recv *)
Evict(l, d) ==
  /\ Evicting(l)
  /\ d \in 0 .. Depth[l]
  /\ \A e \in d + 1 .. Depth[l] : Unwritten(l, e) = {}
  /\ \E b \in Unwritten(l, d) :
     \E blocks \in SUBSET Intersecting(l, b, d) :
       /\ FirstOf(Intersecting(l, b, d), blocks)
       /\ cache' = [cache EXCEPT ![l] = @ \ blocks]
       /\ writeview' = [writeview EXCEPT ![l] = @ \union {b}]
       /\ wire' = [type |-> "write", layer |-> l, index |-> b,
                   blocks |-> blocks]
  /\ call' = [op |-> "evict", layer |-> l]
  /\ UNCHANGED <<phase, kind, done, grown, answer, hand, modified, leafList,
                 readCnt, pmap, crashed, serverVars, exposed>>

ReceiveAck ==
  /\ crashed = {}
  /\ wire.type = "ack"
  /\ wire' = Silence
  /\ call' = NoCall
  /\ UNCHANGED <<phase, kind, done, grown, answer, cache, hand, modified,
                 leafList, readCnt, writeview, pmap, crashed, serverVars,
                 exposed>>

(* the end of finalize2mid1, finalize2mid2, finalize2leaf *)
EndEvict(l) ==
  /\ Evicting(l)
  /\ \A d \in 0 .. Depth[l] : Unwritten(l, d) = {}
  /\ leafList' = [leafList EXCEPT ![l] = {}]
  /\ modified' = [modified EXCEPT ![l] = {}]
  /\ IF Bottom(l) THEN phase' = "idle" /\ done' = {}
                  ELSE done' = done \union {l} /\ UNCHANGED phase
  /\ UNCHANGED <<kind, grown, call, answer, cache, hand, readCnt, writeview,
                 pmap, crashed, wire, serverVars, exposed>>

(***************************************************************************)
(* The server: one pass of its loop per message.  ORAM<Node>::start comes  *)
(* first, for every ORAM with an even recv_count.                          *)
(***************************************************************************)
Started_Kept == readview
Started ==
  [l \in Layers |-> IF recvOdd[l] THEN readview[l] ELSE {}]

ServeFetch ==
  /\ crashed = {}
  /\ wire.type = "fetch"
  /\ LET l     == wire.layer
         fresh == Path(l, wire.leaf) \ Started[l]
     IN  IF fresh \subseteq Buckets(l)
           THEN /\ wire' = [type |-> "path", layer |-> l,
                            blocks |-> UNION {store[<<l, b>>] : b \in fresh}]
                /\ recvOdd' = [recvOdd EXCEPT ![l] = ~@]
                /\ readview' = [Started EXCEPT ![l] = @ \union fresh]
                /\ taken' = [taken EXCEPT ![l] = @ \union fresh]
                /\ UNCHANGED <<crashed, store>>
           ELSE \* no such bucket: Decrypt of what RAMStore never wrote
                /\ crashed' = {"server"}
                /\ UNCHANGED <<wire, serverVars>>
  /\ UNCHANGED <<clientVars, exposed>>

ServeWrite ==
  /\ crashed = {}
  /\ wire.type = "write"
  /\ readview' = Started
  /\ store' = [store EXCEPT ![<<wire.layer, wire.index>>] = wire.blocks]
  /\ taken' = [taken EXCEPT ![wire.layer] = @ \ {wire.index}]
  /\ wire' = [type |-> "ack"]
  /\ UNCHANGED <<clientVars, crashed, recvOdd, exposed>>

Client ==
  \/ \E l \in Layers, i \in Ids : ReadCached(l, i) \/ ReadRemote(l, i)
  \/ ReceiveRead
  \/ \E l \in Layers, i \in Ids, x \in Data : Modify(l, i, x)
  \/ \E l \in Layers, i \in Ids, x \in Data :
       \E p \in Leaves(l) \union LeavesOf(SplitDepth[l]) : WriteNew(l, i, x, p)
  \/ ReceiveWrite
  \/ \E l \in Layers : WriteBack(l)
  \/ EndUpdate
  \/ \E l \in Layers : \E leaf \in Leaves(l) : Pad(l, leaf)
  \/ ReceivePad
  \/ \E l \in Layers : Remap(l)
  \/ \E l \in Layers : \E d \in 0 .. Depth[l] : Evict(l, d)
  \/ ReceiveAck
  \/ \E l \in Layers : EndEvict(l)

Server == ServeFetch \/ ServeWrite

Next == (\E k \in {"first", "insert", "search"} : Begin(k)) \/ Client \/ Server

Spec == Init /\ [][Next]_vars

(* Both processes keep running their loops: what has begun goes on, but    *)
(* nothing obliges a user to ask for another operation.                    *)
FairSpec == Spec /\ WF_vars(Client) /\ WF_vars(Server)

(***************************************************************************)
(* Correctness                                                             *)
(***************************************************************************)

(* Where the nodes of a layer are: a bucket the client has read and not yet *)
(* written back holds stale copies, every other place holds real ones.      *)
LiveBuckets(l) == Buckets(l) \ taken[l]
InStore(l) == UNION {store[<<l, b>>] : b \in LiveBuckets(l)}
InFlight(l) == IF wire.type \in {"path", "write"} /\ wire.layer = l
                 THEN wire.blocks ELSE {}
Live(l) == cache[l] \union hand[l] \union InFlight(l) \union InStore(l)

(* No node is lost: whatever the interleaving of fetches, evictions and    *)
(* splits, the server, the connection and the client hold between them     *)
(* exactly one node for every id the map above refers to, and none for an  *)
(* id it does not (Fetch...Path, Write...Path, FetchPath, WriteBucket).    *)
NoNodeLost ==
  \A l \in Layers :
    /\ IdsOf(Live(l)) = {i \in Ids : Known(l, i)}
    /\ \A m, n \in Live(l) : m.id = n.id => m = n

(* A node that is not in the cache is found on the path its parent's entry *)
(* names, so that no Read...Node returns NULL to a caller that will        *)
(* dereference it; and no position sent makes the server leave its tree.   *)
NobodyCrashes == crashed = {}

(* "Fetches blocks along a path, adding them to the cache" (ORAM.cpp:65):   *)
(* every fetch is for a path of the tree it is sent to.                    *)
FetchesInTree ==
  wire.type = "fetch" => Path(wire.layer, wire.leaf) \subseteq Buckets(wire.layer)

(* What is on the server is on the path of its position: the invariant a   *)
(* Path ORAM rests on, across remapping (finish) and eviction.             *)
OnItsPath ==
  \A l \in Layers : \A b \in LiveBuckets(l) : \A n \in store[<<l, b>>] :
    b \in Path(l, n.pos) /\ pmap[l][n.id] = n.pos

(* Write...Path never overwrites a bucket whose blocks the client does not *)
(* hold: every bucket written was read in the same operation, and only     *)
(* once written back can it be read again.                                 *)
WritesOnlyTaken ==
  wire.type = "write" => wire.index \in taken[wire.layer]

(* A bucket never receives more than Z blocks. *)
BucketsFit == \A t \in Tree : Cardinality(store[t]) <= Z

(* Between operations the server holds the whole tree again (what a new    *)
(* operation will read is what the last one left) and every ORAM was       *)
(* fetched from an even number of times, which is what makes the server    *)
(* forget its readviewmap.                                                 *)
QuietBetweenOperations ==
  phase = "idle" => \A l \in Layers : /\ taken[l] = {}
                                      /\ ~recvOdd[l]
                                      /\ hand[l] = {}

(* Once an operation is over, no node is at a position the server saw      *)
(* requested for it: it was remapped before it was written back, also when *)
(* it was renamed or newly created in between.                             *)
RemappedAfterAccess == phase = "idle" => \A l \in Layers : exposed[l] = {}

(* Every operation that begins comes to an end. *)
OperationsEnd == phase # "idle" ~> phase = "idle"

(* The protocol implements the store of nodes it stands for: a read returns *)
(* what was last written under the id it asks for, and no message, eviction *)
(* or remapping changes what is stored.                                     *)
Blocks == INSTANCE BlockStore WITH
  content <- [l \in Layers |-> {[id |-> n.id, data |-> n.data] : n \in Live(l)}]
ImplementsBlockStore == Blocks!Spec
=============================================================================
