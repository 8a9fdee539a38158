# bODS: a verification project

bODS is an oblivious map: a client stores the nodes of a search tree on a
server that must not learn which of them it uses. The server keeps one tree of
encrypted buckets for every layer of the search tree, and the client reads and
writes them by the Path ORAM protocol. This directory holds TLA+ models of the
program, the TLC runs that check them, and proofs.

Paths below are relative to the repository; `client.cpp` is `src/client.cpp`
and so on. The constant `L` (number of layers) is 4 in the code; the branches
for `L = 3` and `L >= 5` are dead under it and are not modelled.

## 1. The system

| Component | State | Operations |
|---|---|---|
| Map operations (`client::insert`, `search`, `finish`) | `root`, and the nodes of three layers, kept in the ORAMs | `insert_map`, `search_map` |
| Tree nodes (`node.cpp`) | `arr` or `childMap`, `max_value`, `old_max`, `pos` | `Insert`, `Update`, `Search` of `leafNode`, `midNode2`, `midNode1`, `rootNode` |
| Path ORAM client (`client.cpp`) | per layer a cache (stash), the set of modified ids, `leafList`, `readCnt`, `writeviewmap` | `Read...Node`, `Write...Node`, `Fetch...Path`, `finalize...`, `finalize2...`, `Write...Path`, `GetIntersectingBlocks` |
| Path ORAM server (`server.cpp`, `ORAM.cpp`, `RAMStore.cpp`) | per layer the buckets, `readviewmap`, `recv_count` | `start`, `FetchPath`, `WriteBucket` |
| Numbering of buckets (`GetNodeOnPath`, on both sides) | none | bucket of a path at a depth |
| Parameters (`precompute.cpp`) | loop variables of one search | `param_bODS(N)` chooses P1, P2, C |
| Connection and framing (`client::init`, `sendend`, `server::init`, the sends and recvs of both sides) | one TCP connection, a stream of bytes each way | open, request, answer, `exit`, and the end of either process |
| Encryption, serialisation (`AES.cpp`, `to_bytes`, `from_bytes`) | none that outlives a message | `Encrypt`, `Decrypt` |
| `Bid` | none | order, `operator!=`; used by nothing |
| Drivers (`test_omap.cpp`, `test_server.cpp`), `third_party` | none | not part of the system's logic |

**How they interact.** An operation of the map goes down the layers, reading one
node of each (`Read...Node`). A node that is not in the client's cache is
fetched: the client sends the position its parent's `childMap` entry carries,
the server answers with the buckets of that path *it has not sent yet in this
operation*, and the client merges them into its cache. An insert takes the
nodes out of the cache, changes them from the leaf up, and writes back; a node
that splits off is written with a fetch of its own. `finish` then brings every
layer to two fetches, draws new positions for every node that was touched,
copies these positions into the parents' entries, and writes all fetched paths
back, deepest buckets first, each write acknowledged. Client and server run in
lockstep over one TCP connection, and share no memory.

**What is hard.**
- Three copies of what names a node (`max_value`, `old_max`, the key in its
  parent) and two of its position have to agree through splits, renamings and
  remapping.
- A bucket that has been read and not yet written back holds stale copies. The
  server's `readviewmap`, the client's `writeviewmap` and the parity of
  `recv_count` together keep them from being read, and no one of these is
  derived from another: the server *infers* from an even count that an
  operation is over.
- What does not fit the buckets stays in the stash for later operations, which
  must prefer it to what they fetch.
- Nodes are erased from the cache while further paths are merged into it.
- Everything stops if a request stays without an answer. No result of a send or
  a recv is looked at: the client goes on without the blocks it asked for, or
  without the acknowledgement of a bucket it has dropped from its cache.
- What one recv returns is taken for one message; requests carry no length and
  are told apart by their last byte.
- Boundaries: the depth of a tree built for few nodes, division of nodes at odd
  and even capacities, a root whose overflow is not reported.

What makes each component correct: the map is a map (a search returns what was
last inserted); every entry leads to its node; the storage layer loses no node,
duplicates none and returns what was last written; every node on the server is
on the path of its position; a bucket is overwritten only if the client holds
what was in it; between operations the server has the whole tree; no node is
left at a position whose request the server saw; every operation ends.
`PROJECT.json` lists the hazards at their lines with the properties that cover
them.

## 2. Modules

| Module | Models | Of the code |
|---|---|---|
| `PathTree` | numbering and size of a tree of buckets | `GetNodeOnPath`, constructor of `ORAM`, `RandomPath` |
| `Params` | the search for the parameters, one step for each pass of its loop | `precompute.cpp` |
| `Trees` | the trees of the three layers for the parameters found | constructor of `server`; composes `Params` and `PathTree` |
| `PathORAM` | client and server of the storage protocol, all layers on one connection | `client.cpp` from `part_init` to `finish`, loop of `server::init`, `ORAM.cpp` |
| `BlockStore` | abstract: a store of nodes by id in every layer | what `Read...Node` and `Write...Node` promise `insert` and `search` |
| `LostLink` | `PathORAM` when the server goes away | what `Fetch...Path` and `Write...Path` do when nothing comes |
| `Nodes` | nodes of the search tree | `node.cpp` |
| `TreeMap` | the search tree as a whole, operations atomic | `insert`, `search`, `finish` |
| `OMap` | abstract: a map | `insert_map`, `search_map` |
| `BODS` | the whole program: the operations of `TreeMap` as sequences of `PathORAM`'s steps | `insert_map`, `search_map`, `insert`, `search` |
| `Frames` | requests and answers as they are framed and taken apart | the buffers of `client.cpp`, `server.cpp`, `ORAM.cpp`; the layout of `AES.cpp` |
| `Connection` | the connection, from `connect` and `accept` to `exit` or the end of a process | `client::init`, `server::init`, the sends and recvs |
| `PathORAM_inv` | the inductive invariant of `PathORAM` | |
| `PathTree_proofs`, `Nodes_proofs` | lemmas about the numbering of buckets; about the operations of nodes and what they make of the layers of a tree (section 5) | |
| `Trees_proofs`, `PathORAM_proofs`, `LostLink_proofs`, `TreeMap_proofs`, `BODS_proofs`, `Connection_proofs` | the theorems (section 5) | |
| `MCPathORAM`, `MCBODS`, `MCLostLink`, `MCTrees` | instances for TLC | |

There are four refinements. `PathORAM` implements `BlockStore`; `TreeMap`
implements `OMap`; `BODS`, which composes the two, implements `OMap` as well; and
`LostLink` implements `BlockStore` in what it lets a caller read. `TreeMap` uses
each layer as `BlockStore` describes it, and `PathORAM` allows every caller that
keeps to two rules: it reads names that have an entry, and it gives a node only a
name no other node of its layer has. That `insert` and `search` keep to them is
checked, and proved, of `BODS`.

An operator named `X_Something`, defined before `X`, is a wrong `X`. It is used
by no specification; replacing `X` by it must make a property fail, and
`PROJECT.json` records which (`"mutants"`).

### PathORAM

A node is `[id, pos, data]`. `id` is its `max_value`, under which the caches and
its parent know it. The search tree above is abstracted to `pmap`: the position
in the `childMap` entry of each id. So the module does not fix *which* node an
operation asks for, only that it is one the map refers to; and a node can be
created under, or renamed to, any id that names no node of its layer.

| Variable | In the code |
|---|---|
| `phase`, `kind`, `done`, `grown`, `call`, `answer` | where `insert_map` or `search_map` is, which layers its current part has dealt with, what it waits for, what it read |
| `cache`, `hand` | `mid1cache[0]`, `mid2cache`, `leafcache`; the nodes `insert` holds after it erased them there |
| `modified`, `leafList`, `readCnt`, `writeview` | `mid1modified[0]`..., `leafList1[0]`..., `readCntmid1[0]`..., `writeviewmap1[0]`... |
| `pmap` | `childMap` entries of the parents, `root->childMap` for layer 1 |
| `wire` | the message on the connection |
| `store`, `readview`, `recvOdd` | `RAMStore`, `readviewmap`, parity of `recv_count` |
| `taken`, `exposed` | history: buckets handed out and not yet written back; ids whose position the server saw since they were last remapped |
| `crashed` | a process dereferenced NULL or decrypted a bucket that does not exist |

A client action is the code between two receptions of a message, or the smallest
piece of it that a property can tell from its neighbours; since the client runs
only when no message is in flight, cutting it further changes nothing the server
can see. `Begin` is `part_init`; `ReadCached`, `ReadRemote`, `ReceiveRead` are
`Read...Node` when the node is cached, up to the send, and from the recv;
`Modify` is `Insert`/`Update` on the node in hand; `WriteNew`, `ReceiveWrite` are
`Write...Node(false, ...)`; `WriteBack` is `Write...Node(true, ...)`; `Pad`,
`ReceivePad` are `finalize...`; `Remap` is one loop of `finish`; `Evict`,
`ReceiveAck`, `EndEvict` are `finalize2...` and `Write...Path`. `ServeFetch` and
`ServeWrite` are one pass of the server's loop, `start` for every ORAM with an
even count included. The order of the layers (down when reading, up when
modifying and remapping, 1, 2, 3 when padding and evicting) is that of the code.

Data left out: keys, ciphertexts, dummy blocks (a bucket is the set of its real
blocks), the contents of a node beyond a token, and the order of nodes in
`leafList`. The order of a cache is not left out: `GetIntersectingBlocks` takes
the first Z nodes of a `std::map`, and `FirstOf` takes those of least id.

### Nodes and TreeMap

Keys are numbers, ordered as `std::string` orders them; the empty string of a
fresh `max_value` is `NoKey`. Node operations are translated one by one,
including what is odd about them: the index that `leafNode::Insert` declares
inside its loop, the sort only when a name changed in `Update`, `Search` falling
back to the last child under the name of `max_value`, and that `insert` does not
look at the result of `root->Insert`. An operation of the map is one action;
`finish` inside it draws positions for the touched nodes and copies them to the
entries.

`Finish` has the nodes of the old tree that were read and the nodes that replace
them, and `Misses` stands for the NULL a `Read...Node` would return if an entry
were stale. With `AtEnds` the run is restricted to the inserts that
`leafNode::Insert` gets right in leaves of three and more (section 4).

### BODS

The content of a node in `PathORAM` is here its record in `Nodes`. The positions
in its `childMap` are not in the record (they stay `Unplaced`) but in `pmap`, where
`PathORAM` keeps them; this is one state and not two as long as `finish` finds the
parent of every remapped node in a cache, since otherwise the code would leave the
old position in the entry. `ParentsAreCached` is that condition. The invariant
`EntriesAreThoseOfNodes` relates the other half, the names.

Each action is an action of `PathORAM` with the operation on the node in hand:
`Read` goes where `Search` of the node above says, `ChangeNode` is `Insert` in a
leaf and `Update` and `Insert` in the others, `PlaceFirst` and `PlaceSplit` write
the new nodes, `ReceivePlaced` makes the root's entry when the topmost of them
arrives. `promised` is a history variable: the value last inserted under each key,
which is what `OMap` calls `map`.

### Frames and Connection

A unit of a frame is a decimal digit, the count of digits before it, a tag, or a
block of 16 bytes of a ciphertext, marked with the bucket it belongs to. Numbers
are really formatted and parsed (`to_string`, `atoi`), because the server cuts the
leaf out of a fetch by dividing by ten, and finds the index of a written bucket by
counting back from the tag; a ciphertext is only the order of its blocks and its
vector, since the cipher itself tells nothing apart here.

`Connection` lets the client ask for anything at any time it is not waiting.
`PathORAM` says which requests it makes; what matters here is only where one
message ends. `InParts` are the processes whose recv may return less than what is
there, `MayDie` those that may be killed. A recv with nothing to come returns at
once when the other side is gone, and a send then may kill the sender (SIGPIPE):
both are the behaviour of the sockets the code uses.

### LostLink

`PathORAM` with a connection that may break once. The client is the one of
`PathORAM`: it never looks at what send and recv return. `Unheard` is what it makes
of nothing: a path without blocks, or an acknowledgement that is none and of which
only a line of output ("Send WRONG!") depends. `written` is a history variable, what
the caller has left in every layer.

### Params and Trees

All costs are sums of products of integers below 2^24, so the `float` they are
compared as is exact. `PowerSteps` stands for `int(pow(N, 0.3))`: the least N for
each value, up to N = 10321. `Trees` builds, for the numbers found, the tree of each
layer, and looks at any two positions in it. The client has copies of the formulas of
its own, and `finalize2...` a third for the depth, with a division of doubles; `Trees`
has each of them (`ClientDepth`, `ClientNodeOnPath`, `WriteDepth`) and compares what the
two sides find. `PathORAM` has one `GetNodeOnPath` for both sides because of that.

## 3. Runs

| Run | Instance | Question |
|---|---|---|
| `layers` | three layers, two nodes each, buckets of 1 | do whole operations keep every node, restore the server, remap what was exposed, and end; does the inductive invariant `Inv` hold |
| `deep_tree` | one layer, tree of 7 buckets of 1, two nodes, two contents | are nodes on their paths, is only what was read overwritten, do buckets overflow; is the protocol a `BlockStore` |
| `lost_link` | one layer, 3 buckets of 1, two nodes, two contents | is an old copy ever read when the server goes away; does anybody wait for ever |
| `split_position` | three layers, split positions as the code draws them | **violated**: `FetchesInTree` |
| `map_values` | C = 2, P2 = 2, 5 keys in any order, 2 values | is the tree a map |
| `map_positions` | C = 2, P2 = 2, 5 keys, two positions in each layer | do entries and nodes agree; is a stale entry ever followed |
| `map_in_order` | C = 3, P2 = 3, P1 = 4, 8 keys, `AtEnds` | is the tree a map with larger nodes; is every node half full |
| `leaf_order` | C = 3, 4 keys in any order | **violated**: `PresentKeysAreFound` |
| `whole_map` | `BODS` with 3 keys, 2 values, C = 1, P2 = 2, buckets of 1, leaves in a tree of 3 buckets | do `insert` and `search` keep the rules of the protocol; do entries agree with the nodes they lead to; is the program a map: does a search return what was inserted last |
| `parameters` | N from 1 to 256 and up to 10000; positions of all trees to depth 4, six of deeper ones | are the numbers the cheapest, does the root have room, does every layer have a tree; do client and server find the same buckets of a path, and is what is written back what was fetched |
| `frames` | leaves and indices of one to three digits, answers of up to two buckets, either process may die | is every message understood, is none left over, does every recv return, does `exit` end the server |
| `answer_in_parts` | the same, the client's recv may return a part | **violated**: `AnswersUnderstood` |

Why the bounds are enough to be interesting. A tree of depth 1 has a bucket all
paths share and one of its own for each path; a tree of depth 2 also has one
shared by some. Two nodes with buckets of one compete for the shared bucket, so
the stash carries nodes from one operation to the next, a fetch returns a path
that is partly read already, and padding may fetch a path of this operation
again. Three layers are what `L = 4` has; the layers' order, and that one
layer's server state sees messages for another between its own, appear with
them. The upper two have a tree of depth 0 in `layers` and in `whole_map` to keep
them small. Five keys with nodes of two split every layer and the root grows past
the first child. In `whole_map` three keys in leaves of one split leaves and a
midNode2. With two values a leaf that is overwritten keeps its name and not its
content, so that an old copy of it, in a bucket or in the stash, can be told from the
new one. No operation looks at a value, so that the two may be exchanged (`SYMMETRY`);
1.4 million states are left. The node operations with more keys are left to the `map_` runs, and
what the protocol does with any contents to `layers` and `deep_tree`. In
`map_in_order` eight keys give the root its second child with nodes of three. An
answer of two buckets is one that can be cut within a bucket and between two, and
the numbers of the leaves include 10, whose last digit is a tag, and 0. There are no
bounds inside the actions: every instance is finite because ids, positions and keys
are, and `readCnt` is reset by every operation.

The split of `midNode1` is drawn from the right tree in all runs but
`split_position` (`SplitDepth` and, in `TreeMap`, `Positions1`), and leaves of
three get keys only where `leafNode::Insert` puts them right, except in
`leaf_order`; so what the other runs show is what holds besides these two.

**Parameters and capacity.** `P1` is in the map runs the capacity `param_bODS`
gives the root, 8N / (P2² C) children for N keys, and more where that leaves one
only. `NodesHalfFull` and `RootTakesAll` are two halves of one argument: nodes not
alone in their layer are at least half full, so that N keys never need more than
P1 children, even though the division rounds down, and the full root that `insert`
would not notice is never met. `TreesExist` says exactly for which N the numbers
give a layer fewer nodes than a bucket holds (1, 2, 11 to 15): the logarithm of 0 is
then taken for a depth. The size the drivers use, N = 10000, gives P1 = 118, P2 = 15,
C = 3.

**Fairness.** `PathORAM!FairSpec` is weak fairness of the client's and of the
server's steps: both are loops of threads that run on their own (`server::init`
loops over `recv`; the client executes `insert_map` to its end). `Begin` is not
fair: no one has to ask for another operation. `OperationsEnd` holds under it: an
operation that has begun gets back to idle. `LostLink!FairSpecLink` is the same, and
includes that a recv returns when the other side is gone; that a signal kills the
client is possible and never promised. `Connection!FairSpec`
is weak fairness of the client while it waits and of the server's pass; sending,
connecting and dying are not fair. That the server ends when the client goes away
without `exit` is not claimed, because the code does not do it: recv returns 0 for
ever and the loop goes round (`ServeNobody`).

**Deadlock** is checked except where the system stops: in `frames` and
`answer_in_parts` processes end, in `lost_link` the client may be killed, in
`parameters` the search is over.

## 4. What disagrees

- **`split_position`.** `midNode1::Insert` (node.cpp:266) creates the node that
  splits off by `new midNode1(L-3)`, and the constructor draws its position for
  `P1 * P2` nodes: the size of the tree one layer below. The tree of the layer is
  built for `P1` nodes (server.cpp:15) and `finish` remaps for `P1`
  (client.cpp:373). `Writemid1Node` fetches that position, and the server reads
  buckets its tree does not have. The run reaches the state after one insert and
  a split. In the module any modified node may split; in the program a midNode1
  splits when it has more than P2 children. With `SplitDepth = Depth` the same
  module satisfies everything below. The theorems ask no more than that no split
  so far has drawn a position outside its tree (`SplitsKept`), so that they hold of the
  committed code up to the first such split of a midNode1.
- **`leaf_order`.** `leafNode::Insert` (node.cpp:70) declares its index inside the
  loop; a leaf with room compares the new key with `arr[0]` in every iteration.
  With two pairs in a leaf this is right. With three or more, keys that do not
  come in order make a leaf unsorted, its `max_value` is not its largest key,
  and keys are lost to searches. Inserting a key again has the same cause and
  effect: in a leaf with room it is recognised only as the first pair. `map_values`
  (C = 2) and `map_in_order` (C = 3, pairs at either end of a leaf with room) show
  where the code is right.
- **`answer_in_parts`.** The client takes what one `recv` returned for the whole
  answer (client.cpp:718), and asserts of what it decrypts that it is a whole bucket
  (client.cpp:588). TCP may deliver several kilobytes in parts. The run shows the
  client going on with a part; the rest would be taken for the next answer. `frames`
  shows that everything else about the framing is right if recvs are whole.

The comments at AES.hpp:31 and AES.cpp:109 put the initialisation vector at the
front of the ciphertext; `Encrypt` appends it and `Decrypt` takes it from the end,
so code and code agree (`Frames!Encrypted`, `Decrypted`) and only the comments are
wrong.

As committed, the sources do not link: `convertBlockToNode` (client.cpp:607) uses
a constructor `midNode1()` that is declared nowhere. The object it would make is
overwritten by `from_bytes`, so the models have no trace of it.

## 5. Proofs

The theorems are about `PathORAM`, `LostLink`, `TreeMap`, `BODS`, `Trees` (with the
search of `Params`) and `Connection`: for all finite sets of layers, depths, bucket
sizes, ids, keys, values and contents, all capacities of nodes, and any number of
operations. What they assume of the constants:

| Assumption | Says | Why the code justifies it |
|---|---|---|
| `LayersAssumption`, `TreesAssumption`, `IdsAssumption`, `FourLayers`, `KeysAreIds` | finitely many layers (in `BODS` the three of `L = 4`), depths and a bucket size that are numbers | types of the code |
| `NodeSizes`, `MapBounds` | nodes have room for one row at least; finitely many keys, above the empty string; -1, what a search returns that finds nothing, is not a value; and half full nodes for all keys need no more than `P1` children of the root | the last is what `RootHasRoom` proves of the P1, P2 and C that `param_bODS` returns, for a client that is given no more keys than it was built for |
| `SizesAssumption` | at most 10321 keys | the table of `int(pow(N, 0.3))` in `PowerSteps` ends there; the drivers use 10000 |
| `AllPathsAssumption`, `ConnectionAssumption` | layers 1 to 3, leaves and buckets that are natural numbers | types of the code |
| `SplitsKept`, named in the theorems about the protocol | a condition on behaviours: splits draw positions of the tree they insert into (`SplitsInRange`, a condition on constants), or at least every split so far has drawn one | **not** so for `midNode1::Insert` (section 4): the theorems apply to the code up to the first split of a midNode1 that draws a position its tree does not have. `FetchesStayInTree`, which says that none does, assumes `SplitsInRange` |
| `OrderKept`, named in the theorems about `TreeMap` and in four of those about `BODS` | leaves of at most two pairs, or pairs put at an end of a leaf with room; a condition on constants for `TreeMap` and on behaviours for `BODS` | what `leafNode::Insert` gets right (section 4): without it `leaf_order` shows the opposite |
| `WholeRecvs`, named in the theorems about `Connection` | a recv returns what one send sent | **not** promised by TCP: without it `answer_in_parts` shows the opposite |

| Theorem | Module | Proves |
|---|---|---|
| `TypeCorrect` | `PathORAM_proofs` | `TypeOK` |
| `FetchesStayInTree` | `PathORAM_proofs` | `FetchesInTree`, the property `split_position` violates |
| `Invariance` | `PathORAM_proofs` | `Inv` |
| `ReadsFindTheirNode` | `PathORAM_proofs` | `NobodyCrashes` |
| `NodesStayOnTheirPath` | `PathORAM_proofs` | `OnItsPath` |
| `OnlyTakenIsOverwritten` | `PathORAM_proofs` | `WritesOnlyTaken` |
| `NodesAreKept` | `PathORAM_proofs` | `NoNodeLost` |
| `QuietBetween` | `PathORAM_proofs` | `QuietBetweenOperations` |
| `AccessesAreRemapped` | `PathORAM_proofs` | `RemappedAfterAccess` |
| `BucketsHoldZ` | `PathORAM_proofs` | `BucketsFit` |
| `ImplementsStore` | `PathORAM_proofs` | `ImplementsBlockStore`: the protocol is a store of nodes by id |
| `TreeInvHolds` | `TreeMap_proofs` | `TreeInv`: the layers of the search tree are in order |
| `MapTypeOK` | `TreeMap_proofs` | `TypeOK`: no node, the root included, has more rows than it has room for |
| `MapLeads` | `TreeMap_proofs` | `EntriesLeadToNodes` |
| `MapHalfFull` | `TreeMap_proofs` | `NodesHalfFull` |
| `MapLosesNothing` | `TreeMap_proofs` | `NothingLost`: no entry that is followed is stale |
| `MapFinds` | `TreeMap_proofs` | `PresentKeysAreFound`, the property `leaf_order` violates |
| `MapRefines` | `TreeMap_proofs` | `ImplementsOMap`: the tree is a map |
| `ProgramIsProtocol` | `BODS_proofs` | `SpecMap => Spec`: `insert_map` and `search_map` are callers the protocol allows |
| `ProgramKeepsNodes` | `BODS_proofs` | the safety properties of the protocol, of the whole program |
| `ProgramUsesStore` | `BODS_proofs` | `ImplementsBlockStore`, of the whole program |
| `CallersKeepRules` | `BODS_proofs` | `CallerKeepsRules`: the two rules by which `PathORAM` describes its callers are kept by `insert` and `search`, not only assumed of them |
| `ParentsOfMovedAreCached` | `BODS_proofs` | `ParentsAreCached` |
| `EntriesAreOfNodes` | `BODS_proofs` | `EntriesAreThoseOfNodes` |
| `ProgramIsMap` | `BODS_proofs` | `ImplementsOMap`: the tree over the protocol is a map, message by message |
| `NoOldCopyIsRead` | `LostLink_proofs` | `ReadsLastWritten`: still so when the server goes away |
| `SearchFindsCheapest` | `Trees_proofs` | `Cheapest` |
| `RootHasRoom` | `Trees_proofs` | `RootTakesAll` |
| `LoopIsRight` | `Trees_proofs` | `LoopFindsBucket`: the loop of `GetNodeOnPath` computes the closed form |
| `PathsShareTheirPrefix` | `Trees_proofs` | `PathsMeetInPrefix`, of the client's paths and the server's |
| `WriteBackIsTheFetch` | `Trees_proofs` | `WritesWhatWasSent`: what `finalize2...` writes back for a position is what `FetchPath` sent for it |
| `ConnectionTyped` | `Connection_proofs` | `TypeOK`: what either side takes out of a message is something the other may have put there |
| `NothingLeftOver` | `Connection_proofs` | `StreamsDrained` |
| `ServerUnderstands` | `Connection_proofs` | `RequestsUnderstood` |
| `ClientUnderstands` | `Connection_proofs` | `AnswersUnderstood` |

**The protocol.** None of the safety properties is inductive. That a fetch
finds its node, say, needs that the node is where its parent's entry says, that
the server sends exactly those buckets of the path it has not sent yet, and that
the nodes of the others are in the cache: each of these depends on the others at
the next step. `Inv` (in `PathORAM_inv`) is the conjunction that is inductive.

| Part | Says | Needed because |
|---|---|---|
| `TypeInv` | types, positions within their tree, and which message answers which request | every other part speaks of a message and its request together |
| `Phases` | how often each ORAM has been fetched from in each phase, and when hands and `leafList` are empty | the count must be two when `finish` has padded: one on the way down, one for a split, the rest padding |
| `Waits` | a read waits for a node that is not cached, a new node has no entry yet | the merge after the recv must find the first and not collide with the second |
| `Counting` | parity of `recv_count` is that of the fetches that arrived; with an odd count `readviewmap` is what the client has taken | the server infers the end of an operation from an even count |
| `Books` | buckets taken are those of the paths in `leafList` and of the path awaited, less those written back | only these are written, each once, and at the end none is left |
| `NodeInv` | for each layer: no id in two places, every node at its entry's position, every entry has a node | the places are cache, hand, connection and live buckets; steps move nodes between them |
| `Located` | what is in a live bucket, or on its way to one, is on its path | so the path an entry names leads to the node |
| `OneInHand` | `insert` holds one node of a layer | `Modify` renames that one |
| `Exposure`, `Marked` | a node whose position was requested is in a place where `finish` will remap it | `modified` is keyed by id, and ids change in between |

`BucketsHoldZ` needs one part more, `Sized`: caches, messages and buckets are
finite, so that the first Z blocks can be counted.

The proof has one lemma per action. A step that moves nodes is shown to keep
`NodeInv` by comparing what each place holds before and after (`Stay`, `Moved`,
`Gathered`); `Modify`, `Remap` and `ReceiveWrite`, which change a node, are shown
directly. `ReadFinds` is the heart of it: the node asked for is in the cache once
the answer is merged, so the branch in which `Read...Node` returns NULL is never
taken.

**The refinement of `BlockStore`.** What is stored in a layer is the set of pairs
of id and content of its live nodes: those in the cache, in hand, on the
connection and in the buckets the client has not taken. By `Inv`, before a step
and after it, there is exactly one live node for each id that has an entry. So a
step that brings no new live node and makes no id known keeps the content (lemma
`Unchanged`): fetching, padding, evicting and acknowledging only move nodes between
these places, and remapping changes their position only. The steps that do more are
three: a read, which returns the node it found (`Reads`), `Modify` and
`ReceiveWrite`, which replace one pair or add one (`Replaced`). They are the read,
the update and the creation of `BlockStore`.

**The map.** `TreeInv` is the inductive invariant: the nodes of every layer are in
order and apart (`Layer`: the keys of a node increase, `max_value` is the last of
them and equal to `old_max`, and of two nodes of a layer one lies wholly above the
other), and the entries of a layer are, as a set of names and positions, exactly the
nodes of the next one (`Sorted`). None of the properties is inductive without it. That
an entry is not stale needs that `Update` finds it under `old_max`, which needs that no
other child has that name, which needs that the layers are apart; that the layers stay
apart needs that the descent chose the one node whose range covers the key (`Covers`),
which is the case only if `max_value`s and entries agree; that nodes stay half full
needs to know that a split divides `P2 + 1` or `C + 1` rows, and not one more.

A step changes one node of each layer and may split it. The lemmas on nodes say what
each operation does to the *set* of rows and to their order (`Outcome`: what is made
of a node has its rows in order, and a split keeps them all and halves them), so that
the lemmas on layers need not look into sequences: `LayerReplaced` replaces a node by
one or two in the range it covered, `LinkReplaced` the entries that lead to it, with
the positions `finish` draws on both sides at once. They serve leaves, midNode2 and
midNode1 alike (`StepSorted`). For the root, the lemma `Room` counts: leaves that are
half full and apart have as many keys as rows, so that the layers above have no more
nodes than `MapBounds` leaves room for.

That `TreeMap` implements `OMap` follows from what the leaves hold (`Held`). An insert
replaces the pairs of its key by one (`Having`), a search changes none, and by
`TreeInv` before and after the step `Find` returns the value of the one pair there is.

**The program.** Each action of `BODS` is an action of `PathORAM` with other
variables beside it, so `SpecMap` implements `Spec` and what is proved of the protocol
holds under it, for leaves of any size and in any order (`ProgramIsProtocol`,
`ProgramKeepsNodes`, `ProgramUsesStore`). But `PathORAM` has its rules for callers as
guards, and a caller that broke one would only find the step missing; and that the tree
is a map when its nodes change one message at a time is not said by the protocol at
all. For these the program has an invariant of its own, `MapInv`, beside `Inv`. What it
speaks of is `Contents`, the nodes of a layer wherever they are: by the refinement of
`BlockStore`, the steps of `finish` and of the server leave it alone (`Unmoved`), and a
node that is changed or written replaces or joins the others (`Exchanges`, `Adds`).

| Part | Says | Needed because |
|---|---|---|
| `Jobs` | which parts of an operation have a job, and what `done`, `grown` and `modified` are at their ends | the other parts speak of the operation's key |
| `NamedByMax` | a node is stored under its `max_value`, the one on its way too | so that names in the caches, in the entries and in the nodes are the same names |
| `Resting` | before an operation and from `finish` on, the layers are in order and hold what was inserted | it is what an operation may rely on |
| `Descending` | the nodes read so far are those on the way to the key (`WayTo`), they are in the hands or caches where the code puts them, and the request that waits is for the next of them | what `search` returns, and what `insert` changes, is the node whose range covers the key |
| `Updating` | there were layers in order, and a way in them, such that each layer is as it was or, if `insert` has dealt with it, has in place of the node on the way what `Insert` and `Update` make of it (`Rewriting`) | while nodes change, no layer agrees with the next: the parent names a child by the name it had |
| `Founding` | the same for the first insert, which makes a node of each layer | |
| `Adopted` | while `finish` pads and remaps, the entries of the nodes it will move are in cached nodes | it is what `ParentsAreCached` asks |

`Rewriting` states what is half done by what it comes from. `Made` is what the nodes on
the way become in the end, and `Nodes_proofs` shows of it, without any step of the
protocol, that the layers with these nodes in place are in order and hold the value
inserted, that their names are no other node's, and that those made of a node have
entries for those made of its child (`Planned`, `PlanIs`; the lemmas are those that serve
`TreeMap`). So each step of an insert has only to show that it does the next part of the
plan: `ChangeNode` that the node in hand is the one planned (`ChangedIs`), `PlaceSplit`
and `ReceivePlaced` that the new node is. When all layers are done the plan is the state
(`EndInsertInv`). A search ends in the leaf whose range covers its key, which by `Resting`
has what was inserted (`ReturnsIs`), and the name of a node is free exactly if no node
of the layer has it (`NamesKnown`), which `Planned` says.

For the four properties that rest on `MapInv` the leaves must be kept in order.
`OrderKept` in `BODS_proofs` says of a behaviour what `TreeMap`'s says of its constants:
leaves have no more than two pairs, or whenever a leaf is about to be changed it is full
or the pair belongs at one of its ends. The theorems are `SpecMap /\ []OrderKept => ...`:
for `C <= 2` they hold of every behaviour, and for larger leaves, those of the drivers'
118, 15 and 3 among them, of those in which keys come in such an order.

**The lost link.** Until the server goes away `Inv` holds, and `written` is the content
of the live nodes (`Up`). At that moment nodes on the server and on the connection are
lost, and most of `Inv` with them: an entry need not lead to a node any more. What
remains (`Down`) is `TypeInv` and, in each layer, that `written` has one pair for each id
with an entry, that every node in the cache, in hand or in an answer not yet received is
one of these pairs, and that the node in hand is not in the cache as well. The last is
what keeps `Modify` from leaving an old version behind in the cache. `Breaks` derives
`Down` from `Up`; from there each step of the client keeps it, since without a server
nothing comes that was not there.

**The parameters.** `SearchInv` says that `communication` is the cost of the choice in
`ret` and no more than that of any choice tried so far, and that the first choice costs
less than `INT_MAX`, so that something is chosen at all. With the bounds of the loops that
is `Cheapest`. `RootTakesAll` holds of every choice the search could make, the cheapest or
not (`HalvesSuffice`): nodes half full, with halves rounded up, number no more than the
quotient of which P1 is the floor.

**The trees.** `PathsMeet` says of a tree of any depth that two paths share exactly the
buckets of the levels on which the numbers of their leaves agree, `BucketInTree` that
the bucket of a level is in the tree, and `LoopFinds` that the loop of `GetNodeOnPath`
arrives at it. From these follow the theorems about `Trees`, and `PathsInTree`, on
which everything about the protocol rests. Two facts about recursion are behind them,
and both are proved without an induction theorem, which the prover cannot instantiate
here. `2^n` is the number of subsets of `1 .. n`, so that what is needed of powers
follows from the theorems on cardinality. A recursive function is equal to its closed
form because a least number at which they differ would contradict its definition
(`LeastOf`). `TreesInv` joins this to the search: a tree is built of numbers the search
has found, for as many nodes as a bucket holds at least, and as deep as the
constructor of `ORAM` makes it. That the client finds the same buckets is
`ClientFindsTheSame`; for the depth of `finalize2...`, which is not rounded before the
logarithm, it takes that no two depths fit one number (`FitsOnce`, `WriteDepthIs`).

**The connection.** `InStep` says what is on the two streams: the request the client
waits for, or its answer, or nothing if the server is gone, and nothing at all when the
client does not wait. It rests on `FramesInvert`: what `Frames` takes apart is what it
put together, for numbers and answers of any length. The numeral of a number is
described by what it satisfies (`Numeral`: read from the left it gives the number, and
has no zero in front), and that there is one such numeral, and what `atoi` and the
flattening of buckets build up, is shown by the least counterexample as above.

**What is not proved.** Liveness is out of the prover's reach and left to TLC:
`OperationsEnd`, `OperationsEndOrFail`, `CallsReturn` and `ExitStopsServer`.
`TreesExist` says for which N the cheapest choice has a small P1. That depends on the
costs of all choices for that N, and TLC evaluates it for each. That the program
never stops for want of a guard is about ENABLED as well: `CallersKeepRules` says that
the rules for callers are no reason to, and that there is a step in every state is what
the deadlock check of `whole_map` adds.

## 6. Not modelled

- **Encryption and serialisation.** The cipher is external. `to_bytes` and
  `from_bytes` copy the raw object, pointers of its strings and vectors included,
  and are the identity only in the process that wrote it, as the drivers use them;
  the models take them for that.
- **Writes after the server is gone** are lost, and nothing is claimed of them except
  that no older copy is read in their place (`ReadsLastWritten`).
- **Memory errors without effect on what is modelled.** The server copies the index of
  a write and its terminator into a buffer of one byte (`new char(index_len + 1)`,
  server.cpp:139 to 141); `Frames!WrittenIndex` is the number that is then parsed. When
  recv returns -1 the client (client.cpp:725, 780, 836) and the server (server.cpp:88)
  write a zero byte at index -1 of the buffer; `Connection` takes an error for no bytes.
  Both are undefined behaviour, and the models say nothing of what the bytes they
  overwrite may belong to.
- **A search in an empty map**, which reads `childMap[-1]`: undefined behaviour,
  excluded by the guards of `Begin` and `SearchMap` as a duty of the user.
- **Branches for `L = 3` and `L >= 5`**, `m1Update` and the `midNode1` operations on
  `midNode1` children: dead under the constant `L = 4`.
- **`Bid`**: compiled, used by nothing. Its `operator=` and `operator++` return
  nothing although they are declared to, so there is no behaviour to model.
- **Drivers** (`test_omap.cpp`, `test_server.cpp`): sequential calls of the operations
  above. **Vendored libraries**: not linked.

## 7. What could follow

1. `lost_link` for three layers; `NoOldCopyIsRead` already holds of any number.
2. `whole_map` with leaves of two pairs, in a deeper tree, and keys enough to split a midNode1.
