------------------------------- MODULE Trees -------------------------------
(***************************************************************************)
(* The bucket trees of a map: once param_bODS has found its numbers, the   *)
(* constructor of server builds one for each layer.  The client has no     *)
(* tree, only the number of nodes it is for: it computes the depth, and    *)
(* the buckets of a path, with copies of the server's formulas, and the    *)
(* depth from which Write...Path goes up with a third.  Here the two sides *)
(* look at the paths of any two positions the client may draw.             *)
(*                                                                         *)
(* An operator named X_Something, before the operator X, is a wrong X: a    *)
(* bug the properties are shown to tell from the code.                      *)
(***************************************************************************)
EXTENDS Params, PathTree

CONSTANT AllPaths   \* depth up to which all positions of a tree are looked at

ASSUME AllPathsAssumption == AllPaths \in Nat

VARIABLES
  tree,    \* nodes the tree is built for (maxSize) and its depth
  x, y     \* two positions

treesVars == <<vars, tree, x, y>>

NoTree == [size |-> 0, depth |-> 0]
Built == tree # NoTree

(* the ORAMs of layers 1 to 3: P1, P1*P2 and P1*P2*P2 nodes *)
LayerSize(l) == ret.P1 * <<1, ret.P2, ret.P2 * ret.P2>>[l]

(***************************************************************************)
(* The client's formulas, all of the number of nodes a tree is for         *)
(***************************************************************************)

(* client::GetNodeOnPath and client::RandomPath: the integer maxSize / Z *)
ClientDepth(maxSize) == FloorLog2[maxSize \div Z]

ClientClimb(b) ==
  LET up[k \in Nat] == IF k = 0 THEN b ELSE (up[k - 1] + 1) \div 2 - 1
  IN  up

ClientNodeOnPath(maxSize, leaf, curDepth) ==
  LET depth       == ClientDepth(maxSize)
      bucketCount == 2^(depth + 1) - 1
  IN  ClientClimb(leaf + bucketCount \div 2)[depth - curDepth]

(* finalize2mid1, finalize2mid2, finalize2leaf divide by Z after pow has    *)
(* made a double of the number: the largest depth whose buckets of Z the   *)
(* nodes fill, without rounding.                                           *)
WriteDepth_Strict(maxSize) ==
  CHOOSE d \in 0 .. maxSize : (d = 0 \/ Z * 2^d < maxSize) /\ maxSize <= Z * 2^(d + 1)
WriteDepth(maxSize) ==
  CHOOSE d \in 0 .. maxSize : Z * 2^d <= maxSize /\ maxSize < Z * 2^(d + 1)

(* Positions RandomPath draws.  TLC looks at every one of a small tree; of  *)
(* a deep one at those at its ends and in its middle.                      *)
SomeLeaves(d) ==
  IF d <= AllPaths THEN LeavesOf(d)
  ELSE {0, 1, 2^(d - 1) - 1, 2^(d - 1), 2^d - 2, 2^d - 1}

InitTrees ==
  /\ Init
  /\ tree = NoTree
  /\ x = 0
  /\ y = 0

(* server::server; with less than Z nodes it would take log2 of 0 *)
Build(l) ==
  /\ Found
  /\ ~Built
  /\ LayerSize(l) >= Z
  /\ tree' = [size |-> LayerSize(l), depth |-> TreeDepth(LayerSize(l), Z)]
  /\ x' \in SomeLeaves(ClientDepth(tree'.size))
  /\ y' \in SomeLeaves(ClientDepth(tree'.size))
  /\ UNCHANGED vars

NextTrees ==
  \/ Try /\ UNCHANGED <<tree, x, y>>
  \/ \E l \in 1 .. 3 : Build(l)

SpecTrees == InitTrees /\ [][NextTrees]_treesVars

(***************************************************************************)
(* Correctness                                                             *)
(***************************************************************************)

(* Bucket of depth d on the path of a leaf: levels are numbered from the    *)
(* root, and the leaf's number without its last depth - d bits counts the   *)
(* buckets before it on its level.                                          *)
BucketAt(leaf, d) == 2^d - 1 + leaf \div 2^(tree.depth - d)

(* The loop of the server's GetNodeOnPath computes the bucket of the path   *)
(* at a depth, in the tree whatever position the client draws.             *)
LoopFindsBucket ==
  Built => \A d \in 0 .. tree.depth :
             /\ GetNodeOnPath(tree.depth, x, d) = BucketAt(x, d)
             /\ GetNodeOnPath(tree.depth, x, d) \in 0 .. BucketCount(tree.depth) - 1

(* A path as the client finds it and a path as the server finds it have in  *)
(* common the buckets of the depths at which the numbers of their leaves   *)
(* agree, and only those: what Write...Path may put in a bucket is what    *)
(* the server finds under it.                                              *)
PathsMeetInPrefix ==
  Built => \A d, e \in 0 .. tree.depth :
             ClientNodeOnPath(tree.size, x, d) = GetNodeOnPath(tree.depth, y, e)
               <=> d = e /\ x \div 2^(tree.depth - d) = y \div 2^(tree.depth - d)

(* The depth the server keeps, the one the client computes for a bucket    *)
(* and the one finalize2... starts from come from divisions of three kinds, *)
(* of integers and of doubles.  They have to agree: what an operation      *)
(* writes back for a position is exactly what FetchPath sent for it, no    *)
(* bucket forgotten and none made up.                                      *)
WritesWhatWasSent ==
  Built => {ClientNodeOnPath(tree.size, x, d) : d \in 0 .. WriteDepth(tree.size)}
             = PathBuckets(tree.depth, x)
=============================================================================
