------------------------------ MODULE PathTree ------------------------------
(***************************************************************************)
(* The bucket tree of one Path ORAM, as client::GetNodeOnPath              *)
(* (client.cpp) and ORAM<Node>::GetNodeOnPath (ORAM.cpp) number it: bucket *)
(* 0 is the root, the two children of bucket b are 2b+1 and 2b+2, and a    *)
(* position ("leaf") is a number in 0 .. 2^depth - 1.                      *)
(*                                                                         *)
(* An operator named X_Something, before the operator X, is a wrong X: a    *)
(* bug the properties are shown to tell from the code.                      *)
(***************************************************************************)
EXTENDS Integers

(* floor(log2(n)) for n >= 1 *)
FloorLog2[n \in Nat] == IF n < 2 THEN 0 ELSE 1 + FloorLog2[n \div 2]

(* depth of a tree built for maxSize nodes in buckets of z blocks *)
TreeDepth(maxSize, z) == FloorLog2[maxSize \div z]

BucketCount_EvenLevels(depth) == 2^(depth + 1)
BucketCount(depth) == 2^(depth + 1) - 1

LeavesOf(depth) == 0 .. 2^depth - 1

(* The loop "for (d = depth-1; d >= curDepth; d--) leaf = (leaf+1)/2 - 1": *)
(* climbing k levels from bucket b.                                        *)
Climb_Halving(b) ==
  LET up[k \in Nat] == IF k = 0 THEN b ELSE up[k - 1] \div 2
  IN  up
Climb(b) ==
  LET up[k \in Nat] == IF k = 0 THEN b ELSE (up[k - 1] + 1) \div 2 - 1
  IN  up

GetNodeOnPath(depth, leaf, curDepth) ==
  Climb(leaf + BucketCount(depth) \div 2)[depth - curDepth]

(* the buckets from the root to a leaf: what one fetch covers *)
PathBuckets(depth, leaf) == {GetNodeOnPath(depth, leaf, d) : d \in 0 .. depth}
=============================================================================
