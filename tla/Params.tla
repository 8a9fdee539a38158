------------------------------- MODULE Params -------------------------------
(***************************************************************************)
(* param_bODS (precompute.cpp): the search for the numbers of children and *)
(* pairs with which a map of N keys costs the least traffic.  One step is  *)
(* one pass of the inner loop.                                             *)
(*                                                                         *)
(* An operator named X_Something, before the operator X, is a wrong X: a    *)
(* bug the properties are shown to tell from the code.                      *)
(***************************************************************************)
EXTENDS Integers, FiniteSets

CONSTANTS
  Sizes,   \* what N ranges over
  Z        \* blocks in a bucket

ASSUME SizesAssumption == Sizes \subseteq 1 .. 10321 /\ Z \in Nat \ {0}

VARIABLES N, c, p2, ret, communication

vars == <<N, c, p2, ret, communication>>

INT_MAX == 2147483647

(* int(pow(N, 0.3)): from these N on it is 1, 2, 3, ... *)
PowerSteps == {1, 11, 39, 102, 214, 393, 657, 1025, 1517, 2155, 2961, 3957,
               5166, 6614, 8324}
Power == Cardinality({s \in PowerSteps : s <= N})
p2_max == 2 * Power

(* ceil(log2(ceil(n / 4))), the depth of a tree for n nodes, for n below    *)
(* 131072: the number of depths that are too small                         *)
blockToleaf(n) == Cardinality({t \in 0 .. 14 : n > 4 * 2^t})

C1(p1) == p1 * (blockToleaf(p1) + 32) * 2
C2(p1, q) ==
  LET t1 == blockToleaf(p1)
      t2 == blockToleaf(p1 * q)
      t3 == blockToleaf(p1 * q * q)
  IN  4 * q * (t1 * (32 + t2) + t2 * (32 + t3))
C3(p1, q, k) == 256 * k * blockToleaf(p1 * q * q) * 3
padfun(p1, q, k) == C1(p1) + C2(p1, q) + C3(p1, q, k)

Children_Half(q, k) == IF 4 * N < q * q * k THEN 1 ELSE (4 * N) \div (q * q * k)
Children(q, k) == IF 8 * N < q * q * k THEN 1 ELSE (8 * N) \div (q * q * k)

Init ==
  /\ N \in Sizes
  /\ c = p2_max
  /\ p2 = 1
  /\ ret = [P1 |-> 0, P2 |-> 0, C |-> 0]
  /\ communication = INT_MAX

Better_Any(temp) == temp > 0
Better(temp) == temp < communication

Try ==
  /\ c > 0
  /\ LET p1   == Children(p2, c)
         temp == padfun(p1, p2, c)
     IN  IF Better(temp)
           THEN /\ ret' = [P1 |-> p1, P2 |-> p2, C |-> c]
                /\ communication' = temp
           ELSE UNCHANGED <<ret, communication>>
  /\ IF p2 < p2_max THEN p2' = p2 + 1 /\ UNCHANGED c
                    ELSE p2' = 1 /\ c' = c - 1
  /\ UNCHANGED N

Spec == Init /\ [][Try]_vars

(***************************************************************************)
(* Correctness                                                             *)
(***************************************************************************)
Found == c = 0

(* No choice the search looks at costs less than the one it returns. *)
Cheapest ==
  Found => \A q, k \in 1 .. p2_max :
             padfun(ret.P1, ret.P2, ret.C) <= padfun(Children(q, k), q, k)

(* A map of N keys never has more children of the root than P1, although   *)
(* every node, save one that is alone, may be only half full               *)
(* (TreeMap!NodesHalfFull) and the division that gives P1 rounds down:     *)
(* client::insert does not look at what root->Insert returns.              *)
HalfOf(n) == (n + 1) \div 2
RootTakesAll ==
  Found => (N \div HalfOf(ret.C)) \div (HalfOf(ret.P2) * HalfOf(ret.P2)) <= ret.P1

(* From 16 keys on every layer has a tree to be stored in: with P1 below Z *)
(* the constructors of ORAM and client take the logarithm of 0.  For 1, 2  *)
(* and 11 to 15 keys the code does that.                                   *)
TooSmall == {1, 2} \union 11 .. 15
TreesExist == Found => (ret.P1 < Z <=> N \in TooSmall)
=============================================================================
