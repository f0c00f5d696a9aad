---------------------------- MODULE MCMultiNode ----------------------------
(* Instances of MultiNode for TLC. *)
EXTENDS MultiNode, TLC

CONSTANTS w1, w2

\* A plain task between two groups of two nodes.
Sizes == <<2, 1, 2>>

\* Each worker can host the two units that the groups hold without a master, and one more.
Capacities == w1 :> 3 @@ w2 :> 3
=============================================================================
