-------------------------- MODULE MCPartitionList --------------------------
(* Instances of PartitionList for TLC. *)
EXTENDS PartitionList

CONSTANTS g1, g2, g3

DistinctMins ==
    [n \in Nodes |-> CASE n = g1 -> 11 [] n = g2 -> 12 [] n = g3 -> 13 [] OTHER -> n]
(* A batch with an old row can give a new partition the minimum of an older one. *)
CollidingMins == [DistinctMins EXCEPT ![g1] = 1]
=============================================================================
