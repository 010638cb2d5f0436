------------------------- MODULE PartitionSequence -------------------------
(***************************************************************************)
(* What partition_list.go's interface promises: a sequence of partitions,  *)
(* newest first, that one insert, remove or swap changes in one step.      *)
(***************************************************************************)
EXTENDS Naturals, Sequences

CONSTANTS Partitions, Opened

VARIABLE partitions

Listed == {partitions[i] : i \in DOMAIN partitions}

Init == partitions = Opened

(* "insert appends a new node to the head." *)
Insert(p) == p \notin Listed /\ partitions' = <<p>> \o partitions

(* "remove eliminates the given partition from the list." *)
Remove(p) ==
    \E i \in DOMAIN partitions :
        /\ partitions[i] = p
        /\ partitions' = [k \in 1..Len(partitions) - 1 |->
                              IF k < i THEN partitions[k] ELSE partitions[k + 1]]

(* "swap replaces the old partition with the new one." *)
Swap(old, new) ==
    /\ old \in Listed /\ new \notin Listed
    /\ partitions' = [i \in DOMAIN partitions |->
                          IF partitions[i] = old THEN new ELSE partitions[i]]

Next ==
    \/ \E p \in Partitions : Insert(p) \/ Remove(p)
    \/ \E old, new \in Partitions : Swap(old, new)

Spec == Init /\ [][Next]_partitions
=============================================================================
