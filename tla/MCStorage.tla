----------------------------- MODULE MCStorage ------------------------------
(* Instances of Storage for TLC.  With PartitionDuration = 2 a partition     *)
(* stays active while all its timestamps are equal.                          *)
EXTENDS Storage

Scenario(batches, maxCalls, maxExpired, maxCrashes, maxRestarts, closeIn) ==
    [mode |-> "logged", batches |-> batches, maxCalls |-> maxCalls, maxExpired |-> maxExpired,
     maxCrashes |-> maxCrashes, maxRestarts |-> maxRestarts, closeIn |-> closeIn]

(* A client whose timestamps only rise *)
InOrder == {<<1>>, <<1, 2>>}

(* Timestamps that also go back, so that new partitions share their minimum  *)
(* with an older one                                                         *)
Late == {<<1, 2>>, <<1, -1>>}

(* Timestamps that also go back, with minima that differ: in order they are  *)
(* even, and the late ones are odd.                                          *)
LateDistinct == {<<2>>, <<-1>>}

(* One process whose partitions expire, and one that crashes, recovers and   *)
(* is closed                                                                 *)
ExpireOrCrash == {Scenario(InOrder, 6, 2, 0, 0, {}), Scenario(InOrder, 5, 0, 1, 1, {1})}

(* ... one without a log that is closed and opened again, and one without a  *)
(* data path                                                                 *)
Modes == ExpireOrCrash \cup
    {[Scenario(InOrder, 4, 1, 0, 1, {0}) EXCEPT !.mode = "unlogged"],
     [Scenario(InOrder, 5, 0, 0, 0, {0}) EXCEPT !.mode = "memory"]}

LateRows == {Scenario(LateDistinct, 6, 1, 0, 1, {0}),
             [Scenario(LateDistinct, 6, 0, 0, 0, {0}) EXCEPT !.mode = "memory"]}

FourCalls == {Scenario(InOrder, 4, 0, 0, 0, {})}
=============================================================================
