------------------------- MODULE MCMemoryPartition -------------------------
(* Small instances of MemoryPartition. *)
EXTENDS MemoryPartition, TLC

CONSTANTS m1, m2, w1, w2, w3, r1, r2

row(m, t) == [metric |-> m, ts |-> t]

(* One metric: batches that ascend, go back and leave the timestamp empty,  *)
(* so that every branch of insertPoint is taken.                            *)
OneMetricBatches == {<<row(m1, 0)>>, <<row(m1, 1)>>, <<row(m1, 3), row(m1, 2)>>,
                     <<row(m1, 2), row(m1, 3)>>}

Query(m, s, e) == [metric |-> m, start |-> s, end |-> e]
RaceQueries == {Query(m1, 2, 3), Query(m1, 0, 2)}
OneMetricQueries == {q \in {Query(m1, s, e) : s \in 0..3, e \in 1..4} : q.start < q.end}

WriterSymmetry == Permutations(Writers)
=============================================================================
