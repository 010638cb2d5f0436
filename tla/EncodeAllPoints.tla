-------------------------- MODULE EncodeAllPoints ---------------------------
(* memoryMetric.encodeAllPoints: the order in which the points of a metric   *)
(* are handed to the encoder when its partition is flushed.                  *)
EXTENDS Integers, Sequences, FiniteSets, Functions

(* sort.Slice by timestamp, which may put equal ones in any order *)
SortOrder(s) ==
    CHOOSE p \in [DOMAIN s -> DOMAIN s] :
        /\ \A j, k \in DOMAIN s : j < k => s[p[j]].ts <= s[p[k]].ts
        /\ p \in Bijection(DOMAIN s, DOMAIN s)

SortSlice(s) == LET p == SortOrder(s) IN [k \in DOMAIN s |-> s[p[k]]]

(* The cursors oi and pi of the merge, c[1] in late and c[2] in points *)
MergeCursors(late, points) == (1..Len(late) + 1) \X (1..Len(points) + 1)

(* The loops of the merge: a tie goes to points. *)
Merge(late, points) ==
    LET merge[c \in MergeCursors(late, points)] ==
            IF c[1] > Len(late) THEN SubSeq(points, c[2], Len(points))
            ELSE IF c[2] > Len(points) THEN SubSeq(late, c[1], Len(late))
            ELSE IF late[c[1]].ts < points[c[2]].ts
                 THEN <<late[c[1]]>> \o merge[<<c[1] + 1, c[2]>>]
                 ELSE <<points[c[2]]>> \o merge[<<c[1], c[2] + 1>>]
    IN  merge[<<1, 1>>]

(* Mutant: the out-of-order points are merged as they came. *)
EncodeAll_Unsorted(points, outOfOrderPoints) == Merge(outOfOrderPoints, points)

(* The out-of-order points are sorted, then merged with the others. *)
EncodeAll(points, outOfOrderPoints) == Merge(SortSlice(outOfOrderPoints), points)

(* How often p is in the sequence s *)
Occurrences(s, p) == Cardinality({k \in DOMAIN s : s[k] = p})

(* What the flush of a partition relies on: the encoder, which stores deltas *)
(* of timestamps, is given every point exactly once and in order of time.    *)
AscendingMerge(points, outOfOrderPoints) ==
    LET out == EncodeAll(points, outOfOrderPoints)
    IN  /\ \A k \in 1..Len(out) - 1 : out[k].ts <= out[k + 1].ts
        /\ Len(out) = Len(points) + Len(outOfOrderPoints)
        /\ \A p \in Range(points) \cup Range(outOfOrderPoints) :
              Occurrences(out, p) = Occurrences(points, p) + Occurrences(outOfOrderPoints, p)
=============================================================================
