------------------------------- MODULE Labels -------------------------------
(* label.go: the name that a metric and its labels are stored under.  A      *)
(* string is the sequence of its bytes, each below Base (256 in the code).   *)
EXTENDS Integers, Sequences, SequencesExt, TLC

CONSTANTS Base, maxLabelNameLen, maxLabelValueLen

ASSUME LabelsAssumption ==
    Base \in Nat \ {0, 1} /\ maxLabelNameLen \in Nat \ {0} /\ maxLabelValueLen \in Nat \ {0}

MarshalUint16(u) == <<(u \div Base) % Base, u % Base>>

Prefixed(s) == MarshalUint16(Len(s)) \o s

Less(a, b) ==
    \E k \in 1..Len(b) :
        /\ Len(a) >= k - 1 /\ SubSeq(a, 1, k - 1) = SubSeq(b, 1, k - 1)
        /\ Len(a) >= k => a[k] < b[k]

Valid(label) == label.name # <<>> /\ label.value # <<>>

Cut(s, max) == IF Len(s) > max THEN SubSeq(s, 1, max) ELSE s

Truncated(label) ==
    IF Valid(label)
    THEN [name |-> Cut(label.name, maxLabelNameLen), value |-> Cut(label.value, maxLabelValueLen)]
    ELSE label

(* Mutant: the labels stay in the order they were given in. *)
Normalised_Unsorted(labels) == [k \in DOMAIN labels |-> Truncated(labels[k])]

(* What the caller's slice holds after a call: it is sorted and cut in      *)
(* place.                                                                   *)
Normalised(labels) ==
    LET sorted == SortSeq(labels, LAMBDA x, y : Less(x.name, y.name))
    IN  [k \in DOMAIN sorted |-> Truncated(sorted[k])]

marshalMetricName(metric, labels) ==
    LET put(out, label) ==
            IF Valid(label) THEN out \o Prefixed(label.name) \o Prefixed(label.value) ELSE out
    IN  IF labels = <<>> THEN metric ELSE FoldLeft(put, Prefixed(metric), Normalised(labels))
=============================================================================
