-------------------------- MODULE MCDiskPartition --------------------------
(* Inputs for DiskPartition. *)
EXTENDS DiskPartition

Metric == <<3, 3>>
Row(metric, labels, t, v) == [metric |-> metric, labels |-> labels, t |-> t, v |-> v]
Query(metric, labels, s, e) == [metric |-> metric, labels |-> labels, start |-> s, end |-> e]
Label(n, v) == [name |-> n, value |-> v]
MinInt == -(Word \div 2)
MaxInt == Word \div 2 - 1

(* One series of four points: pairs of deltas of deltas at the ends of the  *)
(* buckets, and values that share all, some or no bits.                     *)
Edges == {-2048, -2047, -256, -255, -64, -63, -1, 0, 1, 64, 65, 256, 257, 2048, 2049}
Step == 4100
At(first, d, e) == <<first, first + Step, first + 2 * Step + d, first + 3 * Step + 2 * d + e>>
Patterns == {<<4660, 4660, 0, Word - 1>>, <<0, 1, 4660, 4660>>}
Plain(ts, vs) == [k \in DOMAIN ts |-> Row(Metric, <<>>, ts[k], vs[k])]
All(metric, labels) == Query(metric, labels, MinInt, MaxInt)
Buckets == {[rows |-> Plain(At(-3000, d, e), vs), queries |-> {All(Metric, <<>>)}] :
               d \in Edges, e \in {-2047, -63, 0, 64, 2049}, vs \in Patterns}

(* The ends of the range of a timestamp; deltas that do not fit an int;     *)
(* points that come late, twice, or both; ranges inside.                    *)
Times == {<<MinInt, MaxInt - 1>>, <<MinInt, -1, MaxInt - 1>>, <<MinInt, 1, 2, MaxInt - 1>>, <<1>>,
          <<5, 9, 7, 5>>, <<5, 5, 5, 6>>, <<5, 9, 6, 7>>, <<-7, -9, 3, -9>>}
Ends == {[rows |-> Plain(ts, <<1, 4660, 1, Word - 2>>),
          queries |-> {Query(Metric, <<>>, s, e) : s \in {MinInt, 5}, e \in {7, MaxInt}}] : ts \in Times}

(* Series that share a metric, a label or a value, or whose strings run into *)
(* one another; labels in both orders, invalid ones and ones that are cut.   *)
a1 == Label(<<3>>, <<2>>)
b1 == Label(<<3, 2>>, <<2>>)
long == Label(<<3, 3, 3>>, <<2, 2, 2>>)
Mixed(l1, l2, l3) ==
    [rows |-> <<Row(Metric, l1, 5, 1), Row(Metric, l2, 6, 4660), Row(Metric, l3, 7, 1),
                Row(<<3>>, l1, 8, 2), Row(Metric, Reverse(l1), 9, 3)>>,
     queries |-> {All(Metric, l1), All(Metric, Reverse(l1)), All(Metric, l3), All(<<3>>, l2)}]
LabelLists == {<<>>, <<a1>>, <<b1>>, <<b1, a1>>, <<long, a1>>, <<Label(<<>>, <<2>>), a1>>,
               <<Label(<<3>>, <<>>)>>}
Named == {Mixed(l1, l2, l3) : l1 \in LabelLists, l2 \in {<<a1>>, <<a1, b1>>}, l3 \in {<<>>, <<b1>>}}

AllInputs == Buckets \cup Ends \cup Named
=============================================================================
