----------------------- MODULE MemoryPartitionSafety -----------------------
(* Theorems about MemoryPartition, for any number of writers and readers    *)
(* and any batches and queries: first those for any WorkersLimit, then what *)
(* a limit of one adds (with two, TLC finds points out of order).  Each     *)
(* safety theorem rests on an inductive invariant proved on top of Typed.   *)
EXTENDS MemoryPartition, FiniteSetTheorems, TLAPS

UsesMetric == {"loadSize", "lock", "storeMax", "addSize",
               "selectSize", "selectMin", "selectMax", "slice"}
Inserting == {"storeMetric", "loadSize", "lock", "storeMax", "addSize"}
InInsertRows == Inserting \cup {"append", "failed", "once", "row", "loadMax",
                                "swapMax", "returned"}
InSelect == {"selectStore", "selectSize", "selectMin", "selectMax", "slice", "selected"}

(* A goroutine holds what the step at its program counter reads. *)
Ready(l) ==
    /\ l.pc \in UsesMetric => l.mt \in Objects
    /\ l.pc \in InInsertRows => l.rows \in Batches
    /\ l.pc \in Inserting => l.i <= Len(l.rows)
    /\ l.pc = "idle" => l.outdated = {}
    /\ l.outdated \subseteq 1..Len(l.rows)
    /\ l.pc \in InSelect => l.query \in Queries

LocalsReady == \A g \in Goroutines : Ready(local[g])

Typed == TypeOK /\ LocalsReady

(* The batch that wins once.Do sets minT to a timestamp no row precedes. *)
LEMMA SmallestTsType ==
    ASSUME NEW b \in Batches
    PROVE  /\ SmallestTs(b) \in Nat
           /\ \A k \in DOMAIN b : SmallestTs(b) <= b[k].ts
<1> DEFINE T == {b[k].ts : k \in DOMAIN b}
<1>1. /\ b \in Seq(Rows) /\ Len(b) \in Nat \ {0}
      /\ DOMAIN b = 1..Len(b)
      /\ \A k \in DOMAIN b : b[k] \in Rows
  BY BatchesAssumption
<1>2. T \subseteq Nat /\ T # {}
  BY <1>1 DEF Rows
<1>3. \E t \in T : \A y \in T : <<y, t>> \notin OpToRel(<, Nat)
  <2> HIDE DEF T
  <2> QED BY <1>2, WFMin, NatLessThanWellFounded, Zenon
<1>4. PICK t \in T : \A y \in T : <<y, t>> \notin OpToRel(<, Nat)
  BY <1>3, Zenon
<1>5. \A y \in T : t <= y
  <2> HIDE DEF T
  <2>1. t \in Nat
    BY <1>2, <1>4, Zenon
  <2>2. ASSUME NEW y \in T PROVE y \in Nat /\ ~(y < t)
    BY <1>2, <1>4, <2>1, Zenon DEF OpToRel
  <2> QED BY <2>1, <2>2
<1> QED BY <1>2, <1>5, Zenon DEF SmallestTs

(* A batch is a non-empty sequence of rows. *)
LEMMA BatchFacts ==
    ASSUME NEW b \in Batches
    PROVE  /\ Len(b) \in Nat \ {0} /\ DOMAIN b = 1..Len(b)
           /\ \A k \in 1..Len(b) : b[k] \in Rows /\ b[k].metric \in Metrics /\ b[k].ts \in Nat
<1>1. b \in Seq(Rows) /\ Len(b) > 0
  BY BatchesAssumption
<1>2. /\ Len(b) \in Nat \ {0} /\ DOMAIN b = 1..Len(b)
      /\ \A k \in 1..Len(b) : b[k] \in Rows
  BY <1>1
<1> QED BY <1>2 DEF Rows

(* Only the stepping goroutine's locals have to be looked at. *)
LEMMA ContinueReady ==
    ASSUME local \in [Goroutines -> Local], LocalsReady,
           NEW g \in Goroutines, NEW l \in Local, Ready(l), Continue(g, l)
    PROVE  /\ local' \in [Goroutines -> Local] /\ LocalsReady'
<1>1. local' \in [Goroutines -> Local]
  BY DEF Continue
<1>2. \A h \in Goroutines : local'[h] = IF h = g THEN l ELSE local[h]
  BY DEF Continue
<1>3. \A h \in Goroutines : Ready(local'[h])
  BY <1>2 DEF LocalsReady
<1> QED BY <1>1, <1>3 DEF LocalsReady

(* ... and only the metric it updates. *)
LEMMA UpdateType ==
    ASSUME heap \in [Objects -> Metric], NEW o \in Objects, NEW m \in Metric, Update(o, m)
    PROVE  heap' \in [Objects -> Metric]
BY DEF Update

(* The bounds of a metric's fields. *)
LEMMA MetricFields ==
    ASSUME NEW m \in Metric
    PROVE  /\ m.size \in Nat /\ m.minTimestamp \in Nat /\ m.maxTimestamp \in Nat
           /\ m.points \in Seq(Points) /\ m.outOfOrderPoints \in Seq(Points)
BY DEF Metric

(* The bounds of a goroutine's local variables. *)
LEMMA LocalFields ==
    ASSUME NEW l \in Local
    PROVE  /\ l.rows \in Batches \cup {<<>>} /\ l.i \in Nat \ {0}
           /\ l.outdated \in SUBSET Nat /\ l.top \in Nat /\ l.stamp \in Nat
           /\ l.size \in Nat /\ l.lo \in Nat /\ l.hi \in Nat
BY DEF Local

(* A goroutine that only moves on *)
LEMMA LocalLabel ==
    ASSUME NEW l \in Local, NEW c \in Labels
    PROVE  [l EXCEPT !.pc = c] \in Local
BY SMTT(30) DEF Local

(* The rows put aside are positions of the batch, so their number is bounded by it. *)
LEMMA OutdatedBound ==
    ASSUME NEW n \in Nat, NEW S, S \subseteq 1..n
    PROVE  Cardinality(S) \in 0..n
<1>1. IsFiniteSet(1..n) /\ Cardinality(1..n) = n
  BY FS_Interval
<1>2. IsFiniteSet(S) /\ Cardinality(S) <= n
  BY <1>1, FS_Subset, Zenon
<1>3. Cardinality(S) \in Nat
  BY <1>2, FS_CardinalityType
<1> QED BY <1>2, <1>3

(* Type correctness is inductive together with LocalsReady. *)
LEMMA TypedInductive == Typed /\ [Next]_vars => Typed'
<1> SUFFICES ASSUME Typed, [Next]_vars
             PROVE  Typed'
  OBVIOUS
<1>a. TypeOK /\ LocalsReady
  BY DEF Typed
<1>b. Writers \subseteq Goroutines /\ Readers \subseteq Goroutines /\ None \notin Goroutines
  BY GoroutinesAssumption DEF Goroutines
<1>c. \A g \in Goroutines : local[g] \in Local /\ Ready(local[g])
  BY <1>a DEF TypeOK, LocalsReady
<1>d. \A o \in Objects : heap[o] \in Metric
  BY <1>a DEF TypeOK
<1>e. {"append", "failed", "once", "row", "storeMetric", "loadSize", "lock", "storeMax",
       "addSize", "loadMax", "swapMax", "returned", "selectStore", "selectSize",
       "selectMin", "selectMax", "slice", "selected"} \subseteq Labels
  BY DEF Labels
<1>1. ASSUME NEW w \in Writers, InsertRows(w)
      PROVE  Typed'
  <2>1. PICK b \in Batches : Continue(w, [local[w] EXCEPT !.pc = "append", !.rows = b])
    BY <1>1, Zenon DEF InsertRows
  <2>2. local[w].outdated = {}
    BY <1>1, <1>b, <1>c DEF Ready, InsertRows, pc
  <2> DEFINE l == [local[w] EXCEPT !.pc = "append", !.rows = b]
  <2>3. l \in Local
    BY <1>b, <1>c, <1>e, <2>1, <2>2, ZenonT(60) DEF Local
  <2>4. l.pc = "append" /\ l.rows = b /\ l.outdated = local[w].outdated
    BY <1>b, <1>c DEF Local
  <2>5. Ready(l)
    <3> HIDE DEF l
    <3> QED BY <1>b, <1>c, <2>4, <2>1, <2>2 DEF Ready, UsesMetric, Inserting, InInsertRows, InSelect
  <2>6. local' \in [Goroutines -> Local] /\ LocalsReady'
    BY <1>1, <1>a, <1>b, <2>3, <2>5, <2>1, <2>2, ContinueReady DEF TypeOK, InsertRows
  <2> QED BY <1>1, <1>a, <1>b, <2>6, <2>1, <2>2 DEF InsertRows, Typed, TypeOK, partition
<1>2. ASSUME NEW w \in Writers, AppendToWAL(w)
      PROVE  Typed'
  <2>1. PICK c \in {"once", "failed"} : Continue(w, [local[w] EXCEPT !.pc = c])
    BY <1>2 DEF AppendToWAL
  <2>2. local[w].rows \in Batches
    BY <1>2, <1>b, <1>c DEF AppendToWAL, pc, Ready, UsesMetric, Inserting, InInsertRows, InSelect
  <2>3. RowsOf(w) \subseteq Writers \X Nat
    BY <2>2, BatchFacts DEF RowsOf
  <2> DEFINE l == [local[w] EXCEPT !.pc = c]
  <2>4. l \in Local
    BY <1>b, <1>c, <1>e, LocalLabel, Zenon
  <2>5. /\ l.pc = c
        /\ l.mt = local[w].mt /\ l.rows = local[w].rows /\ l.i = local[w].i
        /\ l.outdated = local[w].outdated
    BY <1>b, <1>c DEF Local
  <2>6. Ready(l)
    <3> HIDE DEF l
    <3> QED BY <1>b, <1>c, <2>5, <2>1, <2>2, <2>3 DEF Ready, UsesMetric, Inserting, InInsertRows, InSelect
  <2>7. local' \in [Goroutines -> Local] /\ LocalsReady'
    BY <1>2, <1>a, <1>b, <2>4, <2>6, <2>1, <2>2, <2>3, ContinueReady DEF TypeOK, AppendToWAL
  <2> QED BY <1>2, <1>a, <1>b, <2>7, <2>1, <2>2, <2>3 DEF AppendToWAL, Typed, TypeOK, partition
<1>3. ASSUME NEW w \in Writers, SetMinOnce(w)
      PROVE  Typed'
  <2>1. local[w].rows \in Batches
    BY <1>3, <1>b, <1>c DEF SetMinOnce, pc, Ready, UsesMetric, Inserting, InInsertRows, InSelect
  <2>2. local[w].rows[1].ts \in Nat /\ SmallestTs(local[w].rows) \in Nat
    BY <2>1, BatchFacts, SmallestTsType
  <2> DEFINE l == [local[w] EXCEPT !.pc = "row", !.top = local[w].rows[1].ts]
  <2>3. l \in Local
    BY <1>b, <1>c, <1>e, <2>1, <2>2, Zenon DEF Local
  <2>4. /\ l.pc = "row"
        /\ l.mt = local[w].mt /\ l.rows = local[w].rows /\ l.i = local[w].i
        /\ l.outdated = local[w].outdated
    BY <1>b, <1>c DEF Local
  <2>5. Ready(l)
    <3> HIDE DEF l
    <3> QED BY <1>b, <1>c, <2>4, <2>1, <2>2 DEF Ready, UsesMetric, Inserting, InInsertRows, InSelect
  <2>6. local' \in [Goroutines -> Local] /\ LocalsReady'
    BY <1>3, <1>a, <1>b, <2>3, <2>5, <2>1, <2>2, ContinueReady DEF TypeOK, SetMinOnce
  <2> QED BY <1>3, <1>a, <1>b, <2>6, <2>1, <2>2 DEF SetMinOnce, Typed, TypeOK, partition
<1>4. ASSUME NEW w \in Writers, PutAside(w)
      PROVE  Typed'
  <2>1. local[w].pc = "row" /\ local[w].rows \in Batches
    BY <1>4, <1>b, <1>c DEF PutAside, pc, Ready, UsesMetric, Inserting, InInsertRows, InSelect
  <2>2. /\ local[w].i \in 1..Len(local[w].rows) /\ local[w].i + 1 \in Nat \ {0}
        /\ local[w].outdated \cup {local[w].i} \in SUBSET Nat
    BY <1>4, <1>b, <1>c, <2>1, BatchFacts, LocalFields DEF PutAside, MoreRows
  <2> DEFINE l == [local[w] EXCEPT !.outdated = local[w].outdated \cup {local[w].i},
                                  !.i = local[w].i + 1]
  <2>3. l \in Local
    BY <1>b, <1>c, <1>e, <2>1, <2>2, ZenonT(60) DEF Local
  <2>4. /\ l.pc = "row" /\ l.mt = local[w].mt /\ l.rows = local[w].rows
        /\ l.outdated = local[w].outdated \cup {local[w].i}
    BY <1>b, <1>c, <2>1 DEF Local
  <2>5. Ready(l)
    <3> HIDE DEF l
    <3> QED BY <1>b, <1>c, <2>4, <2>1, <2>2 DEF Ready, UsesMetric, Inserting, InInsertRows, InSelect
  <2>6. local' \in [Goroutines -> Local] /\ LocalsReady'
    BY <1>4, <1>a, <1>b, <2>3, <2>5, <2>1, <2>2, ContinueReady DEF TypeOK, PutAside
  <2> QED BY <1>4, <1>a, <1>b, <2>6, <2>1, <2>2 DEF PutAside, Typed, TypeOK, partition
<1>5. ASSUME NEW w \in Writers, LoadMetric(w)
      PROVE  Typed'
  <2>1. local[w].pc = "row" /\ local[w].rows \in Batches
    BY <1>5, <1>b, <1>c DEF LoadMetric, pc, Ready, InInsertRows
  <2>2. /\ local[w].i \in 1..Len(local[w].rows)
        /\ Row(w).metric \in Metrics /\ Row(w).ts \in Nat
    <3>1. local[w].i \in Nat \ {0} /\ Len(local[w].rows) \in Nat
      BY <1>b, <1>c, <2>1, BatchFacts, LocalFields
    <3>2. local[w].i <= Len(local[w].rows)
      BY <1>5 DEF LoadMetric, MoreRows
    <3>3. local[w].i \in 1..Len(local[w].rows)
      BY <3>1, <3>2
    <3> QED BY <2>1, <3>3, BatchFacts DEF Row
  <2>3. PICK now \in Clock :
           LET t == Stamped(w, now)
               owner == metrics[Row(w).metric]
               l == [local[w] EXCEPT !.stamp = t,
                                     !.top = IF t > local[w].top THEN t ELSE local[w].top]
           IN  Continue(w, IF owner = None
                           THEN [l EXCEPT !.pc = "storeMetric"]
                           ELSE [l EXCEPT !.pc = "loadSize", !.mt = <<owner, Row(w).metric>>])
    BY <1>5, Zenon DEF LoadMetric
  <2> DEFINE t == Stamped(w, now)
             owner == metrics[Row(w).metric]
             top == IF t > local[w].top THEN t ELSE local[w].top
             k == [local[w] EXCEPT !.stamp = t, !.top = top]
             l == IF owner = None
                  THEN [k EXCEPT !.pc = "storeMetric"]
                  ELSE [k EXCEPT !.pc = "loadSize", !.mt = <<owner, Row(w).metric>>]
  <2>4. t \in Nat /\ top \in Nat
    BY <1>b, <1>c, <2>2, LocalFields, ClockAssumption DEF Stamped
  <2>5. k \in Local
    <3> HIDE DEF t, top
    <3> QED BY <1>b, <1>c, <2>4, Zenon DEF Local
  <2>6. /\ k.pc = "row" /\ k.rows = local[w].rows /\ k.i = local[w].i
        /\ k.outdated = local[w].outdated
    BY <1>b, <1>c, <2>1 DEF Local
  <2>7. owner # None => <<owner, Row(w).metric>> \in Objects
    BY <1>a, <2>2 DEF TypeOK, Objects
  <2>8. l \in Local
    <3> HIDE DEF k, owner
    <3> QED BY <1>e, <2>5, <2>7, Zenon DEF Local
  <2>9. /\ l.pc = IF owner = None THEN "storeMetric" ELSE "loadSize"
        /\ owner # None => l.mt = <<owner, Row(w).metric>>
        /\ l.rows = local[w].rows /\ l.i = local[w].i /\ l.outdated = local[w].outdated
    <3> HIDE DEF k, owner
    <3> QED BY <2>5, <2>6 DEF Local
  <2>10. Ready(l)
    <3> HIDE DEF l, owner
    <3> QED BY <1>b, <1>c, <2>1, <2>2, <2>7, <2>9
        DEF Ready, UsesMetric, Inserting, InInsertRows, InSelect
  <2>11. local' \in [Goroutines -> Local] /\ LocalsReady'
    BY <1>a, <1>b, <2>3, <2>8, <2>10, ContinueReady DEF TypeOK
  <2> QED BY <1>5, <1>a, <2>11 DEF LoadMetric, Typed, TypeOK, partition
<1>6. ASSUME NEW w \in Writers, StoreMetric(w)
      PROVE  Typed'
  <2>1. local[w].rows \in Batches /\ local[w].i <= Len(local[w].rows)
    BY <1>6, <1>b, <1>c DEF StoreMetric, pc, Ready, UsesMetric, Inserting, InInsertRows, InSelect
  <2>2. Row(w).metric \in Metrics
    BY <1>b, <1>c, <2>1, BatchFacts, LocalFields DEF Row
  <2>3. <<w, Row(w).metric>> \in Objects
    BY <1>b, <2>2 DEF Objects
  <2> DEFINE l == [local[w] EXCEPT !.pc = "loadSize", !.mt = <<w, Row(w).metric>>]
  <2>4. l \in Local
    BY <1>b, <1>c, <1>e, <2>1, <2>2, <2>3, Zenon DEF Local
  <2>5. /\ l.pc = "loadSize" /\ l.mt = <<w, Row(w).metric>> /\ l.rows = local[w].rows
        /\ l.i = local[w].i /\ l.outdated = local[w].outdated
    BY <1>b, <1>c DEF Local
  <2>6. Ready(l)
    <3> HIDE DEF l
    <3> QED BY <1>b, <1>c, <2>5, <2>1, <2>2, <2>3 DEF Ready, UsesMetric, Inserting, InInsertRows, InSelect
  <2>7. local' \in [Goroutines -> Local] /\ LocalsReady'
    BY <1>6, <1>a, <1>b, <2>4, <2>6, <2>1, <2>2, <2>3, ContinueReady DEF TypeOK, StoreMetric
  <2> QED BY <1>6, <1>a, <1>b, <2>7, <2>1, <2>2, <2>3 DEF StoreMetric, Typed, TypeOK, partition
<1>7. ASSUME NEW w \in Writers, LoadSize(w)
      PROVE  Typed'
  <2>1. local[w].mt \in Objects /\ local[w].rows \in Batches /\ local[w].i <= Len(local[w].rows)
    BY <1>7, <1>b, <1>c DEF LoadSize, pc, Ready, UsesMetric, Inserting, InInsertRows, InSelect
  <2>2. Mt(w) \in Metric /\ Mt(w).size \in Nat
    BY <1>d, <2>1, MetricFields DEF Mt
  <2> DEFINE l == [local[w] EXCEPT !.pc = "lock", !.size = Mt(w).size]
  <2>3. l \in Local
    BY <1>b, <1>c, <1>e, <2>1, <2>2, ZenonT(60) DEF Local
  <2>4. /\ l.pc = "lock"
        /\ l.mt = local[w].mt /\ l.rows = local[w].rows /\ l.i = local[w].i
        /\ l.outdated = local[w].outdated
    BY <1>b, <1>c DEF Local
  <2>5. Ready(l)
    <3> HIDE DEF l
    <3> QED BY <1>b, <1>c, <2>4, <2>1, <2>2, Zenon DEF Ready, UsesMetric, Inserting, InInsertRows, InSelect
  <2>6. local' \in [Goroutines -> Local] /\ LocalsReady'
    BY <1>7, <1>a, <1>b, <2>3, <2>5, <2>1, <2>2, ContinueReady DEF TypeOK, LoadSize
  <2> QED BY <1>7, <1>a, <1>b, <2>6, <2>1, <2>2 DEF LoadSize, Typed, TypeOK, partition
<1>8. ASSUME NEW w \in Writers, FirstInsertion(w)
      PROVE  Typed'
  <2>1. local[w].mt \in Objects /\ local[w].rows \in Batches /\ local[w].i <= Len(local[w].rows)
    BY <1>8, <1>b, <1>c DEF FirstInsertion, pc, Ready, UsesMetric, Inserting, InInsertRows, InSelect
  <2>2. Mt(w) \in Metric
    BY <1>d, <2>1 DEF Mt
  <2>3. Point(w) \in Points /\ local[w].stamp \in Nat
    BY <1>b, <1>c, LocalFields DEF Point, Points
  <2>4. Append(Mt(w).points, Point(w)) \in Seq(Points)
    BY <2>1, <2>2, <2>3, MetricFields
  <2> DEFINE l == [local[w] EXCEPT !.pc = "storeMax"]
  <2>5. l \in Local
    BY <1>b, <1>c, <1>e, LocalLabel, Zenon
  <2>6. /\ l.pc = "storeMax"
        /\ l.mt = local[w].mt /\ l.rows = local[w].rows /\ l.i = local[w].i
        /\ l.outdated = local[w].outdated
    BY <1>b, <1>c DEF Local
  <2>7. Ready(l)
    <3> HIDE DEF l
    <3> QED BY <1>b, <1>c, <2>6, <2>1, <2>2, <2>3, <2>4 DEF Ready, UsesMetric, Inserting, InInsertRows, InSelect
  <2>8. local' \in [Goroutines -> Local] /\ LocalsReady'
    BY <1>8, <1>a, <1>b, <2>5, <2>7, <2>1, <2>2, <2>3, <2>4, ContinueReady, Zenon DEF TypeOK, FirstInsertion
  <2>9. heap' \in [Objects -> Metric]
    <3> DEFINE m == [Mt(w) EXCEPT !.mu = w, !.points = Append(@, Point(w)),
                                 !.minTimestamp = local[w].stamp]
    <3>1. m \in Metric
      BY <2>1, <2>2, <2>3, <2>4, MetricFields, Zenon DEF Metric
    <3>2. Update(local[w].mt, m)
      BY <1>8 DEF FirstInsertion
    <3> QED BY <1>a, <3>1, <3>2, <2>1, <2>2, <2>3, <2>4, UpdateType DEF TypeOK
  <2> QED BY <1>8, <1>a, <1>b, <2>8, <2>9, <2>1, <2>2, <2>3, <2>4, Zenon DEF FirstInsertion, Typed, TypeOK, partition
<1>9. ASSUME NEW w \in Writers, StoreMaxTimestamp(w)
      PROVE  Typed'
  <2>1. local[w].mt \in Objects /\ local[w].rows \in Batches /\ local[w].i <= Len(local[w].rows)
    BY <1>9, <1>b, <1>c DEF StoreMaxTimestamp, pc, Ready, UsesMetric, Inserting, InInsertRows, InSelect
  <2>2. Mt(w) \in Metric
    BY <1>d, <2>1 DEF Mt
  <2>3. Point(w) \in Points /\ local[w].stamp \in Nat
    BY <1>b, <1>c, LocalFields DEF Point, Points
  <2> DEFINE l == [local[w] EXCEPT !.pc = "addSize"]
  <2>4. l \in Local
    BY <1>b, <1>c, <1>e, LocalLabel, Zenon
  <2>5. /\ l.pc = "addSize"
        /\ l.mt = local[w].mt /\ l.rows = local[w].rows /\ l.i = local[w].i
        /\ l.outdated = local[w].outdated
    BY <1>b, <1>c DEF Local
  <2>6. Ready(l)
    <3> HIDE DEF l
    <3> QED BY <1>b, <1>c, <2>5, <2>1, <2>2, <2>3 DEF Ready, UsesMetric, Inserting, InInsertRows, InSelect
  <2>7. local' \in [Goroutines -> Local] /\ LocalsReady'
    BY <1>9, <1>a, <1>b, <2>4, <2>6, <2>1, <2>2, <2>3, ContinueReady DEF TypeOK, StoreMaxTimestamp
  <2>8. heap' \in [Objects -> Metric]
    <3> DEFINE m == [Mt(w) EXCEPT !.maxTimestamp = local[w].stamp]
    <3>1. m \in Metric
      BY <2>1, <2>2, <2>3, MetricFields, Zenon DEF Metric
    <3>2. Update(local[w].mt, m)
      BY <1>9 DEF StoreMaxTimestamp
    <3> QED BY <1>a, <3>1, <3>2, <2>1, <2>2, <2>3, UpdateType DEF TypeOK
  <2> QED BY <1>9, <1>a, <1>b, <2>7, <2>8, <2>1, <2>2, <2>3, Zenon DEF StoreMaxTimestamp, Typed, TypeOK, partition
<1>10. ASSUME NEW w \in Writers, InsertInOrder(w)
      PROVE  Typed'
  <2>1. local[w].mt \in Objects /\ local[w].rows \in Batches /\ local[w].i <= Len(local[w].rows)
    BY <1>10, <1>b, <1>c, SMTT(30) DEF InsertInOrder, pc, Ready, UsesMetric, Inserting, InInsertRows, InSelect
  <2>2. Mt(w) \in Metric
    BY <1>d, <2>1 DEF Mt
  <2>3. Point(w) \in Points /\ local[w].stamp \in Nat
    BY <1>b, <1>c, LocalFields DEF Point, Points
  <2>4. Append(Mt(w).points, Point(w)) \in Seq(Points)
    BY <2>1, <2>2, <2>3, MetricFields
  <2> DEFINE l == [local[w] EXCEPT !.pc = "addSize"]
  <2>5. l \in Local
    BY <1>b, <1>c, <1>e, LocalLabel, Zenon
  <2>6. /\ l.pc = "addSize"
        /\ l.mt = local[w].mt /\ l.rows = local[w].rows /\ l.i = local[w].i
        /\ l.outdated = local[w].outdated
    BY <1>b, <1>c DEF Local
  <2>7. Ready(l)
    <3> HIDE DEF l
    <3> QED BY <1>b, <1>c, <2>6, <2>1, <2>2, <2>3, <2>4 DEF Ready, UsesMetric, Inserting, InInsertRows, InSelect
  <2>8. local' \in [Goroutines -> Local] /\ LocalsReady'
    BY <1>10, <1>a, <1>b, <2>5, <2>7, <2>1, <2>2, <2>3, <2>4, ContinueReady DEF TypeOK, InsertInOrder
  <2>9. heap' \in [Objects -> Metric]
    <3> DEFINE m == [Mt(w) EXCEPT !.mu = w, !.points = Append(@, Point(w)),
                                 !.maxTimestamp = local[w].stamp]
    <3>1. m \in Metric
      BY <2>1, <2>2, <2>3, <2>4, MetricFields, Zenon DEF Metric
    <3>2. Update(local[w].mt, m)
      BY <1>10 DEF InsertInOrder
    <3> QED BY <1>a, <3>1, <3>2, <2>1, <2>2, <2>3, <2>4, UpdateType DEF TypeOK
  <2> QED BY <1>10, <1>a, <1>b, <2>8, <2>9, <2>1, <2>2, <2>3, <2>4, Zenon DEF InsertInOrder, Typed, TypeOK, partition
<1>11. ASSUME NEW w \in Writers, AddSize(w)
      PROVE  Typed'
  <2>1. local[w].mt \in Objects /\ local[w].rows \in Batches /\ local[w].i <= Len(local[w].rows)
    BY <1>11, <1>b, <1>c DEF AddSize, pc, Ready, UsesMetric, Inserting, InInsertRows, InSelect
  <2>2. Mt(w) \in Metric
    BY <1>d, <2>1 DEF Mt
  <2>3. local[w].i + 1 \in Nat \ {0}
    BY <1>b, <1>c, LocalFields
  <2>4. Mt(w).size + 1 \in Nat
    BY <2>2, MetricFields
  <2> DEFINE l == [local[w] EXCEPT !.pc = "row", !.i = local[w].i + 1]
  <2>5. l \in Local
    BY <1>b, <1>c, <1>e, <2>1, <2>2, <2>3, <2>4, ZenonT(60) DEF Local
  <2>6. /\ l.pc = "row" /\ l.mt = local[w].mt /\ l.rows = local[w].rows
        /\ l.outdated = local[w].outdated
    BY <1>b, <1>c DEF Local
  <2>7. Ready(l)
    <3> HIDE DEF l
    <3> QED BY <1>b, <1>c, <2>6, <2>1, <2>2, <2>3, <2>4 DEF Ready, UsesMetric, Inserting, InInsertRows, InSelect
  <2>8. local' \in [Goroutines -> Local] /\ LocalsReady'
    BY <1>11, <1>a, <1>b, <2>5, <2>7, <2>1, <2>2, <2>3, <2>4, ContinueReady DEF TypeOK, AddSize
  <2>9. heap' \in [Objects -> Metric]
    <3> DEFINE m == [Mt(w) EXCEPT !.size = @ + 1, !.mu = None]
    <3>1. m \in Metric
      BY <2>1, <2>2, <2>3, <2>4, MetricFields, Zenon DEF Metric
    <3>2. Update(local[w].mt, m)
      BY <1>11 DEF AddSize
    <3> QED BY <1>a, <3>1, <3>2, <2>1, <2>2, <2>3, <2>4, UpdateType DEF TypeOK
  <2> QED BY <1>11, <1>a, <1>b, <2>8, <2>9, <2>1, <2>2, <2>3, <2>4 DEF AddSize, Typed, TypeOK, partition
<1>12. ASSUME NEW w \in Writers, InsertOutOfOrder(w)
      PROVE  Typed'
  <2>1. local[w].mt \in Objects /\ local[w].rows \in Batches /\ local[w].i <= Len(local[w].rows)
    BY <1>12, <1>b, <1>c DEF InsertOutOfOrder, pc, Ready, UsesMetric, Inserting, InInsertRows, InSelect
  <2>2. Mt(w) \in Metric
    BY <1>d, <2>1 DEF Mt
  <2>3. Point(w) \in Points /\ local[w].stamp \in Nat
    BY <1>b, <1>c, LocalFields DEF Point, Points
  <2>4. Append(Mt(w).outOfOrderPoints, Point(w)) \in Seq(Points)
    BY <2>1, <2>2, <2>3, MetricFields
  <2>5. local[w].i + 1 \in Nat \ {0}
    BY <1>b, <1>c, LocalFields
  <2> DEFINE l == [local[w] EXCEPT !.pc = "row", !.i = local[w].i + 1]
  <2>6. l \in Local
    BY <1>b, <1>c, <1>e, <2>1, <2>2, <2>3, <2>4, <2>5, ZenonT(60) DEF Local
  <2>7. /\ l.pc = "row" /\ l.mt = local[w].mt /\ l.rows = local[w].rows
        /\ l.outdated = local[w].outdated
    BY <1>b, <1>c DEF Local
  <2>8. Ready(l)
    <3> HIDE DEF l
    <3> QED BY <1>b, <1>c, <2>7, <2>1, <2>2, <2>3, <2>4, <2>5, Zenon DEF Ready, UsesMetric, Inserting, InInsertRows, InSelect
  <2>9. local' \in [Goroutines -> Local] /\ LocalsReady'
    BY <1>12, <1>a, <1>b, <2>6, <2>8, <2>1, <2>2, <2>3, <2>4, <2>5, ContinueReady, Zenon DEF TypeOK, InsertOutOfOrder
  <2>10. heap' \in [Objects -> Metric]
    <3> DEFINE m == [Mt(w) EXCEPT !.outOfOrderPoints = Append(@, Point(w))]
    <3>1. m \in Metric
      BY <2>1, <2>2, <2>3, <2>4, <2>5, MetricFields, Zenon DEF Metric
    <3>2. Update(local[w].mt, m)
      BY <1>12 DEF InsertOutOfOrder
    <3> QED BY <1>a, <3>1, <3>2, <2>1, <2>2, <2>3, <2>4, <2>5, UpdateType DEF TypeOK
  <2> QED BY <1>12, <1>a, <1>b, <2>9, <2>10, <2>1, <2>2, <2>3, <2>4, <2>5, Zenon DEF InsertOutOfOrder, Typed, TypeOK, partition
<1>13. ASSUME NEW w \in Writers, AddNumPoints(w)
      PROVE  Typed'
  <2>1. local[w].rows \in Batches /\ local[w].outdated \subseteq 1..Len(local[w].rows)
    BY <1>13, <1>b, <1>c DEF AddNumPoints, pc, Ready, UsesMetric, Inserting, InInsertRows, InSelect
  <2>2. Cardinality(local[w].outdated) \in 0..Len(local[w].rows) /\ Len(local[w].rows) \in Nat
    BY <2>1, BatchFacts, OutdatedBound
  <2>3. numPoints' \in Nat
    BY <1>13, <1>a, <2>2 DEF AddNumPoints, TypeOK
  <2> DEFINE l == [local[w] EXCEPT !.pc = "loadMax"]
  <2>4. l \in Local
    BY <1>b, <1>c, <1>e, LocalLabel, Zenon
  <2>5. /\ l.pc = "loadMax"
        /\ l.mt = local[w].mt /\ l.rows = local[w].rows /\ l.i = local[w].i
        /\ l.outdated = local[w].outdated
    BY <1>b, <1>c DEF Local
  <2>6. Ready(l)
    <3> HIDE DEF l
    <3> QED BY <1>b, <1>c, <2>5, <2>1, <2>2, <2>3 DEF Ready, UsesMetric, Inserting, InInsertRows, InSelect
  <2>7. local' \in [Goroutines -> Local] /\ LocalsReady'
    BY <1>13, <1>a, <1>b, <2>4, <2>6, <2>1, <2>2, <2>3, ContinueReady DEF TypeOK, AddNumPoints
  <2> QED BY <1>13, <1>a, <1>b, <2>7, <2>1, <2>2, <2>3 DEF AddNumPoints, Typed, TypeOK, partition
<1>14. ASSUME NEW w \in Writers, LoadMax(w)
      PROVE  Typed'
  <2>1. local[w].rows \in Batches
    BY <1>14, <1>b, <1>c DEF LoadMax, pc, Ready, UsesMetric, Inserting, InInsertRows, InSelect
  <2> DEFINE l == [local[w] EXCEPT !.pc = IF maxT < local[w].top THEN "swapMax" ELSE "returned"]
  <2>2. l \in Local
    <3>1. (IF maxT < local[w].top THEN "swapMax" ELSE "returned") \in Labels
      BY <1>e, Zenon
    <3> QED BY <1>b, <1>c, <3>1, LocalLabel, Zenon
  <2>3. /\ l.pc \in {"swapMax", "returned"}
        /\ l.mt = local[w].mt /\ l.rows = local[w].rows /\ l.i = local[w].i
        /\ l.outdated = local[w].outdated
    BY <1>b, <1>c DEF Local
  <2>4. Ready(l)
    <3> HIDE DEF l
    <3> QED BY <1>b, <1>c, <2>3, <2>1 DEF Ready, UsesMetric, Inserting, InInsertRows, InSelect
  <2>5. local' \in [Goroutines -> Local] /\ LocalsReady'
    BY <1>14, <1>a, <1>b, <2>2, <2>4, <2>1, ContinueReady DEF TypeOK, LoadMax
  <2> QED BY <1>14, <1>a, <1>b, <2>5, <2>1 DEF LoadMax, Typed, TypeOK, partition
<1>15. ASSUME NEW w \in Writers, SwapMax(w)
      PROVE  Typed'
  <2>1. local[w].rows \in Batches
    BY <1>15, <1>b, <1>c DEF SwapMax, pc, Ready, UsesMetric, Inserting, InInsertRows, InSelect
  <2>2. maxT' \in Nat
    BY <1>15, <1>b, <1>c, LocalFields DEF SwapMax
  <2> DEFINE l == [local[w] EXCEPT !.pc = "returned"]
  <2>3. l \in Local
    BY <1>b, <1>c, <1>e, LocalLabel, Zenon
  <2>4. /\ l.pc = "returned"
        /\ l.mt = local[w].mt /\ l.rows = local[w].rows /\ l.i = local[w].i
        /\ l.outdated = local[w].outdated
    BY <1>b, <1>c DEF Local
  <2>5. Ready(l)
    <3> HIDE DEF l
    <3> QED BY <1>b, <1>c, <2>4, <2>1, <2>2, Zenon DEF Ready, UsesMetric, Inserting, InInsertRows, InSelect
  <2>6. local' \in [Goroutines -> Local] /\ LocalsReady'
    BY <1>15, <1>a, <1>b, <2>3, <2>5, <2>1, <2>2, ContinueReady DEF TypeOK, SwapMax
  <2> QED BY <1>15, <1>a, <1>b, <2>6, <2>1, <2>2 DEF SwapMax, Typed, TypeOK, partition
<1>16. ASSUME NEW r \in Readers, SelectDataPoints(r)
      PROVE  Typed'
  <2>1. PICK q \in Queries :
           LET owner == metrics[q.metric]
               o == <<owner, q.metric>>
               l == [local[r] EXCEPT !.query = q]
           IN  Continue(r, IF owner = None
                           THEN [l EXCEPT !.pc = "selectStore"]
                           ELSE [l EXCEPT !.pc = "selectSize", !.mt = o,
                                          !.before = heap[o].size])
    BY <1>16, Zenon DEF SelectDataPoints
  <2> DEFINE owner == metrics[q.metric]
             o == <<owner, q.metric>>
             k == [local[r] EXCEPT !.query = q]
             l == IF owner = None
                  THEN [k EXCEPT !.pc = "selectStore"]
                  ELSE [k EXCEPT !.pc = "selectSize", !.mt = o, !.before = heap[o].size]
  <2>2. owner # None => o \in Objects
    BY <1>a, QueriesAssumption DEF TypeOK, Objects
  <2>3. owner # None => heap[o].size \in Nat
    BY <1>d, <2>2, MetricFields
  <2>4. k \in Local
    BY <1>b, <1>c, ZenonT(60) DEF Local
  <2>5. k.query = q /\ k.rows = local[r].rows /\ k.outdated = local[r].outdated
    BY <1>b, <1>c DEF Local
  <2>6. l \in Local
    <3> HIDE DEF k, o, owner
    <3> QED BY <1>e, <2>2, <2>3, <2>4, Zenon DEF Local
  <2>7. /\ l.pc = IF owner = None THEN "selectStore" ELSE "selectSize"
        /\ owner # None => l.mt = o
        /\ l.query = q /\ l.rows = local[r].rows /\ l.outdated = local[r].outdated
    <3> HIDE DEF k, o, owner
    <3> QED BY <2>4, <2>5 DEF Local
  <2>8. Ready(l)
    <3> HIDE DEF l, o, owner
    <3> QED BY <1>b, <1>c, <2>2, <2>7, Zenon
        DEF Ready, UsesMetric, Inserting, InInsertRows, InSelect
  <2>9. local' \in [Goroutines -> Local] /\ LocalsReady'
    BY <1>a, <1>b, <2>1, <2>6, <2>8, ContinueReady DEF TypeOK
  <2> QED BY <1>16, <1>a, <2>9 DEF SelectDataPoints, Typed, TypeOK, partition
<1>17. ASSUME NEW r \in Readers, SelectStoreMetric(r)
      PROVE  Typed'
  <2>1. local[r].query \in Queries
    BY <1>17, <1>b, <1>c DEF SelectStoreMetric, pc, Ready, UsesMetric, Inserting, InInsertRows, InSelect
  <2>2. local[r].query.metric \in Metrics
    BY <2>1, QueriesAssumption
  <2>3. <<r, local[r].query.metric>> \in Objects
    BY <1>b, <2>2 DEF Objects
  <2> DEFINE l == [local[r] EXCEPT !.pc = "selectSize", !.mt = <<r, local[r].query.metric>>]
  <2>4. l \in Local
    BY <1>b, <1>c, <1>e, <2>1, <2>2, <2>3, ZenonT(60) DEF Local
  <2>5. /\ l.pc = "selectSize" /\ l.mt = <<r, local[r].query.metric>>
        /\ l.query = local[r].query /\ l.rows = local[r].rows
        /\ l.outdated = local[r].outdated
    BY <1>b, <1>c DEF Local
  <2>6. Ready(l)
    <3> HIDE DEF l
    <3> QED BY <1>b, <1>c, <2>5, <2>1, <2>2, <2>3 DEF Ready, UsesMetric, Inserting, InInsertRows, InSelect
  <2>7. local' \in [Goroutines -> Local] /\ LocalsReady'
    BY <1>17, <1>a, <1>b, <2>4, <2>6, <2>1, <2>2, <2>3, ContinueReady DEF TypeOK, SelectStoreMetric
  <2> QED BY <1>17, <1>a, <1>b, <2>7, <2>1, <2>2, <2>3 DEF SelectStoreMetric, Typed, TypeOK, partition
<1>18. ASSUME NEW r \in Readers, SelectLoadSize(r)
      PROVE  Typed'
  <2>1. local[r].mt \in Objects /\ local[r].query \in Queries
    BY <1>18, <1>b, <1>c DEF SelectLoadSize, pc, Ready, UsesMetric, Inserting, InInsertRows, InSelect
  <2>2. Mt(r) \in Metric /\ Mt(r).size \in Nat
    BY <1>d, <2>1, MetricFields DEF Mt
  <2> DEFINE l == [local[r] EXCEPT !.pc = "selectMin", !.size = Mt(r).size]
  <2>3. l \in Local
    BY <1>b, <1>c, <1>e, <2>1, <2>2, ZenonT(60) DEF Local
  <2>4. /\ l.pc = "selectMin"
        /\ l.mt = local[r].mt /\ l.query = local[r].query /\ l.rows = local[r].rows
        /\ l.outdated = local[r].outdated
    BY <1>b, <1>c DEF Local
  <2>5. Ready(l)
    <3> HIDE DEF l
    <3> QED BY <1>b, <1>c, <2>4, <2>1, <2>2, Zenon DEF Ready, UsesMetric, Inserting, InInsertRows, InSelect
  <2>6. local' \in [Goroutines -> Local] /\ LocalsReady'
    BY <1>18, <1>a, <1>b, <2>3, <2>5, <2>1, <2>2, ContinueReady DEF TypeOK, SelectLoadSize
  <2> QED BY <1>18, <1>a, <1>b, <2>6, <2>1, <2>2 DEF SelectLoadSize, Typed, TypeOK, partition
<1>19. ASSUME NEW r \in Readers, SelectLoadMin(r)
      PROVE  Typed'
  <2>1. local[r].mt \in Objects /\ local[r].query \in Queries
    BY <1>19, <1>b, <1>c DEF SelectLoadMin, pc, Ready, UsesMetric, Inserting, InInsertRows, InSelect
  <2>2. Mt(r) \in Metric /\ Mt(r).minTimestamp \in Nat
    BY <1>d, <2>1, MetricFields DEF Mt
  <2> DEFINE l == [local[r] EXCEPT !.pc = "selectMax", !.lo = Mt(r).minTimestamp]
  <2>3. l \in Local
    BY <1>b, <1>c, <1>e, <2>1, <2>2, ZenonT(60) DEF Local
  <2>4. /\ l.pc = "selectMax"
        /\ l.mt = local[r].mt /\ l.query = local[r].query /\ l.rows = local[r].rows
        /\ l.outdated = local[r].outdated
    BY <1>b, <1>c DEF Local
  <2>5. Ready(l)
    <3> HIDE DEF l
    <3> QED BY <1>b, <1>c, <2>4, <2>1, <2>2 DEF Ready, UsesMetric, Inserting, InInsertRows, InSelect
  <2>6. local' \in [Goroutines -> Local] /\ LocalsReady'
    BY <1>19, <1>a, <1>b, <2>3, <2>5, <2>1, <2>2, ContinueReady DEF TypeOK, SelectLoadMin
  <2> QED BY <1>19, <1>a, <1>b, <2>6, <2>1, <2>2 DEF SelectLoadMin, Typed, TypeOK, partition
<1>20. ASSUME NEW r \in Readers, SelectLoadMax(r)
      PROVE  Typed'
  <2>1. local[r].mt \in Objects /\ local[r].query \in Queries
    BY <1>20, <1>b, <1>c DEF SelectLoadMax, pc, Ready, UsesMetric, Inserting, InInsertRows, InSelect
  <2>2. Mt(r) \in Metric /\ Mt(r).maxTimestamp \in Nat
    BY <1>d, <2>1, MetricFields DEF Mt
  <2> DEFINE label == IF local[r].query.end <= local[r].lo THEN "selected" ELSE "slice"
             l == [local[r] EXCEPT !.hi = Mt(r).maxTimestamp, !.pc = label]
  <2>3. l \in Local
    <3>1. label \in Labels
      BY <1>e
    <3> HIDE DEF label
    <3>2. local[r] \in Local
      BY <1>b, <1>c
    <3> QED BY <2>2, <3>1, <3>2, Zenon DEF Local
  <2>4. /\ l.pc \in {"selected", "slice"}
        /\ l.mt = local[r].mt /\ l.query = local[r].query /\ l.rows = local[r].rows
        /\ l.outdated = local[r].outdated
    BY <1>b, <1>c DEF Local
  <2>5. Ready(l)
    <3> HIDE DEF l
    <3> QED BY <1>b, <1>c, <2>4, <2>1, <2>2 DEF Ready, UsesMetric, Inserting, InInsertRows, InSelect
  <2>6. local' \in [Goroutines -> Local] /\ LocalsReady'
    BY <1>20, <1>a, <1>b, <2>3, <2>5, <2>1, <2>2, ContinueReady DEF TypeOK, SelectLoadMax
  <2> QED BY <1>20, <1>a, <1>b, <2>6, <2>1, <2>2 DEF SelectLoadMax, Typed, TypeOK, partition
<1>21. ASSUME NEW r \in Readers, Slice(r)
      PROVE  Typed'
  <2>1. local[r].mt \in Objects /\ local[r].query \in Queries
    BY <1>21, <1>b, <1>c DEF Slice, pc, Ready, UsesMetric, Inserting, InInsertRows, InSelect
  <2>2. DOMAIN result' = Readers
    BY <1>21, <1>a DEF Slice, TypeOK
  <2> DEFINE l == [local[r] EXCEPT !.pc = "selected"]
  <2>3. l \in Local
    BY <1>b, <1>c, <1>e, LocalLabel, Zenon
  <2>4. /\ l.pc = "selected"
        /\ l.mt = local[r].mt /\ l.query = local[r].query /\ l.rows = local[r].rows
        /\ l.outdated = local[r].outdated
    BY <1>b, <1>c DEF Local
  <2>5. Ready(l)
    <3> HIDE DEF l
    <3> QED BY <1>b, <1>c, <2>4, <2>1, <2>2 DEF Ready, UsesMetric, Inserting, InInsertRows, InSelect
  <2>6. local' \in [Goroutines -> Local] /\ LocalsReady'
    BY <1>21, <1>a, <1>b, <2>3, <2>5, <2>1, <2>2, ContinueReady DEF TypeOK, Slice
  <2> QED BY <1>21, <1>a, <1>b, <2>6, <2>1, <2>2 DEF Slice, Typed, TypeOK, partition
<1>22. CASE UNCHANGED vars
  BY <1>22, <1>a DEF vars, partition, Typed, TypeOK, LocalsReady
<1> QED
  BY <1>1, <1>2, <1>3, <1>4, <1>5, <1>6, <1>7, <1>8, <1>9, <1>10, <1>11, <1>12, <1>13, <1>14, <1>15, <1>16, <1>17, <1>18, <1>19, <1>20, <1>21, <1>22
  DEF Next, WriterStep, InsertPoint, ReaderStep, Finished

-----------------------------------------------------------------------------
(* Who holds the mutex of a metric is half way through a critical section   *)
(* of insertPoint on that metric, and the other way round.                  *)
LockHeld ==
    /\ \A w \in Writers :
          pc(w) \in {"storeMax", "addSize"} => Mt(w).mu = w
    /\ \A o \in Objects : heap[o].mu # None =>
          /\ pc(heap[o].mu) \in {"storeMax", "addSize"}
          /\ local[heap[o].mu].mt = o

(* size trails the slice, by one while a point has been appended and size   *)
(* has not been raised.                                                     *)
SizeTrails ==
    \A o \in Objects :
        heap[o].size + (IF heap[o].mu = None THEN 0 ELSE 1) <= Len(heap[o].points)

(* The size a goroutine has loaded stays within the slice. *)
LocalSizeTrails ==
    \A g \in Goroutines :
        pc(g) \in {"lock", "selectMin", "selectMax", "slice"}
            => local[g].size <= Len(Mt(g).points)

Bounded == LockHeld /\ SizeTrails /\ LocalSizeTrails

(* A step that leaves every memoryMetric alone keeps Bounded if the         *)
(* goroutine's own new state respects it.                                   *)
LEMMA QuietBounded ==
    ASSUME Typed, Bounded, UNCHANGED heap,
           NEW g \in Goroutines, NEW l \in Local, Continue(g, l),
           pc(g) \notin {"storeMax", "addSize"}, l.pc \notin {"storeMax", "addSize"},
           l.pc \in {"lock", "selectMin", "selectMax", "slice"}
               => l.size <= Len(heap[l.mt].points)
    PROVE  Bounded'
<1>1. \A h \in Goroutines : local'[h] = IF h = g THEN l ELSE local[h]
  BY DEF Continue, Typed, TypeOK
<1>2. Writers \subseteq Goroutines
  BY DEF Goroutines
<1>3. \A o \in Objects : heap[o].mu # None => heap[o].mu \in Writers
  BY DEF Typed, TypeOK, Metric
<1>4. LockHeld'
  BY <1>1, <1>2, <1>3 DEF Bounded, LockHeld, pc, Mt
<1>5. SizeTrails'
  BY DEF Bounded, SizeTrails
<1>6. LocalSizeTrails'
  BY <1>1, SMTT(30) DEF Bounded, LocalSizeTrails, pc, Mt
<1> QED BY <1>4, <1>5, <1>6 DEF Bounded

(* Only these steps write to a memoryMetric. *)
HeapStep(w) ==
    \/ FirstInsertion(w) \/ StoreMaxTimestamp(w) \/ InsertInOrder(w)
    \/ AddSize(w) \/ InsertOutOfOrder(w)

(* The other steps of Next: where they take the goroutine. *)
LEMMA QuietStep ==
    ASSUME Typed, Typed', NEW g \in Goroutines,
           \/ g \in Writers /\ WriterStep(g) /\ ~HeapStep(g)
           \/ g \in Readers /\ ReaderStep(g)
    PROVE  /\ UNCHANGED heap
           /\ Continue(g, local'[g]) /\ local'[g] \in Local
           /\ pc(g) \notin {"storeMax", "addSize"}
           /\ local'[g].pc \notin {"storeMax", "addSize"}
           /\ local'[g].pc \in {"lock", "selectMin"} =>
                 /\ pc(g) \in {"loadSize", "selectSize"}
                 /\ local'[g].mt = local[g].mt /\ local'[g].size = Mt(g).size
           /\ local'[g].pc \in {"selectMax", "slice"} =>
                 /\ pc(g) \in {"selectMin", "selectMax"}
                 /\ local'[g].mt = local[g].mt /\ local'[g].size = local[g].size
<1>1. local \in [Goroutines -> Local] /\ local' \in [Goroutines -> Local] /\ local[g] \in Local
  BY DEF Typed, TypeOK
<1>2. CASE InsertRows(g)
  BY <1>2, <1>1 DEF InsertRows, Continue, pc, Local
<1>3. CASE AppendToWAL(g)
  BY <1>3, <1>1, SMTT(30) DEF AppendToWAL, Continue, pc, Local
<1>4. CASE SetMinOnce(g)
  BY <1>4, <1>1 DEF SetMinOnce, Continue, pc, Local
<1>5. CASE PutAside(g)
  BY <1>5, <1>1, Zenon DEF PutAside, Continue, pc, Local
<1>6. CASE LoadMetric(g)
  BY <1>6, <1>1 DEF LoadMetric, Continue, pc, Local
<1>7. CASE StoreMetric(g)
  BY <1>7, <1>1 DEF StoreMetric, Continue, pc, Local
<1>8. CASE LoadSize(g)
  BY <1>8, <1>1 DEF LoadSize, Continue, pc, Local
<1>9. CASE AddNumPoints(g)
  <2>1. /\ UNCHANGED heap /\ Continue(g, local'[g])
        /\ pc(g) \notin {"storeMax", "addSize"}
        /\ local'[g] = [local[g] EXCEPT !.pc = "loadMax"]
    BY <1>9, <1>1 DEF AddNumPoints, Continue, pc
  <2>2. local'[g].pc \in {"loadMax", "swapMax", "returned", "selected"}
    BY <1>1, <2>1 DEF Local
  <2> QED BY <1>1, <2>1, <2>2
<1>10. CASE LoadMax(g)
  <2>1. /\ UNCHANGED heap /\ Continue(g, local'[g])
        /\ pc(g) \notin {"storeMax", "addSize"}
        /\ local'[g] = [local[g] EXCEPT
                  !.pc = IF maxT < local[g].top THEN "swapMax" ELSE "returned"]
    BY <1>10, <1>1 DEF LoadMax, Continue, pc
  <2>2. local'[g].pc \in {"loadMax", "swapMax", "returned", "selected"}
    BY <1>1, <2>1 DEF Local
  <2> QED BY <1>1, <2>1, <2>2
<1>11. CASE SwapMax(g)
  BY <1>11, <1>1, Zenon DEF SwapMax, Continue, pc, Local
<1>12. CASE SelectDataPoints(g)
  BY <1>12, <1>1, SMTT(30) DEF SelectDataPoints, Continue, pc, Local
<1>13. CASE SelectStoreMetric(g)
  BY <1>13, <1>1 DEF SelectStoreMetric, Continue, pc, Local
<1>14. CASE SelectLoadSize(g)
  BY <1>14, <1>1 DEF SelectLoadSize, Continue, pc, Local
<1>15. CASE SelectLoadMin(g)
  BY <1>15, <1>1 DEF SelectLoadMin, Continue, pc, Local
<1>16. CASE SelectLoadMax(g)
  BY <1>16, <1>1 DEF SelectLoadMax, Continue, pc, Local
<1>17. CASE Slice(g)
  <2>1. /\ UNCHANGED heap /\ Continue(g, local'[g])
        /\ pc(g) \notin {"storeMax", "addSize"}
        /\ local'[g] = [local[g] EXCEPT !.pc = "selected"]
    BY <1>17, <1>1 DEF Slice, Continue, pc
  <2>2. local'[g].pc \in {"loadMax", "swapMax", "returned", "selected"}
    BY <1>1, <2>1, Zenon DEF Local
  <2> QED BY <1>1, <2>1, <2>2
<1> QED
  BY <1>2, <1>3, <1>4, <1>5, <1>6, <1>7, <1>8, <1>9, <1>10, <1>11, <1>12, <1>13, <1>14, <1>15, <1>16, <1>17, ZenonT(60)
  DEF WriterStep, InsertPoint, HeapStep, ReaderStep

(* What the steps that write to a memoryMetric do to it and to the goroutine. *)
LEMMA HeapStepFacts ==
    ASSUME Typed, NEW w \in Writers, HeapStep(w)
    PROVE  LET o == local[w].mt
           IN  /\ o \in Objects /\ w \in Goroutines /\ w # None
               /\ heap[o] \in Metric /\ local[w] \in Local
               /\ local[w].rows \in Batches /\ MoreRows(w)
               /\ \A p \in Objects : p # o => heap'[p] = heap[p]
               /\ \A g \in Goroutines : g # w => local'[g] = local[g]
               /\ FirstInsertion(w) =>
                     /\ heap'[o] = [heap[o] EXCEPT !.mu = w, !.points = Append(@, Point(w)),
                                                   !.minTimestamp = local[w].stamp]
                     /\ local'[w] = [local[w] EXCEPT !.pc = "storeMax"]
               /\ StoreMaxTimestamp(w) =>
                     /\ heap'[o] = [heap[o] EXCEPT !.maxTimestamp = local[w].stamp]
                     /\ local'[w] = [local[w] EXCEPT !.pc = "addSize"]
               /\ InsertInOrder(w) =>
                     /\ heap'[o] = [heap[o] EXCEPT !.mu = w, !.points = Append(@, Point(w)),
                                                   !.maxTimestamp = local[w].stamp]
                     /\ local'[w] = [local[w] EXCEPT !.pc = "addSize"]
               /\ AddSize(w) =>
                     /\ heap'[o] = [heap[o] EXCEPT !.size = @ + 1, !.mu = None]
                     /\ local'[w] = [local[w] EXCEPT !.pc = "row", !.i = local[w].i + 1]
               /\ InsertOutOfOrder(w) =>
                     /\ heap'[o] = [heap[o] EXCEPT !.outOfOrderPoints = Append(@, Point(w))]
                     /\ local'[w] = [local[w] EXCEPT !.pc = "row", !.i = local[w].i + 1]
<1>1. /\ local \in [Goroutines -> Local] /\ heap \in [Objects -> Metric]
      /\ w \in Goroutines /\ w # None /\ Ready(local[w])
  BY GoroutinesAssumption DEF Typed, TypeOK, LocalsReady, Goroutines
<1>2. /\ local[w].mt \in Objects /\ local[w].rows \in Batches /\ MoreRows(w)
      /\ heap[local[w].mt] \in Metric /\ local[w] \in Local
  <2>1. pc(w) \in {"lock", "storeMax", "addSize"}
    BY DEF HeapStep, FirstInsertion, StoreMaxTimestamp, InsertInOrder, AddSize,
           InsertOutOfOrder
  <2>2. /\ local[w].mt \in Objects /\ local[w].rows \in Batches /\ MoreRows(w)
    BY <1>1, <2>1 DEF pc, Ready, UsesMetric, Inserting, InInsertRows, MoreRows
  <2> QED BY <1>1, <2>2
<1>3. ASSUME NEW m, Update(local[w].mt, m)
      PROVE  /\ heap'[local[w].mt] = m
             /\ \A p \in Objects : p # local[w].mt => heap'[p] = heap[p]
  BY <1>1, <1>2, <1>3 DEF Update
<1>4. ASSUME NEW l, Continue(w, l)
      PROVE  local'[w] = l /\ \A g \in Goroutines : g # w => local'[g] = local[g]
  BY <1>1, <1>4 DEF Continue
<1>5. CASE FirstInsertion(w)
  BY <1>1, <1>2, <1>3, <1>4, <1>5, Zenon
  DEF FirstInsertion, StoreMaxTimestamp, InsertInOrder, AddSize, InsertOutOfOrder, Mt
<1>6. CASE StoreMaxTimestamp(w)
  BY <1>1, <1>2, <1>3, <1>4, <1>6, Zenon
  DEF FirstInsertion, StoreMaxTimestamp, InsertInOrder, AddSize, InsertOutOfOrder, Mt
<1>7. CASE InsertInOrder(w)
  BY <1>1, <1>2, <1>3, <1>4, <1>7, Zenon
  DEF FirstInsertion, StoreMaxTimestamp, InsertInOrder, AddSize, InsertOutOfOrder, Mt
<1>8. CASE AddSize(w)
  BY <1>1, <1>2, <1>3, <1>4, <1>8, Zenon
  DEF FirstInsertion, StoreMaxTimestamp, InsertInOrder, AddSize, InsertOutOfOrder, Mt
<1>9. CASE InsertOutOfOrder(w)
  BY <1>1, <1>2, <1>3, <1>4, <1>9, Zenon
  DEF FirstInsertion, StoreMaxTimestamp, InsertInOrder, AddSize, InsertOutOfOrder, Mt
<1> QED BY <1>5, <1>6, <1>7, <1>8, <1>9 DEF HeapStep

(* The chain of bounds below: a loaded size, the slice then, the slice now. *)
LEMMA LeqTransitive ==
    ASSUME NEW a \in Nat, NEW b \in Nat, NEW c \in Nat, a <= b, b <= c
    PROVE  a <= c
OBVIOUS

(* Bounded is inductive: one step per action that writes to a memoryMetric. *)
LEMMA BoundedInductive == Typed /\ Typed' /\ Bounded /\ [Next]_vars => Bounded'
<1> SUFFICES ASSUME Typed, Typed', Bounded, [Next]_vars
             PROVE  Bounded'
  OBVIOUS
<1>a. Writers \subseteq Goroutines /\ Readers \subseteq Goroutines /\ None \notin Goroutines
  BY GoroutinesAssumption DEF Goroutines
<1>c. /\ \A o \in Objects : heap[o] \in Metric
      /\ \A g \in Goroutines : local[g] \in Local /\ Ready(local[g])
  BY DEF Typed, TypeOK, LocalsReady
<1>d. \A o \in Objects : /\ heap[o].size \in Nat /\ heap[o].points \in Seq(Points)
                         /\ heap[o].mu # None => heap[o].mu \in Writers
  BY <1>c DEF Metric
<1>e. \A o \in Objects : Len(heap[o].points) \in Nat
  BY <1>d
<1>f. \A g \in Goroutines : /\ local[g].size \in Nat
                            /\ pc(g) \in UsesMetric => local[g].mt \in Objects
  BY <1>c DEF Ready, Local, pc
<1>g. ASSUME NEW w \in Goroutines,
             local'[w].pc \notin {"lock", "selectMin", "selectMax", "slice"},
             \A g \in Goroutines : g # w => local'[g] = local[g],
             \A o \in Objects : Len(heap[o].points) <= Len(heap'[o].points),
             \A o \in Objects : Len(heap'[o].points) \in Nat
      PROVE  LocalSizeTrails'
  <2> SUFFICES ASSUME NEW g \in Goroutines,
                      local'[g].pc \in {"lock", "selectMin", "selectMax", "slice"}
               PROVE  local'[g].size <= Len(heap'[local'[g].mt].points)
    BY DEF LocalSizeTrails, pc, Mt
  <2>1. local'[g] = local[g] /\ pc(g) \in {"lock", "selectMin", "selectMax", "slice"}
    BY <1>g DEF pc
  <2>2. local[g].size <= Len(heap[local[g].mt].points) /\ local[g].mt \in Objects
    BY <1>f, <2>1 DEF Bounded, LocalSizeTrails, Mt, UsesMetric
  <2>3. Len(heap[local[g].mt].points) <= Len(heap'[local[g].mt].points)
    BY <1>g, <2>2
  <2>4. /\ local[g].size \in Nat
        /\ Len(heap[local[g].mt].points) \in Nat /\ Len(heap'[local[g].mt].points) \in Nat
    BY <1>e, <1>f, <1>g, <2>2
  <2>5. local[g].size <= Len(heap'[local[g].mt].points)
    BY <2>2, <2>3, <2>4, LeqTransitive, Zenon
  <2> QED BY <2>1, <2>5
<1>h. \A o \in Objects : Len(heap'[o].points) \in Nat
  <2>1. \A o \in Objects : heap'[o] \in Metric
    BY DEF Typed, TypeOK
  <2>2. \A o \in Objects : heap'[o].points \in Seq(Points)
    BY <2>1 DEF Metric
  <2> QED BY <2>2
<1>b. ASSUME NEW w \in Writers, NEW o \in Objects
      PROVE  Len(Append(heap[o].points, Point(w))) = Len(heap[o].points) + 1
  <2>1. Point(w) \in Points
    BY <1>a, <1>c, Zenon DEF Point, Points, Local
  <2> QED BY <1>d, <2>1
<1>1. ASSUME NEW g \in Goroutines,
             \/ g \in Writers /\ WriterStep(g) /\ ~HeapStep(g)
             \/ g \in Readers /\ ReaderStep(g)
      PROVE  Bounded'
  <2>1. /\ UNCHANGED heap
        /\ Continue(g, local'[g]) /\ local'[g] \in Local
        /\ pc(g) \notin {"storeMax", "addSize"}
        /\ local'[g].pc \notin {"storeMax", "addSize"}
        /\ local'[g].pc \in {"lock", "selectMin"} =>
              /\ pc(g) \in {"loadSize", "selectSize"}
              /\ local'[g].mt = local[g].mt /\ local'[g].size = Mt(g).size
        /\ local'[g].pc \in {"selectMax", "slice"} =>
              /\ pc(g) \in {"selectMin", "selectMax"}
              /\ local'[g].mt = local[g].mt /\ local'[g].size = local[g].size
    BY <1>1, QuietStep, Zenon
  <2>2. local'[g].pc \in {"lock", "selectMin"}
           => local'[g].size <= Len(heap[local'[g].mt].points)
    BY <1>d, <1>e, <1>f, <2>1 DEF Bounded, SizeTrails, Mt, UsesMetric
  <2>3. local'[g].pc \in {"selectMax", "slice"}
           => local'[g].size <= Len(heap[local'[g].mt].points)
    BY <1>f, <2>1 DEF Bounded, LocalSizeTrails, Mt
  <2> QED BY <2>1, <2>2, <2>3, QuietBounded, Zenon
<1>2. ASSUME NEW w \in Writers, HeapStep(w)
      PROVE  Bounded'
  <2> DEFINE o == local[w].mt
  <2>a. /\ o \in Objects /\ w \in Goroutines /\ w # None
        /\ heap[o] \in Metric /\ local[w] \in Local
        /\ \A p \in Objects : p # o => heap'[p] = heap[p]
        /\ \A g \in Goroutines : g # w => local'[g] = local[g]
    BY <1>2, HeapStepFacts, Zenon
  <2>b. ASSUME heap'[o].size = heap[o].size,
               heap'[o].mu = w, local'[w].mt = o,
               local'[w].pc \in {"storeMax", "addSize"},
               pc(w) = "lock", heap[o].mu = None,
               Len(heap'[o].points) = Len(heap[o].points) + 1
        PROVE  Bounded'
    <3>0. local[w].mt = o
      OBVIOUS
    <3> HIDE DEF o
    <3>1. \A v \in Writers : pc(v) \in {"storeMax", "addSize"} => local[v].mt # o
      BY <1>a, <2>a, <2>b DEF Bounded, LockHeld, Mt
    <3>2. \A v \in Writers : (pc(v) \in {"storeMax", "addSize"} => Mt(v).mu = v)'
      BY <1>a, <1>f, <2>a, <2>b, <3>1 DEF Bounded, LockHeld, pc, Mt, UsesMetric
    <3>3. ASSUME NEW q \in Objects, heap'[q].mu # None
          PROVE  /\ pc(heap[q].mu)' \in {"storeMax", "addSize"}
                 /\ local'[heap'[q].mu].mt = q
      <4>1. CASE q = o
        BY <2>a, <2>b, <4>1 DEF pc
      <4>2. CASE q # o
        <5>1. /\ heap'[q] = heap[q] /\ heap[q].mu \in Writers
              /\ pc(heap[q].mu) \in {"storeMax", "addSize"} /\ local[heap[q].mu].mt = q
          BY <1>d, <2>a, <3>3, <4>2, Zenon DEF Bounded, LockHeld
        <5> QED BY <1>a, <2>a, <2>b, <5>1 DEF pc
      <4> QED BY <4>1, <4>2, Zenon
    <3>4. LockHeld'
      BY <3>2, <3>3 DEF LockHeld, pc
    <3>5. SizeTrails'
      <4>0. heap[o].size + 0 <= Len(heap[o].points)
        BY <2>a, <2>b DEF Bounded, SizeTrails
      <4>1. heap[o].size <= Len(heap[o].points)
        BY <1>d, <2>a, <4>0
      <4>2. heap'[o].size + 1 <= Len(heap'[o].points)
        BY <1>e, <2>a, <2>b, <4>1 DEF Metric
      <4>3. ASSUME NEW q \in Objects
            PROVE  heap'[q].size + (IF heap'[q].mu = None THEN 0 ELSE 1) <= Len(heap'[q].points)
        <5>1. CASE q = o
          BY <2>a, <2>b, <4>2, <5>1, Zenon
        <5>2. CASE q # o
          BY <2>a, <5>2 DEF Bounded, SizeTrails
        <5> QED BY <5>1, <5>2
      <4> QED BY <4>3 DEF SizeTrails
    <3>6. \A q \in Objects : Len(heap[q].points) <= Len(heap'[q].points)
      BY <1>e, <2>a, <2>b
    <3>7. LocalSizeTrails'
      BY <1>g, <1>h, <2>a, <2>b, <3>6, Zenon
    <3> QED BY <3>4, <3>5, <3>7 DEF Bounded
  <2>c. ASSUME heap'[o].mu = None, local'[w].pc = "row",
               heap'[o].points = heap[o].points,
               \/ pc(w) = "addSize" /\ heap'[o].size = heap[o].size + 1
               \/ pc(w) = "lock" /\ heap[o].mu = None /\ heap'[o].size = heap[o].size
        PROVE  Bounded'
    <3>1. LockHeld'
      BY <1>a, <1>d, <1>f, <2>a, <2>c, SMTT(30) DEF Bounded, LockHeld, pc, Mt, UsesMetric
    <3>2. SizeTrails'
      <4>1. pc(w) = "addSize" => heap[o].mu = w
        BY Zenon DEF Bounded, LockHeld, Mt
      <4>2. heap[o].size + (IF heap[o].mu = None THEN 0 ELSE 1) <= Len(heap[o].points)
        BY <2>a, Zenon DEF Bounded, SizeTrails
      <4>3. heap'[o].size <= Len(heap'[o].points)
        BY <1>d, <1>e, <2>a, <2>c, <4>1, <4>2
      <4>4. ASSUME NEW q \in Objects
            PROVE  heap'[q].size + (IF heap'[q].mu = None THEN 0 ELSE 1) <= Len(heap'[q].points)
        <5>1. CASE q = o
          <6>1. heap'[o].size + 0 = heap'[o].size
            BY <1>d, <2>a, <2>c
          <6> QED BY <2>c, <4>3, <5>1, <6>1, Zenon
        <5>2. CASE q # o
          BY <2>a, <5>2, Zenon DEF Bounded, SizeTrails
        <5> QED BY <5>1, <5>2, Zenon
      <4> QED BY <4>4, Zenon DEF SizeTrails
    <3>3. LocalSizeTrails'
      <4>1. \A q \in Objects : Len(heap[q].points) <= Len(heap'[q].points)
        BY <1>e, <2>a, <2>c, SMTT(30)
      <4> QED BY <1>g, <1>h, <2>a, <2>c, <4>1, Zenon
    <3> QED BY <3>1, <3>2, <3>3 DEF Bounded
  <2>1. CASE FirstInsertion(w)
    <3>1. /\ heap'[o] = [heap[o] EXCEPT !.mu = w, !.points = Append(@, Point(w)),
                                        !.minTimestamp = local[w].stamp]
          /\ local'[w] = [local[w] EXCEPT !.pc = "storeMax"]
      BY <1>2, <2>1, HeapStepFacts, Zenon
    <3>2. /\ heap'[o].size = heap[o].size /\ heap'[o].mu = w
          /\ heap'[o].points = Append(heap[o].points, Point(w))
      BY <2>a, <3>1, Zenon DEF Metric
    <3>3. local'[w].mt = o /\ local'[w].pc = "storeMax"
      BY <2>a, <3>1 DEF Local
    <3>4. pc(w) = "lock" /\ heap[o].mu = None
      BY <2>1 DEF FirstInsertion, Mt
    <3> QED BY <1>b, <2>a, <2>b, <3>2, <3>3, <3>4
  <2>2. CASE StoreMaxTimestamp(w)
    <3>1. /\ heap'[o] = [heap[o] EXCEPT !.maxTimestamp = local[w].stamp]
          /\ local'[w] = [local[w] EXCEPT !.pc = "addSize"]
      BY <1>2, <2>2, HeapStepFacts, Zenon
    <3>2. /\ heap'[o].size = heap[o].size /\ heap'[o].mu = heap[o].mu
          /\ heap'[o].points = heap[o].points
      BY <2>a, <3>1 DEF Metric
    <3>3. local'[w].mt = o /\ local'[w].pc = "addSize"
      BY <2>a, <3>1 DEF Local
    <3>4. pc(w) = "storeMax"
      BY <2>2, Zenon DEF StoreMaxTimestamp
    <3>5. LockHeld'
      BY <1>a, <1>d, <1>f, <2>a, <3>2, <3>3, <3>4, SMTT(30)
      DEF Bounded, LockHeld, pc, Mt, UsesMetric
    <3>6. SizeTrails'
      BY <2>a, <3>2 DEF Bounded, SizeTrails
    <3>7. LocalSizeTrails'
      <4>1. \A q \in Objects : Len(heap[q].points) <= Len(heap'[q].points)
        BY <1>e, <2>a, <3>2, SMTT(30)
      <4> QED BY <1>g, <1>h, <2>a, <3>3, <4>1, Zenon
    <3> QED BY <3>5, <3>6, <3>7 DEF Bounded
  <2>3. CASE InsertInOrder(w)
    <3>1. /\ heap'[o] = [heap[o] EXCEPT !.mu = w, !.points = Append(@, Point(w)),
                                        !.maxTimestamp = local[w].stamp]
          /\ local'[w] = [local[w] EXCEPT !.pc = "addSize"]
      BY <1>2, <2>3, HeapStepFacts, Zenon
    <3>2. /\ heap'[o].size = heap[o].size /\ heap'[o].mu = w
          /\ heap'[o].points = Append(heap[o].points, Point(w))
      BY <2>a, <3>1, Zenon DEF Metric
    <3>3. local'[w].mt = o /\ local'[w].pc = "addSize"
      BY <2>a, <3>1 DEF Local
    <3>4. pc(w) = "lock" /\ heap[o].mu = None
      BY <2>3 DEF InsertInOrder, Mt
    <3> QED BY <1>b, <2>a, <2>b, <3>2, <3>3, <3>4
  <2>4. CASE AddSize(w)
    <3>1. /\ heap'[o] = [heap[o] EXCEPT !.size = @ + 1, !.mu = None]
          /\ local'[w] = [local[w] EXCEPT !.pc = "row", !.i = local[w].i + 1]
      BY <1>2, <2>4, HeapStepFacts, Zenon
    <3>2. /\ heap'[o].size = heap[o].size + 1 /\ heap'[o].mu = None
          /\ heap'[o].points = heap[o].points
      BY <2>a, <3>1 DEF Metric
    <3>3. local'[w].pc = "row"
      BY <2>a, <3>1 DEF Local
    <3>4. pc(w) = "addSize"
      BY <2>4, Zenon DEF AddSize
    <3> QED BY <2>a, <2>c, <3>2, <3>3, <3>4
  <2>5. CASE InsertOutOfOrder(w)
    <3>1. /\ heap'[o] = [heap[o] EXCEPT !.outOfOrderPoints = Append(@, Point(w))]
          /\ local'[w] = [local[w] EXCEPT !.pc = "row", !.i = local[w].i + 1]
      BY <1>2, <2>5, HeapStepFacts, Zenon
    <3>2. /\ heap'[o].size = heap[o].size /\ heap'[o].mu = heap[o].mu
          /\ heap'[o].points = heap[o].points
      BY <2>a, <3>1, Zenon DEF Metric
    <3>3. local'[w].pc = "row"
      BY <2>a, <3>1, Zenon DEF Local
    <3>4. pc(w) = "lock" /\ heap[o].mu = None
      BY <2>5, Zenon DEF InsertOutOfOrder, Mt
    <3> QED BY <2>a, <2>c, <3>2, <3>3, <3>4
  <2> QED BY <1>2, <2>1, <2>2, <2>3, <2>4, <2>5 DEF HeapStep
<1>3. CASE UNCHANGED vars
  BY <1>3 DEF vars, partition, Bounded, LockHeld, SizeTrails, LocalSizeTrails, pc, Mt
<1>4. CASE Finished
  BY <1>3, <1>4 DEF Finished
<1> QED BY <1>a, <1>1, <1>2, <1>3, <1>4 DEF Next

-----------------------------------------------------------------------------
(* newMemoryPartition has no metrics, and no call has begun.                *)
LEMMA TypedInit == Init => Typed
<1> SUFFICES ASSUME Init PROVE Typed
  BY Zenon
<1>1. NewMetric \in Metric
  <2>1. <<>> \in Seq(Points)
    OBVIOUS
  <2> QED BY <2>1 DEF NewMetric, Metric
<1>2. "idle" \in Labels
  BY Zenon DEF Labels
<1>3. NewLocal \in Local
  BY <1>2 DEF NewLocal, Local
<1>4. Ready(NewLocal)
  BY DEF NewLocal, Ready, UsesMetric, InInsertRows, Inserting, InSelect
<1>5. TypeOK
  BY <1>1, <1>3, Zenon DEF Init, TypeOK
<1>6. LocalsReady
  BY <1>4 DEF Init, LocalsReady
<1> QED BY <1>5, <1>6 DEF Typed

(* So it is typed in every state.                                           *)
LEMMA TypedAlways == Spec => []Typed
BY TypedInit, TypedInductive, PTL DEF Spec

(* Every reachable state is well typed, for any number of goroutines. *)
THEOREM TypeCorrect == Spec => []TypeOK
<1>1. Typed => TypeOK
  BY DEF Typed
<1> QED BY <1>1, TypedAlways, PTL

(* There is no metric that a size could exceed.                             *)
LEMMA BoundedInit == Init => Bounded
<1> SUFFICES ASSUME Init PROVE Bounded
  OBVIOUS
<1>1. \A g \in Goroutines : pc(g) = "idle"
  BY DEF Init, NewLocal, pc
<1>2. \A o \in Objects : heap[o].mu = None /\ heap[o].size = 0 /\ heap[o].points = <<>>
  BY DEF Init, NewMetric
<1>3. LockHeld
  BY <1>1, <1>2 DEF LockHeld, Goroutines
<1>4. SizeTrails
  BY <1>2 DEF SizeTrails
<1>5. LocalSizeTrails
  BY <1>1 DEF LocalSizeTrails
<1> QED BY <1>3, <1>4, <1>5 DEF Bounded

(* So no size runs ahead of its slice, in any state.                        *)
LEMMA BoundedAlways == Spec => []Bounded
BY BoundedInit, BoundedInductive, TypedAlways, PTL DEF Spec

(* No insertRows or selectDataPoints call ever indexes points past its end, *)
(* although size is loaded before the metric's lock is taken.               *)
THEOREM IndexAlwaysInRange == Spec => []IndexInRange
<1>1. Bounded => IndexInRange
  BY Zenon DEF Bounded, LocalSizeTrails, IndexInRange, Mt
<1> QED BY <1>1, BoundedAlways, PTL

-----------------------------------------------------------------------------
(* The log only grows, and minT keeps the value once.Do gave it. *)
Monotone == logged \subseteq logged' /\ (once => once' /\ minT' = minT)

(* No step changes a minimum that is set or takes a row out of the log.     *)
LEMMA StepMonotone == Typed /\ [Next]_vars => Monotone
<1> SUFFICES ASSUME Typed, [Next]_vars PROVE Monotone
  OBVIOUS
<1> USE DEF Monotone
<1>1. ASSUME NEW w \in Writers, InsertRows(w) PROVE Monotone
  BY <1>1 DEF InsertRows, partition
<1>2. ASSUME NEW w \in Writers, AppendToWAL(w) PROVE Monotone
  BY <1>2 DEF AppendToWAL, partition
<1>3. ASSUME NEW w \in Writers, SetMinOnce(w) PROVE Monotone
  BY <1>3 DEF SetMinOnce, partition
<1>4. ASSUME NEW w \in Writers, PutAside(w) PROVE Monotone
  BY <1>4 DEF PutAside, partition
<1>5. ASSUME NEW w \in Writers, LoadMetric(w) PROVE Monotone
  BY <1>5 DEF LoadMetric, partition
<1>6. ASSUME NEW w \in Writers, StoreMetric(w) PROVE Monotone
  BY <1>6 DEF StoreMetric, partition
<1>7. ASSUME NEW w \in Writers, LoadSize(w) PROVE Monotone
  BY <1>7 DEF LoadSize, partition
<1>8. ASSUME NEW w \in Writers, FirstInsertion(w) PROVE Monotone
  BY <1>8 DEF FirstInsertion, partition
<1>9. ASSUME NEW w \in Writers, StoreMaxTimestamp(w) PROVE Monotone
  BY <1>9 DEF StoreMaxTimestamp, partition
<1>10. ASSUME NEW w \in Writers, InsertInOrder(w) PROVE Monotone
  BY <1>10 DEF InsertInOrder, partition
<1>11. ASSUME NEW w \in Writers, AddSize(w) PROVE Monotone
  BY <1>11 DEF AddSize, partition
<1>12. ASSUME NEW w \in Writers, InsertOutOfOrder(w) PROVE Monotone
  BY <1>12 DEF InsertOutOfOrder, partition
<1>13. ASSUME NEW w \in Writers, AddNumPoints(w) PROVE Monotone
  BY <1>13 DEF AddNumPoints, partition
<1>14. ASSUME NEW w \in Writers, LoadMax(w) PROVE Monotone
  BY <1>14 DEF LoadMax, partition
<1>15. ASSUME NEW w \in Writers, SwapMax(w) PROVE Monotone
  BY <1>15 DEF SwapMax, partition
<1>16. ASSUME NEW r \in Readers, SelectDataPoints(r) PROVE Monotone
  BY <1>16 DEF SelectDataPoints, partition
<1>17. ASSUME NEW r \in Readers, SelectStoreMetric(r) PROVE Monotone
  BY <1>17 DEF SelectStoreMetric, partition
<1>18. ASSUME NEW r \in Readers, SelectLoadSize(r) PROVE Monotone
  BY <1>18 DEF SelectLoadSize, partition
<1>19. ASSUME NEW r \in Readers, SelectLoadMin(r) PROVE Monotone
  BY <1>19 DEF SelectLoadMin, partition
<1>20. ASSUME NEW r \in Readers, SelectLoadMax(r) PROVE Monotone
  BY <1>20 DEF SelectLoadMax, partition
<1>21. ASSUME NEW r \in Readers, Slice(r) PROVE Monotone
  BY <1>21 DEF Slice, partition
<1>22. CASE UNCHANGED vars
  BY <1>22 DEF vars, partition
<1> QED
  BY <1>1, <1>2, <1>3, <1>4, <1>5, <1>6, <1>7, <1>8, <1>9, <1>10, <1>11, <1>12, <1>13, <1>14, <1>15, <1>16, <1>17, <1>18, <1>19, <1>20, <1>21, <1>22, Zenon
  DEF Next, WriterStep, InsertPoint, ReaderStep, Finished

(* "minT is immutable" once the first batch has set it. *)
THEOREM MinNeverChanges == Spec => MinImmutable
<1>1. Typed /\ [Next]_vars => [once => minT' = minT]_vars
  BY StepMonotone DEF Monotone
<1> QED BY <1>1, TypedAlways, PTL DEF Spec, MinImmutable

Logging == {"once", "row", "loadMax", "swapMax", "returned"} \cup Inserting

(* What insertRows has established on its way to a store: its rows are in   *)
(* the log, minT is set, and the stamp of the row at hand is not before it. *)
Accepting(w) ==
    /\ pc(w) \in Logging => RowsOf(w) \subseteq logged
    /\ pc(w) \in {"row"} \cup Inserting => once
    /\ pc(w) \in Inserting => minT <= local[w].stamp

Kept == \A o \in Objects : \A p \in Stored(o) :
            once /\ minT <= p.ts /\ p.row \in logged

Accepted == (\A w \in Writers : Accepting(w)) /\ Kept

(* Writers that do not step keep what they have established. *)
LEMMA OthersAccept ==
    ASSUME Typed, Monotone, NEW v \in Writers, Accepting(v), local'[v] = local[v]
    PROVE  Accepting(v)'
BY DEF Monotone, Accepting, pc, RowsOf

(* What a step of a writer leaves in its local variables. *)
LEMMA WriterAccepts ==
    ASSUME Typed, Typed', Monotone, NEW w \in Writers, Accepting(w), WriterStep(w)
    PROVE  Accepting(w)'
<1>1. /\ local \in [Goroutines -> Local] /\ w \in Goroutines
      /\ local[w] \in Local /\ minT \in Nat /\ once \in BOOLEAN /\ once' \in BOOLEAN
  BY DEF Typed, TypeOK, Goroutines
<1> USE DEF Logging, Inserting
<1>2. CASE InsertRows(w)
  <2>1. local'[w].pc = "append"
    BY <1>2, <1>1 DEF InsertRows, Continue, Local
  <2> QED BY <2>1 DEF Accepting, pc
<1>3. CASE AppendToWAL(w)
  <2>1. /\ local'[w].rows = local[w].rows
        /\ \/ local'[w].pc = "failed"
           \/ local'[w].pc = "once" /\ RowsOf(w) \subseteq logged'
    BY <1>3, <1>1 DEF AppendToWAL, Continue, Local
  <2> QED BY <2>1 DEF Accepting, pc, RowsOf
<1>4. CASE SetMinOnce(w)
  <2>1. local'[w].rows = local[w].rows /\ local'[w].pc = "row" /\ once'
    BY <1>4, <1>1 DEF SetMinOnce, Continue, Local
  <2>2. pc(w) = "once"
    BY <1>4 DEF SetMinOnce
  <2> QED BY <2>1, <2>2 DEF Accepting, Monotone, pc, RowsOf
<1>5. CASE PutAside(w)
  <2>1. local'[w].rows = local[w].rows /\ local'[w].pc = local[w].pc
    BY <1>5, <1>1 DEF PutAside, Continue, Local
  <2>2. pc(w) = "row"
    BY <1>5, Zenon DEF PutAside
  <2> QED BY <2>1, <2>2 DEF Accepting, Monotone, pc, RowsOf
<1>6. CASE LoadMetric(w)
  <2>1. pc(w) = "row" /\ Row(w).ts >= minT /\ minT' = minT
    BY <1>6 DEF LoadMetric, partition
  <2>2. local[w].rows \in Batches /\ local[w].i \in 1..Len(local[w].rows)
    BY <1>6, <1>1, <2>1, BatchFacts, LocalFields
    DEF LoadMetric, MoreRows, Typed, LocalsReady, Ready, InInsertRows, pc
  <2>3. Row(w).ts \in Nat
    BY <2>2, BatchFacts DEF Row
  <2>4. \E now \in Clock :
           /\ local'[w].rows = local[w].rows /\ local'[w].stamp = Stamped(w, now)
           /\ local'[w].pc \in {"storeMetric", "loadSize"}
    BY <1>6, <1>1 DEF LoadMetric, Continue, Local
  <2>5. minT <= local'[w].stamp
    BY <1>1, <2>1, <2>3, <2>4, ClockAssumption DEF Stamped
  <2> QED BY <2>1, <2>4, <2>5 DEF Accepting, Monotone, pc, RowsOf
<1>7. CASE StoreMetric(w)
  <2>1. local'[w].rows = local[w].rows /\ local'[w].pc = "loadSize" /\ local'[w].stamp = local[w].stamp
    BY <1>7, <1>1 DEF StoreMetric, Continue, Local
  <2>2. pc(w) = "storeMetric"
    BY <1>7 DEF StoreMetric
  <2> QED BY <2>1, <2>2 DEF Accepting, Monotone, pc, RowsOf
<1>8. CASE LoadSize(w)
  <2>1. local'[w].rows = local[w].rows /\ local'[w].pc = "lock" /\ local'[w].stamp = local[w].stamp
    BY <1>8, <1>1 DEF LoadSize, Continue, Local
  <2>2. pc(w) = "loadSize"
    BY <1>8 DEF LoadSize
  <2> QED BY <2>1, <2>2 DEF Accepting, Monotone, pc, RowsOf
<1>9. CASE FirstInsertion(w)
  <2>1. local'[w].rows = local[w].rows /\ local'[w].pc = "storeMax" /\ local'[w].stamp = local[w].stamp
    BY <1>9, <1>1 DEF FirstInsertion, Continue, Local
  <2>2. pc(w) = "lock"
    BY <1>9 DEF FirstInsertion
  <2> QED BY <2>1, <2>2 DEF Accepting, Monotone, pc, RowsOf
<1>10. CASE StoreMaxTimestamp(w)
  <2>1. local'[w].rows = local[w].rows /\ local'[w].pc = "addSize" /\ local'[w].stamp = local[w].stamp
    BY <1>10, <1>1 DEF StoreMaxTimestamp, Continue, Local
  <2>2. pc(w) = "storeMax"
    BY <1>10 DEF StoreMaxTimestamp
  <2> QED BY <2>1, <2>2 DEF Accepting, Monotone, pc, RowsOf
<1>11. CASE InsertInOrder(w)
  <2>1. local'[w].rows = local[w].rows /\ local'[w].pc = "addSize" /\ local'[w].stamp = local[w].stamp
    BY <1>11, <1>1 DEF InsertInOrder, Continue, Local
  <2>2. pc(w) = "lock"
    BY <1>11 DEF InsertInOrder
  <2> QED BY <2>1, <2>2 DEF Accepting, Monotone, pc, RowsOf
<1>12. CASE AddSize(w)
  <2>1. local'[w].rows = local[w].rows /\ local'[w].pc = "row"
    BY <1>12, <1>1 DEF AddSize, Continue, Local
  <2>2. pc(w) = "addSize"
    BY <1>12 DEF AddSize
  <2> QED BY <2>1, <2>2 DEF Accepting, Monotone, pc, RowsOf
<1>13. CASE InsertOutOfOrder(w)
  <2>1. local'[w].rows = local[w].rows /\ local'[w].pc = "row"
    BY <1>13, <1>1 DEF InsertOutOfOrder, Continue, Local
  <2>2. pc(w) = "lock"
    BY <1>13 DEF InsertOutOfOrder
  <2> QED BY <2>1, <2>2 DEF Accepting, Monotone, pc, RowsOf
<1>14. CASE AddNumPoints(w)
  <2>1. local'[w].rows = local[w].rows /\ local'[w].pc = "loadMax"
    BY <1>14, <1>1 DEF AddNumPoints, Continue, Local
  <2>2. pc(w) = "row"
    BY <1>14 DEF AddNumPoints
  <2> QED BY <2>1, <2>2 DEF Accepting, Monotone, pc, RowsOf
<1>15. CASE LoadMax(w)
  <2>1. local'[w].rows = local[w].rows /\ local'[w].pc \in {"swapMax", "returned"}
    BY <1>15, <1>1 DEF LoadMax, Continue, Local
  <2>2. pc(w) = "loadMax"
    BY <1>15 DEF LoadMax
  <2> QED BY <2>1, <2>2 DEF Accepting, Monotone, pc, RowsOf
<1>16. CASE SwapMax(w)
  <2>1. local'[w].rows = local[w].rows /\ local'[w].pc = "returned"
    BY <1>16, <1>1 DEF SwapMax, Continue, Local
  <2>2. pc(w) = "swapMax"
    BY <1>16, Zenon DEF SwapMax
  <2> QED BY <2>1, <2>2 DEF Accepting, Monotone, pc, RowsOf
<1> QED
  BY <1>2, <1>3, <1>4, <1>5, <1>6, <1>7, <1>8, <1>9, <1>10, <1>11, <1>12, <1>13, <1>14, <1>15, <1>16, Zenon DEF WriterStep, InsertPoint

(* A step adds at most the point of the writer that holds the lock. *)
LEMMA StoredGrows ==
    ASSUME Typed, NEW w \in Writers, HeapStep(w), NEW o \in Objects
    PROVE  /\ \A p \in Stored(o)' : p \in Stored(o) \/ p = Point(w)
           /\ w \in Goroutines /\ \A g \in Goroutines : g # w => local'[g] = local[g]
<1>0. local[w].mt \in Objects
  BY HeapStepFacts, Zenon
<1>x. PICK x \in Objects : x = local[w].mt
  BY <1>0
<1>1. /\ x \in Objects /\ w \in Goroutines /\ heap[x] \in Metric
      /\ \A p \in Objects : p # x => heap'[p] = heap[p]
      /\ \A g \in Goroutines : g # w => local'[g] = local[g]
  BY <1>x, HeapStepFacts, Zenon
<1>2. heap[x].points \in Seq(Points) /\ heap[x].outOfOrderPoints \in Seq(Points)
  BY <1>1, Zenon DEF Metric
<1>3. \/ heap'[x].points = heap[x].points
      \/ heap'[x].points = Append(heap[x].points, Point(w))
  <2>1. CASE FirstInsertion(w)
    BY <2>1, <1>1, <1>x, Zenon DEF FirstInsertion, Update, Mt, Typed, TypeOK, Metric
  <2>2. CASE StoreMaxTimestamp(w)
    BY <2>2, <1>1, <1>x, Zenon DEF StoreMaxTimestamp, Update, Mt, Typed, TypeOK, Metric
  <2>3. CASE InsertInOrder(w)
    BY <2>3, <1>1, <1>x, Zenon DEF InsertInOrder, Update, Mt, Typed, TypeOK, Metric
  <2>4. CASE AddSize(w)
    BY <2>4, <1>1, <1>x, Zenon DEF AddSize, Update, Mt, Typed, TypeOK, Metric
  <2>5. CASE InsertOutOfOrder(w)
    BY <2>5, <1>1, <1>x, Zenon DEF InsertOutOfOrder, Update, Mt, Typed, TypeOK, Metric
  <2> QED BY <2>1, <2>2, <2>3, <2>4, <2>5, Zenon DEF HeapStep
<1>4. \/ heap'[x].outOfOrderPoints = heap[x].outOfOrderPoints
      \/ heap'[x].outOfOrderPoints = Append(heap[x].outOfOrderPoints, Point(w))
  <2>1. CASE FirstInsertion(w)
    BY <2>1, <1>1, <1>x DEF FirstInsertion, Update, Mt, Typed, TypeOK, Metric
  <2>2. CASE StoreMaxTimestamp(w)
    BY <2>2, <1>1, <1>x DEF StoreMaxTimestamp, Update, Mt, Typed, TypeOK, Metric
  <2>3. CASE InsertInOrder(w)
    BY <2>3, <1>1, <1>x DEF InsertInOrder, Update, Mt, Typed, TypeOK, Metric
  <2>4. CASE AddSize(w)
    BY <2>4, <1>1, <1>x, Zenon DEF AddSize, Update, Mt, Typed, TypeOK, Metric
  <2>5. CASE InsertOutOfOrder(w)
    BY <2>5, <1>1, <1>x, Zenon DEF InsertOutOfOrder, Update, Mt, Typed, TypeOK, Metric
  <2> QED BY <2>1, <2>2, <2>3, <2>4, <2>5 DEF HeapStep
<1>5. \A s \in Seq(Points) : \A k \in DOMAIN Append(s, Point(w)) :
         \/ Append(s, Point(w))[k] = Point(w)
         \/ \E j \in DOMAIN s : Append(s, Point(w))[k] = s[j]
  OBVIOUS
<1>6. CASE o # x
  BY <1>1, <1>6 DEF Stored
<1>7. CASE o = x
  <2>1. \A k \in DOMAIN heap'[x].points :
           \/ heap'[x].points[k] = Point(w)
           \/ \E j \in DOMAIN heap[x].points : heap'[x].points[k] = heap[x].points[j]
    <3>1. CASE heap'[x].points = heap[x].points
      BY <3>1, Zenon
    <3>2. CASE heap'[x].points = Append(heap[x].points, Point(w))
      <4>1. PICK s \in Seq(Points) : s = heap[x].points
        BY <1>2
      <4>2. \A k \in DOMAIN Append(s, Point(w)) :
               \/ Append(s, Point(w))[k] = Point(w)
               \/ \E j \in DOMAIN s : Append(s, Point(w))[k] = s[j]
        BY <1>5, Zenon
      <4>3. heap'[x].points = Append(s, Point(w))
        BY <3>2, <4>1, Zenon
      <4> QED BY <4>1, <4>2, <4>3
    <3> QED BY <1>3, <3>1, <3>2
  <2>2. \A k \in DOMAIN heap'[x].outOfOrderPoints :
           \/ heap'[x].outOfOrderPoints[k] = Point(w)
           \/ \E j \in DOMAIN heap[x].outOfOrderPoints :
                 heap'[x].outOfOrderPoints[k] = heap[x].outOfOrderPoints[j]
    <3>1. CASE heap'[x].outOfOrderPoints = heap[x].outOfOrderPoints
      BY <3>1, Zenon
    <3>2. CASE heap'[x].outOfOrderPoints = Append(heap[x].outOfOrderPoints, Point(w))
      <4>1. PICK s \in Seq(Points) : s = heap[x].outOfOrderPoints
        BY <1>2
      <4>2. \A k \in DOMAIN Append(s, Point(w)) :
               \/ Append(s, Point(w))[k] = Point(w)
               \/ \E j \in DOMAIN s : Append(s, Point(w))[k] = s[j]
        BY <1>5, Zenon
      <4>3. heap'[x].outOfOrderPoints = Append(s, Point(w))
        BY <3>2, <4>1, Zenon
      <4> QED BY <4>1, <4>2, <4>3
    <3> QED BY <1>4, <3>1, <3>2
  <2>3. ASSUME NEW p \in Stored(x)' PROVE p \in Stored(x) \/ p = Point(w)
    BY <2>1, <2>2, <2>3 DEF Stored
  <2> QED BY <1>1, <1>7, <2>3, Zenon
<1> QED BY <1>1, <1>6, <1>7

(* A writer keeps what it has established, whatever the others do.          *)
LEMMA AcceptedInductive == Typed /\ Typed' /\ Accepted /\ [Next]_vars => Accepted'
<1> SUFFICES ASSUME Typed, Typed', Accepted, [Next]_vars PROVE Accepted'
  OBVIOUS
<1>1. Monotone
  BY StepMonotone, Zenon
<1>2. ASSUME UNCHANGED heap PROVE Kept'
  BY <1>1, <1>2 DEF Accepted, Kept, Stored, Monotone
<1>3. ASSUME NEW w \in Writers, WriterStep(w) PROVE Accepted'
  <2>1. w \in Goroutines /\ \A v \in Writers : v # w => local'[v] = local[v]
    <3>1. \A v \in Writers : v \in Goroutines
      BY DEF Goroutines
    <3>2. CASE HeapStep(w)
      BY <3>1, <3>2, StoredGrows, HeapStepFacts, Zenon
    <3>3. CASE ~HeapStep(w)
      BY <3>1, <3>3, <1>3, QuietStep DEF Continue, Typed, TypeOK
    <3> QED BY <3>2, <3>3
  <2>2. \A v \in Writers : Accepting(v)'
    <3>1. Accepting(w)'
      BY <1>1, <1>3, WriterAccepts DEF Accepted
    <3>2. \A v \in Writers : v # w => Accepting(v)'
      BY <1>1, <2>1, OthersAccept DEF Accepted
    <3> QED BY <3>1, <3>2
  <2>3. Kept'
    <3>1. CASE ~HeapStep(w)
      BY <3>1, <1>2, <1>3, <2>1, QuietStep, Zenon
    <3>2. CASE HeapStep(w)
      <4>1. pc(w) \in Inserting
        BY <3>2 DEF HeapStep, FirstInsertion, StoreMaxTimestamp, InsertInOrder, AddSize,
                    InsertOutOfOrder, Inserting
      <4>2. local[w].rows \in Batches /\ MoreRows(w) /\ local[w] \in Local
        BY <3>2, HeapStepFacts, Zenon
      <4>3. Point(w).row \in RowsOf(w)
        BY <4>2, BatchFacts, LocalFields DEF Point, RowsOf, MoreRows
      <4>4. once /\ minT <= Point(w).ts /\ Point(w).row \in logged
        BY <4>1, <4>3 DEF Accepted, Accepting, Point, Logging
      <4> QED BY <1>1, <3>2, <4>4, StoredGrows, Zenon DEF Kept, Monotone, Accepted
    <3> QED BY <3>1, <3>2, Zenon
  <2> QED BY <2>2, <2>3 DEF Accepted
<1>4. ASSUME NEW r \in Readers, ReaderStep(r) PROVE Accepted'
  <2>1. UNCHANGED heap /\ Continue(r, local'[r])
    BY <1>4, QuietStep DEF Goroutines
  <2>2. \A v \in Writers : v # r
    BY GoroutinesAssumption
  <2>3. \A v \in Writers : local'[v] = local[v]
    BY <2>1, <2>2 DEF Continue, Typed, TypeOK, Goroutines
  <2> QED BY <1>1, <1>2, <2>1, <2>3, OthersAccept, Zenon DEF Accepted
<1>5. ASSUME UNCHANGED vars PROVE Accepted'
  BY <1>1, <1>2, <1>5, OthersAccept DEF Accepted, vars
<1> QED BY <1>3, <1>4, <1>5 DEF Next, Finished

(* No writer has got to a row.                                              *)
LEMMA AcceptedInit == Init => Accepted
<1> SUFFICES ASSUME Init PROVE Accepted
  OBVIOUS
<1>1. \A w \in Writers : pc(w) = "idle"
  BY DEF Init, NewLocal, pc, Goroutines
<1>2. \A o \in Objects : Stored(o) = {}
  BY DEF Init, NewMetric, Stored
<1> QED BY <1>1, <1>2, Zenon DEF Accepted, Accepting, Kept, Logging, Inserting

(* So a row is only stored after its checks, in every state.                *)
LEMMA AcceptedAlways == Spec => []Accepted
BY AcceptedInit, AcceptedInductive, TypedAlways, PTL DEF Spec

(* Whichever batch wins once.Do, no stored point is older than minT. *)
THEOREM MinAlwaysLowerBound == Spec => []MinLowerBound
<1>1. Accepted => MinLowerBound
  BY DEF Accepted, Kept, MinLowerBound
<1> QED BY <1>1, AcceptedAlways, PTL

(* No point is in memory whose row is not in the write-ahead log. *)
THEOREM AlwaysWriteAhead == Spec => []WriteAhead
<1>1. Accepted => WriteAhead
  BY DEF Accepted, Kept, WriteAhead
<1> QED BY <1>1, AcceptedAlways, PTL

-----------------------------------------------------------------------------
(* The order of the points *)

(* At most one insertRows call is in flight, *)
Alone == \A v, w \in InFlight : v = w

(* size is exact outside the critical sections of insertPoint, *)
SizeExact ==
    \A o \in Objects :
        Len(heap[o].points) = heap[o].size + (IF heap[o].mu = None THEN 0 ELSE 1)

(* and the size insertPoint has loaded is still exact under the lock. *)
Fresh == \A w \in Writers : pc(w) = "lock" => local[w].size = Len(Mt(w).points)

Serial == Alone /\ SizeExact /\ Fresh /\ PointsInOrder

(* A call enters insertRows only when no other one is in flight. *)
LEMMA EnterAlone ==
    ASSUME WorkersLimit = 1, Cardinality(InFlight) < WorkersLimit PROVE InFlight = {}
<1>1. IsFiniteSet(InFlight)
  BY WritersAssumption, FS_Subset DEF InFlight
<1>2. Cardinality(InFlight) = 0
  BY <1>1, FS_CardinalityType
<1> QED BY <1>1, <1>2, FS_EmptySet

(* A step of a writer keeps Alone: it was in flight, or nobody was. *)
LEMMA StepAlone ==
    ASSUME WorkersLimit = 1, Typed, Typed', Alone, NEW w \in Writers, WriterStep(w),
           \A v \in Writers : v # w => local'[v] = local[v]
    PROVE  Alone' /\ (~InsertRows(w) => w \in InFlight)
<1>1. ~InsertRows(w) => w \in InFlight
  BY Zenon DEF WriterStep, InsertPoint, AppendToWAL, SetMinOnce, PutAside, LoadMetric, StoreMetric,
         LoadSize, FirstInsertion, StoreMaxTimestamp, InsertInOrder, AddSize,
         InsertOutOfOrder, AddNumPoints, LoadMax, SwapMax, InFlight
<1>2. InsertRows(w) => InFlight = {}
  BY EnterAlone DEF InsertRows
<1>3. InFlight' \subseteq InFlight \cup {w}
  BY DEF InFlight, pc
<1> QED BY <1>1, <1>2, <1>3 DEF Alone

(* Steps that write to no memoryMetric. *)
LEMMA QuietSerial ==
    ASSUME Typed, Typed', Bounded, Serial, Alone', NEW g \in Goroutines,
           \/ g \in Writers /\ WriterStep(g) /\ ~HeapStep(g)
           \/ g \in Readers /\ ReaderStep(g)
    PROVE  Serial'
<1>1. /\ UNCHANGED heap /\ Continue(g, local'[g])
      /\ local'[g].pc = "lock" =>
            /\ pc(g) \in {"loadSize", "selectSize"}
            /\ local'[g].mt = local[g].mt /\ local'[g].size = Mt(g).size
  BY QuietStep, Zenon
<1>2. \A v \in Writers : v # g => local'[v] = local[v]
  BY <1>1, Zenon DEF Continue, Typed, TypeOK, Goroutines
<1>3. SizeExact' /\ PointsInOrder'
  BY <1>1, Zenon DEF Serial, SizeExact, PointsInOrder
<1>4. ASSUME NEW w \in Writers, local'[w].pc = "lock"
      PROVE  local'[w].size = Len(heap[local'[w].mt].points)
  <2>1. CASE w # g
    BY <2>1, <1>2, <1>4, Zenon DEF Serial, Fresh, pc, Mt
  <2>2. CASE w = g
    <3>1. pc(w) = "loadSize" \/ pc(w) = "selectSize"
      BY <2>2, <1>1, <1>4, Zenon
    <3>2. local[w].mt \in Objects /\ w \in InFlight
      BY <3>1, Zenon DEF Typed, LocalsReady, Ready, UsesMetric, Inserting, InSelect, pc, Goroutines, InFlight
    <3>3. Mt(w).mu = None
      <4>1. SUFFICES ASSUME Mt(w).mu # None PROVE FALSE
        BY Zenon
      <4>2. /\ Mt(w).mu \in Writers /\ pc(Mt(w).mu) \in {"storeMax", "addSize"}
        <5>1. Mt(w) \in Metric
          BY <3>2, Zenon DEF Mt, Typed, TypeOK
        <5>2. Mt(w).mu \in Writers
          BY <4>1, <5>1, Zenon DEF Metric
        <5> QED BY <3>2, <4>1, <5>2, Zenon DEF Bounded, LockHeld, Mt
      <4> QED BY <3>1, <3>2, <4>2 DEF Serial, Alone, InFlight
    <3> QED BY <1>1, <1>4, <2>2, <3>2, <3>3 DEF Serial, SizeExact, Mt, Typed, TypeOK, Metric
  <2> QED BY <2>1, <2>2, Zenon
<1>5. Fresh'
  BY <1>1, <1>4, Zenon DEF Fresh, pc, Mt
<1> QED BY <1>3, <1>5, Zenon DEF Serial

Ascending(s) == \A j, k \in DOMAIN s : j < k => s[j].ts < s[k].ts

(* A point later than the last one keeps the slice ascending. *)
LEMMA AppendAscending ==
    ASSUME NEW s \in Seq(Points), NEW p \in Points, s = <<>> \/ s[Len(s)].ts < p.ts,
           Ascending(s)
    PROVE  Ascending(Append(s, p))
<1>1. \A k \in DOMAIN s : s[k].ts \in Nat
  <2>1. \A q \in Points : q.ts \in Nat
    BY DEF Points
  <2>2. \A k \in DOMAIN s : s[k] \in Points
    OBVIOUS
  <2> QED BY <2>1, <2>2
<1>2. p.ts \in Nat
  BY DEF Points
<1>3. ASSUME NEW j \in DOMAIN s PROVE s[j].ts < p.ts
  <2>1. Len(s) \in DOMAIN s /\ j <= Len(s) /\ s[Len(s)].ts < p.ts
    BY <1>3
  <2> QED BY <1>1, <1>2, <2>1 DEF Ascending
<1>4. DOMAIN Append(s, p) = 1..(Len(s) + 1) /\ Append(s, p)[Len(s) + 1] = p
  OBVIOUS
<1>5. \A k \in DOMAIN s : Append(s, p)[k] = s[k]
  OBVIOUS
<1>6. ASSUME NEW j \in DOMAIN Append(s, p), NEW k \in DOMAIN Append(s, p), j < k
      PROVE  Append(s, p)[j].ts < Append(s, p)[k].ts
  <2>1. j \in DOMAIN s
    BY <1>4, <1>6
  <2>2. k \in DOMAIN s \/ k = Len(s) + 1
    BY <1>4
  <2> QED BY <1>3, <1>4, <1>5, <1>6, <2>1, <2>2, Zenon DEF Ascending
<1> QED BY <1>6 DEF Ascending

(* The steps of insertPoint's critical sections. *)
LEMMA HeapSerial ==
    ASSUME Typed, Bounded, Serial, Alone', NEW w \in Writers, HeapStep(w), w \in InFlight
    PROVE  Serial'
<1>1. /\ local[w].mt \in Objects /\ w \in Goroutines /\ w # None
      /\ heap[local[w].mt] \in Metric /\ local[w] \in Local
      /\ local[w].rows \in Batches /\ MoreRows(w)
      /\ \A p \in Objects : p # local[w].mt => heap'[p] = heap[p]
      /\ \A g \in Goroutines : g # w => local'[g] = local[g]
  BY HeapStepFacts, Zenon
<1>x. PICK x \in Objects : x = local[w].mt
  BY <1>1, Zenon
<1>2. Point(w) \in Points
  BY <1>1, LocalFields, Zenon DEF Point, Points
<1>3. /\ heap[x].points \in Seq(Points) /\ heap[x].size \in Nat
      /\ Len(heap[x].points) = heap[x].size + (IF heap[x].mu = None THEN 0 ELSE 1)
      /\ Ascending(heap[x].points)
  BY <1>1, <1>x, Zenon DEF Metric, Serial, SizeExact, PointsInOrder, Ascending
<1>4. pc(w) \in {"storeMax", "addSize"} => heap[x].mu = w
  BY <1>x, Zenon DEF Bounded, LockHeld, Mt
<1>5. pc(w) = "lock" => local[w].size = Len(heap[x].points)
  BY <1>x, Zenon DEF Serial, Fresh, Mt
<1>6. /\ local'[w].pc # "lock"
      /\ Len(heap'[x].points) = heap'[x].size + (IF heap'[x].mu = None THEN 0 ELSE 1)
      /\ Ascending(heap'[x].points)
  <2> USE DEF Metric, Local
  <2>0. FirstInsertion(w) \/ InsertInOrder(w) =>
          Ascending(Append(heap[x].points, Point(w)))
    <3>1. SUFFICES ASSUME FirstInsertion(w) \/ InsertInOrder(w)
                   PROVE  heap[x].points = <<>>
                            \/ heap[x].points[Len(heap[x].points)].ts < Point(w).ts
      BY <1>2, <1>3, AppendAscending
    <3>2. pc(w) = "lock" /\ Point(w).ts = local[w].stamp
      BY <3>1 DEF FirstInsertion, InsertInOrder, Point
    <3>3. CASE FirstInsertion(w)
      <4>1. Len(heap[x].points) = 0
        BY <3>2, <3>3, <1>5, Zenon DEF FirstInsertion
      <4> QED BY <4>1, <1>3
    <3>4. CASE InsertInOrder(w)
      <4>1. heap[x].points[local[w].size].ts < local[w].stamp
        BY <3>4, <1>x, Zenon DEF InsertInOrder, LastPoint, Mt
      <4> QED BY <4>1, <3>2, <1>5, Zenon
    <3> QED BY <3>1, <3>3, <3>4, Zenon
  <2>1. CASE FirstInsertion(w)
    <3>1. /\ heap'[x].points = Append(heap[x].points, Point(w))
          /\ heap'[x].mu = w /\ heap'[x].size = heap[x].size /\ local'[w].pc = "storeMax"
      BY <2>1, <1>1, <1>x, ZenonT(60) DEF FirstInsertion, Update, Continue, Mt, Typed, TypeOK
    <3>2. heap[x].mu = None
      BY <2>1, <1>x, Zenon DEF FirstInsertion, Mt
    <3>3. Len(Append(heap[x].points, Point(w))) = Len(heap[x].points) + 1
      BY <1>3
    <3>4. Ascending(heap'[x].points)
      BY <2>0, <2>1, <3>1, Zenon
    <3> QED BY <1>1, <1>3, <3>1, <3>2, <3>3, <3>4, SMTT(30)
  <2>2. CASE StoreMaxTimestamp(w)
    <3>1. /\ heap'[x].points = heap[x].points
          /\ heap'[x].mu = heap[x].mu /\ heap'[x].size = heap[x].size
          /\ local'[w].pc = "addSize"
      BY <2>2, <1>1, <1>x, ZenonT(60) DEF StoreMaxTimestamp, Update, Continue, Mt, Typed, TypeOK
    <3> QED BY <1>3, <3>1
  <2>3. CASE InsertInOrder(w)
    <3>1. /\ heap'[x].points = Append(heap[x].points, Point(w))
          /\ heap'[x].mu = w /\ heap'[x].size = heap[x].size /\ local'[w].pc = "addSize"
      BY <2>3, <1>1, <1>x, Zenon DEF InsertInOrder, Update, Continue, Mt, Typed, TypeOK
    <3>2. heap[x].mu = None
      BY <2>3, <1>x DEF InsertInOrder, Mt
    <3>3. Len(Append(heap[x].points, Point(w))) = Len(heap[x].points) + 1
      BY <1>3
    <3>4. Ascending(heap'[x].points)
      BY <2>0, <2>3, <3>1, Zenon
    <3> QED BY <1>1, <1>3, <3>1, <3>2, <3>3, <3>4, SMTT(30)
  <2>4. CASE AddSize(w)
    <3>1. /\ heap'[x].points = heap[x].points
          /\ heap'[x].mu = None /\ heap'[x].size = heap[x].size + 1
          /\ local'[w].pc = "row"
      BY <2>4, <1>1, <1>x DEF AddSize, Update, Continue, Mt, Typed, TypeOK
    <3>2. heap[x].mu = w
      BY <2>4, <1>4, Zenon DEF AddSize
    <3> QED BY <1>1, <1>3, <3>1, <3>2
  <2>5. CASE InsertOutOfOrder(w)
    <3>1. /\ heap'[x].points = heap[x].points
          /\ heap'[x].mu = heap[x].mu /\ heap'[x].size = heap[x].size
          /\ local'[w].pc = "row"
      BY <2>5, <1>1, <1>x, Zenon DEF InsertOutOfOrder, Update, Continue, Mt, Typed, TypeOK
    <3> QED BY <1>3, <3>1, Zenon
  <2> QED BY <2>1, <2>2, <2>3, <2>4, <2>5, Zenon DEF HeapStep
<1>7. SizeExact'
  BY <1>1, <1>x, <1>6, ZenonT(60) DEF Serial, SizeExact
<1>8. PointsInOrder'
  BY <1>1, <1>x, <1>6, ZenonT(60) DEF Serial, PointsInOrder, Ascending
<1>9. Fresh'
  <2>1. ASSUME NEW v \in Writers, v # w PROVE pc(v) # "lock"
    BY <2>1, Zenon DEF Serial, Alone, InFlight
  <2>2. \A v \in Writers : local'[v].pc # "lock"
    BY <2>1, <1>1, <1>6 DEF pc, Goroutines
  <2> QED BY <2>2 DEF Fresh, pc
<1> QED BY <1>7, <1>8, <1>9 DEF Serial

(* With one worker, each step of its call and of the readers keeps Serial.  *)
LEMMA SerialInductive ==
    WorkersLimit = 1 /\ Typed /\ Typed' /\ Bounded /\ Serial /\ [Next]_vars => Serial'
<1> SUFFICES ASSUME WorkersLimit = 1, Typed, Typed', Bounded, Serial, [Next]_vars
             PROVE  Serial'
  BY Zenon
<1>1. ASSUME NEW w \in Writers, WriterStep(w) PROVE Serial'
  <2>1. w \in Goroutines /\ \A v \in Writers : v # w => local'[v] = local[v]
    <3>1. \A v \in Writers : v \in Goroutines
      BY DEF Goroutines
    <3>2. CASE HeapStep(w)
      BY <3>1, <3>2, HeapStepFacts, ZenonT(60)
    <3>3. CASE ~HeapStep(w)
      BY <3>1, <3>3, <1>1, QuietStep, ZenonT(60) DEF Continue, Typed, TypeOK
    <3> QED BY <3>2, <3>3
  <2>2. Alone' /\ (~InsertRows(w) => w \in InFlight)
    BY <1>1, <2>1, StepAlone DEF Serial
  <2>3. CASE HeapStep(w)
    <3>1. ~InsertRows(w)
      BY <2>3, Zenon DEF HeapStep, InsertRows, FirstInsertion, StoreMaxTimestamp, InsertInOrder,
                  AddSize, InsertOutOfOrder
    <3> QED BY <2>2, <2>3, <3>1, HeapSerial
  <2>4. CASE ~HeapStep(w)
    BY <1>1, <2>1, <2>2, <2>4, QuietSerial, Zenon
  <2> QED BY <2>3, <2>4, Zenon
<1>2. ASSUME NEW r \in Readers, ReaderStep(r) PROVE Serial'
  <2>1. r \in Goroutines /\ Continue(r, local'[r])
    BY <1>2, QuietStep, Zenon DEF Goroutines
  <2>2. \A v \in Writers : local'[v] = local[v]
    BY <2>1, GoroutinesAssumption, Zenon DEF Continue, Typed, TypeOK, Goroutines
  <2>3. Alone'
    BY <2>2, Zenon DEF Serial, Alone, InFlight, pc
  <2> QED BY <1>2, <2>1, <2>3, QuietSerial, Zenon
<1>3. ASSUME UNCHANGED vars PROVE Serial'
  BY <1>3 DEF vars, Serial, Alone, InFlight, SizeExact, Fresh, PointsInOrder, pc, Mt
<1> QED BY <1>1, <1>2, <1>3 DEF Next, Finished

(* No writer is in flight at first.                                         *)
LEMMA SerialInit == Init => Serial
<1> SUFFICES ASSUME Init PROVE Serial
  OBVIOUS
<1>1. \A w \in Writers : pc(w) = "idle"
  BY DEF Init, NewLocal, pc, Goroutines
<1>2. \A o \in Objects : heap[o].mu = None /\ heap[o].size = 0 /\ heap[o].points = <<>>
  BY DEF Init, NewMetric
<1>3. Alone /\ Fresh
  BY <1>1 DEF Alone, Fresh, InFlight
<1> QED BY <1>2, <1>3 DEF Serial, SizeExact, PointsInOrder

(* So it holds in every state, with one worker.                             *)
LEMMA SerialAlways == ASSUME WorkersLimit = 1 PROVE Spec => []Serial
<1>1. Typed /\ Typed' /\ Bounded /\ Serial /\ [Next]_vars => Serial'
  BY SerialInductive
<1> QED BY <1>1, SerialInit, TypedAlways, BoundedAlways, PTL DEF Spec

(* With a single worker the points slice of every metric ascends strictly,  *)
(* however many batches, metrics and concurrent selects there are: the      *)
(* order selectPoints' binary searches rely on.                             *)
THEOREM SerialInOrder == WorkersLimit = 1 /\ Spec => []PointsInOrder
<1>1. Serial => PointsInOrder
  BY DEF Serial
<1>2. SUFFICES ASSUME WorkersLimit = 1 PROVE Spec => []PointsInOrder
  OBVIOUS
<1>3. Spec => []Serial
  BY <1>2, SerialAlways
<1> QED BY <1>1, <1>3, PTL

-----------------------------------------------------------------------------
(* The maximum of the partition *)

(* A call has stored rows only from its loop on, *)
Looping == {"row", "loadMax", "swapMax", "returned"} \cup Inserting

(* its local maximum covers them and the row at hand, and what it leaves in *)
(* maxT covers its local maximum.                                           *)
Covering(w) ==
    /\ pc(w) \in Inserting => local[w].stamp <= local[w].top
    /\ pc(w) = "swapMax" => maxT < local[w].top
    /\ pc(w) = "returned" => local[w].top <= maxT

Covered ==
    /\ \A w \in Writers : Covering(w)
    /\ \A o \in Objects : \A p \in Stored(o) :
          LET w == p.row[1]
          IN  w \in Writers /\ pc(w) \in Looping /\ p.ts <= local[w].top

(* What a step of w does to its local maximum and to maxT. *)
LEMMA WriterCovers ==
    ASSUME Typed, Typed', NEW w \in Writers, Covering(w), WriterStep(w)
    PROVE  /\ Covering(w)'
           /\ maxT' # maxT => pc(w) = "swapMax" /\ maxT <= maxT'
           /\ pc(w) \in Looping => pc(w)' \in Looping /\ local[w].top <= local'[w].top
<1>1. /\ local \in [Goroutines -> Local] /\ w \in Goroutines
      /\ local[w] \in Local /\ maxT \in Nat /\ maxT' \in Nat
      /\ local[w].top \in Nat /\ local[w].stamp \in Nat
  BY LocalFields, Zenon DEF Typed, TypeOK, Goroutines
<1> USE DEF Looping, Inserting
<1>2. CASE InsertRows(w)
  <2>1. local'[w].pc = "append" /\ pc(w) = "idle" /\ maxT' = maxT
    BY <1>2, <1>1 DEF InsertRows, Continue, Local, partition
  <2> QED BY <2>1 DEF Covering, pc
<1>3. CASE AppendToWAL(w)
  <2>1. local'[w].pc \in {"once", "failed"} /\ pc(w) = "append" /\ maxT' = maxT
    BY <1>3, <1>1, ZenonT(60) DEF AppendToWAL, Continue, Local, partition
  <2> QED BY <2>1 DEF Covering, pc
<1>4. CASE SetMinOnce(w)
  <2>1. local'[w].pc = "row" /\ pc(w) = "once" /\ maxT' = maxT
    BY <1>4, <1>1, Zenon DEF SetMinOnce, Continue, Local, partition
  <2> QED BY <2>1 DEF Covering, pc
<1>5. CASE PutAside(w)
  <2>1. local'[w].pc = "row" /\ pc(w) = "row" /\ maxT' = maxT /\ local'[w].top = local[w].top
    BY <1>5, <1>1, Zenon DEF PutAside, Continue, Local, partition, pc
  <2> QED BY <1>1, <2>1 DEF Covering, pc
<1>6. CASE LoadMetric(w)
  <2>1. pc(w) = "row" /\ maxT' = maxT
    BY <1>6 DEF LoadMetric, partition
  <2>2. PICK now \in Clock :
           /\ local'[w].stamp = Stamped(w, now)
           /\ local'[w].top = IF Stamped(w, now) > local[w].top
                              THEN Stamped(w, now) ELSE local[w].top
           /\ local'[w].pc \in {"storeMetric", "loadSize"}
    BY <1>6, <1>1 DEF LoadMetric, Continue, Local
  <2>3. local'[w].stamp \in Nat
    BY <1>1, LocalFields, Zenon DEF Typed, TypeOK
  <2>4. local'[w].stamp <= local'[w].top /\ local[w].top <= local'[w].top
    BY <1>1, <2>2, <2>3
  <2> QED BY <2>1, <2>2, <2>4 DEF Covering, pc
<1>7. CASE StoreMetric(w)
  <2>1. /\ local'[w].pc = "loadSize" /\ pc(w) = "storeMetric" /\ maxT' = maxT
        /\ local'[w].top = local[w].top /\ local'[w].stamp = local[w].stamp
    BY <1>7, <1>1, Zenon DEF StoreMetric, Continue, Local, partition
  <2> QED BY <1>1, <2>1 DEF Covering, pc
<1>8. CASE LoadSize(w)
  <2>1. /\ local'[w].pc = "lock" /\ pc(w) = "loadSize" /\ maxT' = maxT
        /\ local'[w].top = local[w].top /\ local'[w].stamp = local[w].stamp
    BY <1>8, <1>1, Zenon DEF LoadSize, Continue, Local, partition
  <2> QED BY <1>1, <2>1 DEF Covering, pc
<1>9. CASE FirstInsertion(w)
  <2>1. /\ local'[w].pc = "storeMax" /\ pc(w) = "lock" /\ maxT' = maxT
        /\ local'[w].top = local[w].top /\ local'[w].stamp = local[w].stamp
    BY <1>9, <1>1, Zenon DEF FirstInsertion, Continue, Local, partition
  <2> QED BY <1>1, <2>1 DEF Covering, pc
<1>10. CASE StoreMaxTimestamp(w)
  <2>1. /\ local'[w].pc = "addSize" /\ pc(w) = "storeMax" /\ maxT' = maxT
        /\ local'[w].top = local[w].top /\ local'[w].stamp = local[w].stamp
    BY <1>10, <1>1, Zenon DEF StoreMaxTimestamp, Continue, Local, partition
  <2> QED BY <1>1, <2>1 DEF Covering, pc
<1>11. CASE InsertInOrder(w)
  <2>1. /\ local'[w].pc = "addSize" /\ pc(w) = "lock" /\ maxT' = maxT
        /\ local'[w].top = local[w].top /\ local'[w].stamp = local[w].stamp
    BY <1>11, <1>1, Zenon DEF InsertInOrder, Continue, Local, partition
  <2> QED BY <1>1, <2>1 DEF Covering, pc
<1>12. CASE AddSize(w)
  <2>1. /\ local'[w].pc = "row" /\ pc(w) = "addSize" /\ maxT' = maxT
        /\ local'[w].top = local[w].top
    BY <1>12, <1>1, Zenon DEF AddSize, Continue, Local, partition
  <2> QED BY <1>1, <2>1 DEF Covering, pc
<1>13. CASE InsertOutOfOrder(w)
  <2>1. /\ local'[w].pc = "row" /\ pc(w) = "lock" /\ maxT' = maxT
        /\ local'[w].top = local[w].top
    BY <1>13, <1>1, Zenon DEF InsertOutOfOrder, Continue, Local, partition
  <2> QED BY <1>1, <2>1 DEF Covering, pc
<1>14. CASE AddNumPoints(w)
  <2>1. /\ local'[w].pc = "loadMax" /\ pc(w) = "row" /\ maxT' = maxT
        /\ local'[w].top = local[w].top
    BY <1>14, <1>1, Zenon DEF AddNumPoints, Continue, Local
  <2> QED BY <1>1, <2>1 DEF Covering, pc
<1>15. CASE LoadMax(w)
  <2>1. /\ local'[w].pc = (IF maxT < local[w].top THEN "swapMax" ELSE "returned")
        /\ pc(w) = "loadMax" /\ maxT' = maxT /\ local'[w].top = local[w].top
    BY <1>15, <1>1, Zenon DEF LoadMax, Continue, Local, partition
  <2> QED BY <1>1, <2>1 DEF Covering, pc
<1>16. CASE SwapMax(w)
  <2>1. /\ local'[w].pc = "returned" /\ pc(w) = "swapMax" /\ maxT' = local[w].top
        /\ local'[w].top = local[w].top
    BY <1>16, <1>1, Zenon DEF SwapMax, Continue, Local
  <2> QED BY <1>1, <2>1 DEF Covering, pc
<1> QED
  BY <1>2, <1>3, <1>4, <1>5, <1>6, <1>7, <1>8, <1>9, <1>10, <1>11, <1>12, <1>13, <1>14,
     <1>15, <1>16, ZenonT(60) DEF WriterStep, InsertPoint

(* Readers leave maxT and the metrics' points alone. *)
LEMMA ReaderLeaves ==
    ASSUME Typed, Typed', NEW r \in Readers, ReaderStep(r)
    PROVE  /\ UNCHANGED <<heap, maxT>> /\ Continue(r, local'[r])
           /\ \A w \in Writers : local'[w] = local[w]
<1>1. UNCHANGED heap /\ Continue(r, local'[r])
  BY QuietStep DEF Goroutines
<1>2. UNCHANGED maxT
  BY Zenon DEF ReaderStep, SelectDataPoints, SelectStoreMetric, SelectLoadSize, SelectLoadMin,
         SelectLoadMax, Slice, partition
<1>3. \A w \in Writers : w # r /\ w \in Goroutines
  BY GoroutinesAssumption DEF Goroutines
<1> QED BY <1>1, <1>2, <1>3, Zenon DEF Continue, Typed, TypeOK

(* With one worker, no call swaps maxT for an older maximum.                *)
LEMMA CoveredInductive ==
    Typed /\ Typed' /\ Serial /\ Covered /\ [Next]_vars => Covered'
<1> SUFFICES ASSUME Typed, Typed', Serial, Covered, [Next]_vars PROVE Covered'
  BY Zenon
<1>a. /\ maxT \in Nat /\ maxT' \in Nat
      /\ \A w \in Writers : local[w].top \in Nat /\ local'[w].top \in Nat
  BY LocalFields DEF Typed, TypeOK, Goroutines
<1>b. \A o \in Objects : \A p \in Stored(o) : p.ts \in Nat
  <2>1. \A o \in Objects : heap[o].points \in Seq(Points) /\ heap[o].outOfOrderPoints \in Seq(Points)
    BY Zenon DEF Typed, TypeOK, Metric
  <2>2. \A o \in Objects : \A p \in Stored(o) : p \in Points
    BY <2>1 DEF Stored
  <2> QED BY <2>2, Zenon DEF Points
<1>1. ASSUME NEW w \in Writers, WriterStep(w) PROVE Covered'
  <2>1. w \in Goroutines /\ \A v \in Writers : v # w => local'[v] = local[v]
    <3>1. \A v \in Writers : v \in Goroutines
      BY DEF Goroutines
    <3>2. CASE HeapStep(w)
      BY <3>1, <3>2, HeapStepFacts, ZenonT(60)
    <3>3. CASE ~HeapStep(w)
      BY <3>1, <3>3, <1>1, QuietStep, ZenonT(60) DEF Continue, Typed, TypeOK
    <3> QED BY <3>2, <3>3
  <2>2. /\ Covering(w)'
        /\ maxT' # maxT => pc(w) = "swapMax" /\ maxT <= maxT'
        /\ pc(w) \in Looping => pc(w)' \in Looping /\ local[w].top <= local'[w].top
    BY <1>1, WriterCovers DEF Covered
  <2>3. ASSUME NEW v \in Writers, v # w PROVE Covering(v)'
    <3>1. Covering(v) /\ local'[v] = local[v]
      BY <2>1, <2>3, Zenon DEF Covered
    <3>2. CASE maxT' = maxT
      BY <3>1, <3>2, Zenon DEF Covering, pc
    <3>3. CASE maxT' # maxT
      <4>1. pc(v) # "swapMax"
        BY <2>2, <2>3, <3>3, Zenon DEF Serial, Alone, InFlight
      <4> QED BY <1>a, <2>2, <3>1, <3>3, <4>1 DEF Covering, pc
    <3> QED BY <3>2, <3>3, Zenon
  <2>4. ASSUME NEW o \in Objects, NEW p \in Stored(o),
               p.row[1] \in Writers, pc(p.row[1]) \in Looping, p.ts <= local[p.row[1]].top
        PROVE  pc(p.row[1])' \in Looping /\ p.ts <= local'[p.row[1]].top
    <3>1. CASE p.row[1] = w
      BY <1>a, <1>b, <2>2, <2>4, <3>1, SMTT(30)
    <3>2. CASE p.row[1] # w
      BY <2>1, <2>4, <3>2, Zenon DEF pc
    <3> QED BY <3>1, <3>2, Zenon
  <2>5. ASSUME NEW o \in Objects, NEW p \in Stored(o)'
        PROVE  p.row[1] \in Writers /\ pc(p.row[1])' \in Looping /\ p.ts <= local'[p.row[1]].top
    <3>1. CASE p \in Stored(o)
      BY <2>4, <3>1, Zenon DEF Covered
    <3>2. CASE p \notin Stored(o)
      <4>1. HeapStep(w)
        <5>1. ~HeapStep(w) => UNCHANGED heap
          BY <1>1, <2>1, QuietStep
        <5> QED BY <2>5, <3>2, <5>1, Zenon DEF Stored
      <4>2. p = Point(w) /\ pc(w) \in Inserting
        BY <2>5, <3>2, <4>1, StoredGrows, Zenon
        DEF HeapStep, FirstInsertion, StoreMaxTimestamp, InsertInOrder, AddSize,
            InsertOutOfOrder, Inserting
      <4>3. p.row[1] = w /\ p.ts = local[w].stamp
        BY <4>2, Zenon DEF Point
      <4>4. local[w].stamp <= local[w].top /\ local[w].stamp \in Nat /\ pc(w) \in Looping
        BY <2>1, <4>2, LocalFields, Zenon DEF Covered, Covering, Typed, TypeOK, Looping
      <4> QED BY <1>a, <2>2, <4>3, <4>4, SMTT(30)
    <3> QED BY <3>1, <3>2, Zenon
  <2> QED BY <2>2, <2>3, <2>5, Zenon DEF Covered
<1>2. ASSUME NEW r \in Readers, ReaderStep(r) PROVE Covered'
  <2>1. UNCHANGED <<heap, maxT>> /\ \A w \in Writers : local'[w] = local[w]
    BY <1>2, ReaderLeaves, Zenon
  <2>2. \A o \in Objects : Stored(o)' = Stored(o)
    BY <2>1, Zenon DEF Stored
  <2> QED BY <2>1, <2>2, Zenon DEF Covered, Covering, pc
<1>3. ASSUME UNCHANGED vars PROVE Covered'
  <2>1. \A o \in Objects : Stored(o)' = Stored(o)
    BY <1>3, Zenon DEF Stored, vars
  <2> QED BY <1>3, <2>1, Zenon DEF Covered, Covering, pc, vars, partition
<1> QED BY <1>1, <1>2, <1>3 DEF Next, Finished

(* Nothing is stored at first. *)
LEMMA CoveredInit == Init => Covered
<1> SUFFICES ASSUME Init PROVE Covered
  OBVIOUS
<1>1. \A w \in Writers : pc(w) = "idle"
  BY DEF Init, NewLocal, pc, Goroutines
<1>2. \A o \in Objects : Stored(o) = {}
  BY DEF Init, NewMetric, Stored
<1> QED BY <1>1, <1>2 DEF Covered, Covering, Inserting

(* "Make max timestamp up-to-date": with a single worker, maxT covers every *)
(* row of every call that has returned, although it is loaded, compared and *)
(* swapped in separate steps.                                               *)
THEOREM SerialMaxCovers == WorkersLimit = 1 /\ Spec => []MaxCoversReturned
<1>1. Typed /\ Covered => MaxCoversReturned
  <2> SUFFICES ASSUME Typed, Covered, NEW o \in Objects, NEW p \in Stored(o),
                      pc(p.row[1]) = "returned"
               PROVE  p.ts <= maxT
    BY DEF MaxCoversReturned
  <2>1. p.ts \in Nat
    <3>1. heap[o].points \in Seq(Points) /\ heap[o].outOfOrderPoints \in Seq(Points)
      BY Zenon DEF Typed, TypeOK, Metric
    <3>2. p \in Points
      BY <3>1 DEF Stored
    <3> QED BY <3>2, Zenon DEF Points
  <2>2. /\ p.row[1] \in Writers /\ p.ts <= local[p.row[1]].top
        /\ local[p.row[1]].top <= maxT
    BY Zenon DEF Covered, Covering
  <2>3. local[p.row[1]].top \in Nat /\ maxT \in Nat
    BY <2>2, LocalFields DEF Typed, TypeOK, Goroutines
  <2> QED BY <2>1, <2>2, <2>3
<1>2. SUFFICES ASSUME WorkersLimit = 1 PROVE Spec => []MaxCoversReturned
  OBVIOUS
<1>3. Spec => []Serial
  BY <1>2, SerialAlways
<1> QED BY <1>1, <1>3, CoveredInit, CoveredInductive, TypedAlways, PTL DEF Spec
=============================================================================
