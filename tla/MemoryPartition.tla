-------------------------- MODULE MemoryPartition --------------------------
(***************************************************************************)
(* The memory partition of memory_partition.go: concurrent insertRows and  *)
(* selectDataPoints calls on one memoryPartition, one action per atomic    *)
(* step (an atomic load or store, a sync.Map access, the part of a         *)
(* critical section that ends where an unlocked reader can look).          *)
(*                                                                         *)
(* Every writer makes one insertRows call and every reader one             *)
(* selectDataPoints call.  At most WorkersLimit insertRows calls run at    *)
(* once, as storage.go's workersLimitCh allows.                            *)
(*                                                                         *)
(* A *memoryMetric is named by the goroutine that allocated it and its     *)
(* metric name: once a goroutine has stored a metric every later load of   *)
(* that name hits, so it never allocates a second one.                     *)
(***************************************************************************)
EXTENDS Integers, Sequences, FiniteSets, EncodeAllPoints

CONSTANTS
    Writers,        \* goroutines that call insertRows
    Readers,        \* goroutines that call selectDataPoints
    Metrics,        \* marshaled metric names
    Batches,        \* the []Row arguments: sequences of [metric, ts]
    Queries,        \* the arguments of selectDataPoints: [metric, start, end]
    Clock,          \* what time.Now() may return, as a Unix timestamp
    WorkersLimit,   \* the capacity of workersLimitCh
    None            \* nil

Goroutines == Writers \cup Readers
Objects == Goroutines \X Metrics
Rows == [metric : Metrics, ts : Nat]

ASSUME GoroutinesAssumption == None \notin Goroutines /\ Writers \cap Readers = {}
ASSUME WritersAssumption == IsFiniteSet(Writers)
ASSUME BatchesAssumption == \A b \in Batches : b \in Seq(Rows) /\ Len(b) > 0
ASSUME QueriesAssumption ==
    \A q \in Queries : q \in [metric : Metrics, start : Int, end : Int] /\ q.start < q.end
ASSUME ClockAssumption == Clock \subseteq Nat /\ Clock # {}
ASSUME WorkersLimitAssumption == WorkersLimit \in Nat \ {0}

VARIABLES
    numPoints, minT, maxT,  \* the counters of memoryPartition
    once,                   \* once.Do has run
    metrics,                \* the sync.Map: name -> allocator of its object, or None
    heap,                   \* the memoryMetric objects
    local,                  \* program counter and local variables of a goroutine
    logged,                 \* the rows wal.append has written
    result                  \* the slice bounds a reader's select ended with

partition == <<numPoints, minT, maxT, once, metrics>>
vars == <<partition, heap, local, logged, result>>

NoObject == <<None, None>>
NoQuery == [metric |-> None, start |-> 0, end |-> 0]

(* The memoryMetric that getMetric allocates. *)
NewMetric == [size |-> 0, minTimestamp |-> 0, maxTimestamp |-> 0,
              points |-> <<>>, outOfOrderPoints |-> <<>>, mu |-> None]

(* rows, i, outdated, top and stamp belong to insertRows; query, lo and hi  *)
(* to selectPoints; mt and size to both.  before is a history        *)
(* variable: the size of the metric when the select call began.             *)
NewLocal == [pc |-> "idle", rows |-> <<>>, i |-> 1, outdated |-> {}, top |-> 0,
             stamp |-> 0, mt |-> NoObject, size |-> 0, query |-> NoQuery,
             lo |-> 0, hi |-> 0, before |-> 0]

Init ==
    /\ numPoints = 0 /\ minT = 0 /\ maxT = 0 /\ once = FALSE
    /\ metrics = [n \in Metrics |-> None]
    /\ heap = [o \in Objects |-> NewMetric]
    /\ local = [g \in Goroutines |-> NewLocal]
    /\ logged = {}
    /\ result = [r \in Readers |-> <<0, 0>>]

pc(g) == local[g].pc
Continue(g, l) == local' = [local EXCEPT ![g] = l]
Update(o, m) == heap' = [heap EXCEPT ![o] = m]
Mt(g) == heap[local[g].mt]
Row(w) == local[w].rows[local[w].i]
MoreRows(w) == local[w].i <= Len(local[w].rows)
RowsOf(w) == {w} \X DOMAIN local[w].rows
Point(w) == [ts |-> local[w].stamp, row |-> <<w, local[w].i>>]
InFlight == {w \in Writers : pc(w) \notin {"idle", "failed", "returned"}}

SmallestTs(b) ==
    CHOOSE t \in {b[k].ts : k \in DOMAIN b} : \A k \in DOMAIN b : t <= b[k].ts

-----------------------------------------------------------------------------
(* insertRows *)

(* The call gets a token of workersLimitCh and enters insertRows. *)
InsertRows(w) ==
    /\ pc(w) = "idle"
    /\ Cardinality(InFlight) < WorkersLimit
    /\ \E b \in Batches :
          Continue(w, [local[w] EXCEPT !.pc = "append", !.rows = b])
    /\ UNCHANGED <<partition, heap, logged, result>>

(* Mutant: the error of wal.append is only logged. *)
AppendToWAL_IgnoresError(w) ==
    /\ pc(w) = "append"
    /\ \/ logged' = logged \cup RowsOf(w)
       \/ UNCHANGED logged
    /\ Continue(w, [local[w] EXCEPT !.pc = "once"])
    /\ UNCHANGED <<partition, heap, result>>

(* m.wal.append: an error ends the call before anything is stored. *)
AppendToWAL(w) ==
    /\ pc(w) = "append"
    /\ \/ /\ logged' = logged \cup RowsOf(w)
          /\ Continue(w, [local[w] EXCEPT !.pc = "once"])
       \/ /\ Continue(w, [local[w] EXCEPT !.pc = "failed"])
          /\ UNCHANGED logged
    /\ UNCHANGED <<partition, heap, result>>

(* once.Do stores the batch's smallest timestamp; the loop is set up. *)
SetMinOnce(w) ==
    /\ pc(w) = "once"
    /\ minT' = IF once THEN minT ELSE SmallestTs(local[w].rows)
    /\ once' = TRUE
    /\ Continue(w, [local[w] EXCEPT !.pc = "row", !.top = local[w].rows[1].ts])
    /\ UNCHANGED <<numPoints, maxT, metrics, heap, logged, result>>

(* A row older than minT is put aside for the caller. *)
PutAside(w) ==
    /\ pc(w) = "row" /\ MoreRows(w) /\ Row(w).ts < minT
    /\ Continue(w, [local[w] EXCEPT !.outdated = local[w].outdated \cup {local[w].i},
                                    !.i = local[w].i + 1])
    /\ UNCHANGED <<partition, heap, logged, result>>

(* row.Timestamp once an empty one has become the local time *)
Stamped(w, now) == IF Row(w).ts = 0 THEN now ELSE Row(w).ts

(* Mutant: outdated rows are ingested too. *)
LoadMetric_Outdated(w) ==
    /\ pc(w) = "row" /\ MoreRows(w)
    /\ \E now \in Clock :
          LET t == Stamped(w, now)
              owner == metrics[Row(w).metric]
              l == [local[w] EXCEPT !.stamp = t, !.top = IF t > local[w].top THEN t ELSE local[w].top]
          IN  Continue(w, IF owner = None
                          THEN [l EXCEPT !.pc = "storeMetric"]
                          ELSE [l EXCEPT !.pc = "loadSize", !.mt = <<owner, Row(w).metric>>])
    /\ UNCHANGED <<partition, heap, logged, result>>

(* Mutant: the local maximum stays that of the first row. *)
LoadMetric_FirstRowMax(w) ==
    /\ pc(w) = "row" /\ MoreRows(w) /\ Row(w).ts >= minT
    /\ \E now \in Clock :
          LET t == Stamped(w, now)
              owner == metrics[Row(w).metric]
              l == [local[w] EXCEPT !.stamp = t]
          IN  Continue(w, IF owner = None
                          THEN [l EXCEPT !.pc = "storeMetric"]
                          ELSE [l EXCEPT !.pc = "loadSize", !.mt = <<owner, Row(w).metric>>])
    /\ UNCHANGED <<partition, heap, logged, result>>

(* An accepted row: the local maximum is raised and getMetric loads the     *)
(* map's entry.                                                             *)
LoadMetric(w) ==
    /\ pc(w) = "row" /\ MoreRows(w) /\ Row(w).ts >= minT
    /\ \E now \in Clock :
          LET t == Stamped(w, now)
              owner == metrics[Row(w).metric]
              l == [local[w] EXCEPT !.stamp = t, !.top = IF t > local[w].top THEN t ELSE local[w].top]
          IN  Continue(w, IF owner = None
                          THEN [l EXCEPT !.pc = "storeMetric"]
                          ELSE [l EXCEPT !.pc = "loadSize",
                                         !.mt = <<owner, Row(w).metric>>])
    /\ UNCHANGED <<partition, heap, logged, result>>

(* getMetric found nothing: it stores a new object over whatever is there.  *)
StoreMetric(w) ==
    /\ pc(w) = "storeMetric"
    /\ metrics' = [metrics EXCEPT ![Row(w).metric] = w]
    /\ Continue(w, [local[w] EXCEPT !.pc = "loadSize", !.mt = <<w, Row(w).metric>>])
    /\ UNCHANGED <<numPoints, minT, maxT, once, heap, logged, result>>

(* Mutant: one too many. *)
LoadSize_OffByOne(w) ==
    /\ pc(w) = "loadSize"
    /\ Continue(w, [local[w] EXCEPT !.pc = "lock", !.size = Mt(w).size + 1])
    /\ UNCHANGED <<partition, heap, logged, result>>

(* insertPoint loads size before it takes the lock. *)
LoadSize(w) ==
    /\ pc(w) = "loadSize"
    /\ Continue(w, [local[w] EXCEPT !.pc = "lock", !.size = Mt(w).size])
    /\ UNCHANGED <<partition, heap, logged, result>>

(* "First insertion", up to the store of minTimestamp. *)
FirstInsertion(w) ==
    /\ pc(w) = "lock" /\ Mt(w).mu = None
    /\ local[w].size = 0
    /\ Update(local[w].mt, [Mt(w) EXCEPT !.mu = w, !.points = Append(@, Point(w)),
                                        !.minTimestamp = local[w].stamp])
    /\ Continue(w, [local[w] EXCEPT !.pc = "storeMax"])
    /\ UNCHANGED <<partition, logged, result>>

StoreMaxTimestamp(w) ==
    /\ pc(w) = "storeMax"
    /\ Update(local[w].mt, [Mt(w) EXCEPT !.maxTimestamp = local[w].stamp])
    /\ Continue(w, [local[w] EXCEPT !.pc = "addSize"])
    /\ UNCHANGED <<partition, logged, result>>

(* m.points[size-1], with the size loaded before the lock *)
LastPoint(w) == Mt(w).points[local[w].size]

(* Mutant: a point with the last one's timestamp counts as in order. *)
InsertInOrder_Equal(w) ==
    /\ pc(w) = "lock" /\ Mt(w).mu = None
    /\ local[w].size # 0 /\ LastPoint(w).ts <= local[w].stamp
    /\ Update(local[w].mt, [Mt(w) EXCEPT !.mu = w, !.points = Append(@, Point(w)),
                                        !.maxTimestamp = local[w].stamp])
    /\ Continue(w, [local[w] EXCEPT !.pc = "addSize"])
    /\ UNCHANGED <<partition, logged, result>>

(* "Insert point in order", up to the store of maxTimestamp. *)
InsertInOrder(w) ==
    /\ pc(w) = "lock" /\ Mt(w).mu = None
    /\ local[w].size # 0 /\ LastPoint(w).ts < local[w].stamp
    /\ Update(local[w].mt, [Mt(w) EXCEPT !.mu = w, !.points = Append(@, Point(w)),
                                        !.maxTimestamp = local[w].stamp])
    /\ Continue(w, [local[w] EXCEPT !.pc = "addSize"])
    /\ UNCHANGED <<partition, logged, result>>

(* size is raised last; the lock is released and the loop moves on. *)
AddSize(w) ==
    /\ pc(w) = "addSize"
    /\ Update(local[w].mt, [Mt(w) EXCEPT !.size = @ + 1, !.mu = None])
    /\ Continue(w, [local[w] EXCEPT !.pc = "row", !.i = local[w].i + 1])
    /\ UNCHANGED <<partition, logged, result>>

(* Mutant: the point is dropped. *)
InsertOutOfOrder_Drops(w) ==
    /\ pc(w) = "lock" /\ Mt(w).mu = None
    /\ local[w].size # 0 /\ LastPoint(w).ts >= local[w].stamp
    /\ Continue(w, [local[w] EXCEPT !.pc = "row", !.i = local[w].i + 1])
    /\ UNCHANGED <<partition, heap, logged, result>>

InsertOutOfOrder(w) ==
    /\ pc(w) = "lock" /\ Mt(w).mu = None
    /\ local[w].size # 0 /\ LastPoint(w).ts >= local[w].stamp
    /\ Update(local[w].mt, [Mt(w) EXCEPT !.outOfOrderPoints = Append(@, Point(w))])
    /\ Continue(w, [local[w] EXCEPT !.pc = "row", !.i = local[w].i + 1])
    /\ UNCHANGED <<partition, logged, result>>

(* Mutant: they are subtracted without having been counted. *)
AddNumPoints_Subtracts(w) ==
    /\ pc(w) = "row" /\ ~MoreRows(w)
    /\ numPoints' = numPoints - Cardinality(local[w].outdated)
    /\ Continue(w, [local[w] EXCEPT !.pc = "loadMax"])
    /\ UNCHANGED <<minT, maxT, once, metrics, heap, logged, result>>

(* After the loop numPoints grows by rowsNum, the rows not put aside. *)
AddNumPoints(w) ==
    /\ pc(w) = "row" /\ ~MoreRows(w)
    /\ numPoints' = numPoints + Len(local[w].rows) - Cardinality(local[w].outdated)
    /\ Continue(w, [local[w] EXCEPT !.pc = "loadMax"])
    /\ UNCHANGED <<minT, maxT, once, metrics, heap, logged, result>>

(* "Make max timestamp up-to-date": a load and a comparison ... *)
LoadMax(w) ==
    /\ pc(w) = "loadMax"
    /\ Continue(w, [local[w] EXCEPT
          !.pc = IF maxT < local[w].top THEN "swapMax" ELSE "returned"])
    /\ UNCHANGED <<partition, heap, logged, result>>

(* ... and then an unconditional swap. *)
SwapMax(w) ==
    /\ pc(w) = "swapMax"
    /\ maxT' = local[w].top
    /\ Continue(w, [local[w] EXCEPT !.pc = "returned"])
    /\ UNCHANGED <<numPoints, minT, once, metrics, heap, logged, result>>

-----------------------------------------------------------------------------
(* selectDataPoints *)

(* The call begins: getMetric loads the map's entry. *)
SelectDataPoints(r) ==
    /\ pc(r) = "idle"
    /\ \E q \in Queries :
          LET owner == metrics[q.metric]
              o == <<owner, q.metric>>
              l == [local[r] EXCEPT !.query = q]
          IN  Continue(r, IF owner = None
                          THEN [l EXCEPT !.pc = "selectStore"]
                          ELSE [l EXCEPT !.pc = "selectSize", !.mt = o,
                                         !.before = heap[o].size])
    /\ UNCHANGED <<partition, heap, logged, result>>

(* A select of an unknown metric stores a new, empty object too. *)
SelectStoreMetric(r) ==
    /\ pc(r) = "selectStore"
    /\ metrics' = [metrics EXCEPT ![local[r].query.metric] = r]
    /\ Continue(r, [local[r] EXCEPT !.pc = "selectSize",
                                    !.mt = <<r, local[r].query.metric>>])
    /\ UNCHANGED <<numPoints, minT, maxT, once, heap, logged, result>>

SelectLoadSize(r) ==
    /\ pc(r) = "selectSize"
    /\ Continue(r, [local[r] EXCEPT !.pc = "selectMin", !.size = Mt(r).size])
    /\ UNCHANGED <<partition, heap, logged, result>>

SelectLoadMin(r) ==
    /\ pc(r) = "selectMin"
    /\ Continue(r, [local[r] EXCEPT !.pc = "selectMax", !.lo = Mt(r).minTimestamp])
    /\ UNCHANGED <<partition, heap, logged, result>>

(* The last load, and the early return of an interval before the metric. *)
SelectLoadMax(r) ==
    /\ pc(r) = "selectMax"
    /\ Continue(r, [local[r] EXCEPT
          !.hi = Mt(r).maxTimestamp,
          !.pc = IF local[r].query.end <= local[r].lo THEN "selected" ELSE "slice"])
    /\ UNCHANGED <<partition, heap, logged, result>>

(* sort.Search(n, f): the binary search of the Go library, with its         *)
(* cursors i and j as a pair.                                               *)
Search(n, f) ==
    LET look[c \in (0..n) \X (0..n)] ==
            LET h == (c[1] + c[2]) \div 2
            IN  IF c[1] >= c[2] THEN c[1]
                ELSE IF f[h] THEN look[<<c[1], h>>] ELSE look[<<h + 1, c[2]>>]
    IN  look[<<0, n>>]

(* Mutant: a point at the bound itself does not count. *)
FirstNotBefore_Strict(r, t) ==
    Search(local[r].size, [k \in 0..local[r].size - 1 |-> Mt(r).points[k + 1].ts > t])

FirstNotBefore(r, t) ==
    Search(local[r].size, [k \in 0..local[r].size - 1 |-> Mt(r).points[k + 1].ts >= t])

StartIdx(r) ==
    IF local[r].query.start <= local[r].lo
    THEN 0 ELSE FirstNotBefore(r, local[r].query.start)

(* Mutant: the index of the last point in place of the end of the slice. *)
EndIdx_LastIndex(r) ==
    IF local[r].query.end >= local[r].hi
    THEN local[r].size - 1 ELSE FirstNotBefore(r, local[r].query.end)

EndIdx(r) ==
    IF local[r].query.end >= local[r].hi
    THEN local[r].size ELSE FirstNotBefore(r, local[r].query.end)

(* The read-locked part of selectPoints: m.points[startIdx:endIdx]. *)
Slice(r) ==
    /\ pc(r) = "slice" /\ Mt(r).mu = None
    /\ result' = [result EXCEPT ![r] = <<StartIdx(r), EndIdx(r)>>]
    /\ Continue(r, [local[r] EXCEPT !.pc = "selected"])
    /\ UNCHANGED <<partition, heap, logged>>

-----------------------------------------------------------------------------
InsertPoint(w) ==
    \/ LoadSize(w) \/ FirstInsertion(w) \/ StoreMaxTimestamp(w)
    \/ InsertInOrder(w) \/ AddSize(w) \/ InsertOutOfOrder(w)

WriterStep(w) ==
    \/ InsertRows(w) \/ AppendToWAL(w) \/ SetMinOnce(w) \/ PutAside(w)
    \/ LoadMetric(w) \/ StoreMetric(w) \/ InsertPoint(w)
    \/ AddNumPoints(w) \/ LoadMax(w) \/ SwapMax(w)

ReaderStep(r) ==
    \/ SelectDataPoints(r) \/ SelectStoreMetric(r) \/ SelectLoadSize(r)
    \/ SelectLoadMin(r) \/ SelectLoadMax(r) \/ Slice(r)

(* Every call has returned: nothing is left to do. *)
Finished ==
    /\ \A g \in Goroutines : pc(g) \in {"returned", "failed", "selected"}
    /\ UNCHANGED vars

Next ==
    \/ \E w \in Writers : WriterStep(w)
    \/ \E r \in Readers : ReaderStep(r)
    \/ Finished

Spec == Init /\ [][Next]_vars

-----------------------------------------------------------------------------
(* Properties *)

Labels == {"idle", "append", "failed", "once", "row", "storeMetric", "loadSize",
           "lock", "storeMax", "addSize", "loadMax", "swapMax", "returned",
           "selectStore", "selectSize", "selectMin", "selectMax", "slice", "selected"}
Points == [ts : Nat, row : Writers \X Nat]
Metric == [size : Nat, minTimestamp : Nat, maxTimestamp : Nat, points : Seq(Points),
           outOfOrderPoints : Seq(Points), mu : Writers \cup {None}]
Local == [pc : Labels, rows : Batches \cup {<<>>}, i : Nat \ {0},
          outdated : SUBSET Nat, top : Nat, stamp : Nat, mt : Objects \cup {NoObject},
          size : Nat, query : Queries \cup {NoQuery}, lo : Nat, hi : Nat,
          before : Nat]
Stored(o) == {heap[o].points[k] : k \in DOMAIN heap[o].points}
                \cup {heap[o].outOfOrderPoints[k] : k \in DOMAIN heap[o].outOfOrderPoints}

(* Every variable stays within its type. *)
TypeOK ==
    /\ numPoints \in Nat /\ minT \in Nat /\ maxT \in Nat /\ once \in BOOLEAN
    /\ metrics \in [Metrics -> Goroutines \cup {None}]
    /\ heap \in [Objects -> Metric]
    /\ local \in [Goroutines -> Local]
    /\ logged \subseteq Writers \X Nat
    /\ DOMAIN result = Readers

(* insertPoint's m.points[size-1] and the closures of selectPoints' binary  *)
(* searches never index past the slice, although size is loaded before the  *)
(* lock is taken and other writers append in between: no run-time panic.    *)
IndexInRange ==
    \A g \in Goroutines :
        pc(g) \in {"lock", "slice"} => local[g].size <= Len(heap[local[g].mt].points)

(* selectPoints' m.points[startIdx:endIdx] is a legal slice expression,     *)
(* even when concurrent writers have left points out of order and the three *)
(* atomics it loads belong to different moments.                            *)
SliceInRange ==
    \A r \in Readers :
        pc(r) = "slice" => StartIdx(r) <= EndIdx(r)

(* Rows older than minT are handed back, not ingested: no stored point is   *)
(* older than the partition's minimum, whichever batch won once.Do.         *)
MinLowerBound ==
    \A o \in Objects : \A p \in Stored(o) : once /\ minT <= p.ts

(* "minT is immutable": after the first batch has set it, it never changes. *)
MinImmutable == [][once => minT' = minT]_vars

(* Write-ahead: a point is in memory only if its row is in the log, and a   *)
(* call that failed to log has stored nothing.                              *)
WriteAhead == \A o \in Objects : \A p \in Stored(o) : p.row \in logged

(* The places where the k-th row of w's batch is held. *)
Places(w, k) ==
    UNION {{<<o, "in order", j>> : j \in {j \in DOMAIN heap[o].points :
                heap[o].points[j].row = <<w, k>>}} \cup
           {<<o, "out of order", j>> : j \in {j \in DOMAIN heap[o].outOfOrderPoints :
                heap[o].outOfOrderPoints[j].row = <<w, k>>}} : o \in Objects}

(* Each row that insertRows accepts is kept in exactly one place, each row  *)
(* it hands back or has not reached in none, whatever the interleaving; and *)
(* size() counts them all once the calls have returned.                     *)
RowKeptOnce ==
    /\ InFlight = {} => numPoints = Cardinality(UNION {Stored(o) : o \in Objects})
    /\ \A w \in Writers : \A k \in DOMAIN local[w].rows :
          LET l == local[w]
              accepted == \/ k < l.i /\ k \notin l.outdated
                          \/ k = l.i /\ l.pc \in {"storeMax", "addSize"}
          IN  Cardinality(Places(w, k)) = IF accepted THEN 1 ELSE 0

(* "points must kept in order": the in-order points of a metric ascend.     *)
PointsInOrder ==
    \A o \in Objects : \A j, k \in DOMAIN heap[o].points :
        j < k => heap[o].points[j].ts < heap[o].points[k].ts

(* "Make max timestamp up-to-date": once a call has returned, maxT covers   *)
(* every row it stored; storage.Select ends its scan by this bound.         *)
MaxCoversReturned ==
    \A o \in Objects : \A p \in Stored(o) :
        pc(p.row[1]) = "returned" => p.ts <= maxT

(* A row of a call that has returned can be found through the metrics map.  *)
ReturnedRowsReachable ==
    \A o \in Objects : \A p \in Stored(o) :
        pc(p.row[1]) = "returned" => metrics[o[2]] = o[1]

(* A select returns every in-order point of [start, end) that was counted   *)
(* when the call began, and nothing outside [start, end].                   *)
SelectExact ==
    \A r \in Readers : pc(r) = "selected" =>
        LET l == local[r]
            ts(k) == heap[l.mt].points[k].ts
            returned == (result[r][1] + 1)..result[r][2]
        IN  /\ \A k \in 1..l.before :
                  l.query.start <= ts(k) /\ ts(k) < l.query.end => k \in returned
            /\ \A k \in returned : l.query.start <= ts(k) /\ ts(k) <= l.query.end

(* encodeAllPoints gives the encoder all points of a metric, in-order and   *)
(* out-of-order ones, exactly once and ascending, after any series of calls *)
(* that did not overlap.                                                    *)
EncodedInOrder ==
    \A o \in Objects : AscendingMerge(heap[o].points, heap[o].outOfOrderPoints)

(* "start is inclusive, end is exclusive" (storage.go, Reader.Select).      *)
EndExclusive ==
    \A r \in Readers : pc(r) = "selected" =>
        \A k \in (result[r][1] + 1)..result[r][2] :
            heap[local[r].mt].points[k].ts < local[r].query.end

=============================================================================
