----------------------- MODULE MemoryPartitionReads ------------------------
(* Theorems about what is read of a memory partition: the slice of a select *)
(* and the rows and their number, for any worker limit; and with a limit of *)
(* one that a select is exact and what encodeAllPoints gives the encoder.   *)
EXTENDS MemoryPartitionSafety, DataLemmas

-----------------------------------------------------------------------------
(* What a select returns *)

(* minTimestamp and maxTimestamp are the first and the last timestamp of    *)
(* points once size says that there are any, and before that for whoever    *)
(* holds the lock.                                                          *)
Extremes(o) ==
    LET m == heap[o]
        last == m.points[Len(m.points)].ts
    IN  /\ Len(m.points) > 0 => m.minTimestamp = m.points[1].ts
        /\ m.size > 0 => m.maxTimestamp = last
        /\ m.mu # None /\ pc(m.mu) = "addSize" => m.maxTimestamp = last
        /\ m.mu # None /\ pc(m.mu) = "storeMax" => m.size = 0 /\ local[m.mu].stamp = last

(* Every counted in-order point of [start, end) is in the slice s, and      *)
(* nothing outside [start, end].                                            *)
Exact(points, n, q, s) ==
    /\ \A k \in 1..n : q.start <= points[k].ts /\ points[k].ts < q.end => k \in (s[1] + 1)..s[2]
    /\ \A k \in (s[1] + 1)..s[2] : q.start <= points[k].ts /\ points[k].ts <= q.end

(* What a select has loaded is still true of the first size points. *)
Loaded(r) ==
    LET l == local[r]
        m == heap[l.mt]
    IN  /\ l.pc # "selected" => result[r] = <<0, 0>>
        /\ l.pc \in {"idle", "selectStore"} => l.before = 0
        /\ l.pc = "selectSize" => l.before <= m.size
        /\ l.pc \in {"selectMin", "selectMax", "slice"} => l.before <= l.size /\ l.size <= m.size
        /\ l.pc \in {"selectMax", "slice"} /\ l.size > 0 => l.lo = m.points[1].ts
        /\ l.pc = "slice" /\ l.size > 0 => m.points[l.size].ts <= l.hi
        /\ l.pc = "selected" =>
              /\ l.mt \in Objects /\ l.before <= Len(m.points)
              /\ result[r][1] \in Nat /\ result[r][2] \in 0..Len(m.points)
              /\ Exact(m.points, l.before, l.query, result[r])

Selecting == (\A o \in Objects : Extremes(o)) /\ (\A r \in Readers : Loaded(r))

(* Points are only appended and counted. *)
Grown(o) ==
    /\ heap[o].size <= heap'[o].size
    /\ Len(heap[o].points) <= Len(heap'[o].points)
    /\ \A k \in 1..Len(heap[o].points) : heap'[o].points[k] = heap[o].points[k]

(* The slice stays or gains a point, and the count does not fall. *)
LEMMA GrownBy ==
    ASSUME NEW o \in Objects, heap[o].size \in Nat, heap[o].points \in Seq(Points),
           heap'[o].size \in {heap[o].size, heap[o].size + 1},
           \/ heap'[o].points = heap[o].points
           \/ \E p \in Points : heap'[o].points = Append(heap[o].points, p)
    PROVE  Grown(o)
BY SMTT(30) DEF Grown

(* append keeps every place and adds one. *)
LEMMA AppendPlaces ==
    ASSUME NEW s \in Seq(Points), NEW p, NEW t, t = Append(s, p)
    PROVE  /\ DOMAIN t = DOMAIN s \cup {Len(s) + 1} /\ t[Len(s) + 1] = p
           /\ \A j \in DOMAIN s : t[j] = s[j]
OBVIOUS

(* The rows of a batch are numbered from 1. *)
LEMMA RowNumbers ==
    ASSUME NEW n \in Nat
    PROVE  1..n \subseteq Nat /\ IsFiniteSet(1..n) /\ Cardinality(1..n) = n
BY FS_Interval

(* The fields of a metric, before and after a step. *)
LEMMA HeapFields ==
    ASSUME NEW h \in [Objects -> Metric], NEW o \in Objects
    PROVE  /\ h[o].size \in Nat /\ h[o].points \in Seq(Points) /\ Len(h[o].points) \in Nat
           /\ h[o].mu # None => h[o].mu \in Writers
<1>1. h[o] \in Metric
  OBVIOUS
<1>2. h[o].size \in Nat /\ h[o].points \in Seq(Points) /\ h[o].mu \in Writers \cup {None}
  BY <1>1 DEF Metric
<1> QED BY <1>2

(* size never overtakes the slice. *)
LEMMA Counted ==
    ASSUME Typed, Bounded, NEW o \in Objects
    PROVE  heap[o].size <= Len(heap[o].points)
<1>1. heap[o].size \in Nat /\ Len(heap[o].points) \in Nat
  BY HeapFields DEF Typed, TypeOK
<1>2. heap[o].size + (IF heap[o].mu = None THEN 0 ELSE 1) <= Len(heap[o].points)
  BY DEF Bounded, SizeTrails
<1> QED BY <1>1, <1>2

(* The steps of insertPoint's critical sections keep the extremes. *)
LEMMA HeapExtremes ==
    ASSUME Typed, Bounded, Serial, \A o \in Objects : Extremes(o),
           NEW w \in Writers, HeapStep(w)
    PROVE  \A o \in Objects : Extremes(o)' /\ Grown(o)
<1>1. /\ local[w].mt \in Objects /\ w \in Goroutines /\ w # None
      /\ heap[local[w].mt] \in Metric /\ local[w] \in Local
      /\ \A p \in Objects : p # local[w].mt => heap'[p] = heap[p]
      /\ \A g \in Goroutines : g # w => local'[g] = local[g]
  BY HeapStepFacts, Zenon
<1>x. PICK x \in Objects : x = local[w].mt
  BY <1>1, Zenon
<1>t. heap \in [Objects -> Metric] /\ local \in [Goroutines -> Local]
  BY Zenon DEF Typed, TypeOK
<1>p. Point(w) \in Points /\ Point(w).ts = local[w].stamp
  BY <1>1, LocalFields, Zenon DEF Point, Points
<1>2. /\ heap[x].points \in Seq(Points) /\ heap[x].size \in Nat
      /\ Len(heap[x].points) = heap[x].size + (IF heap[x].mu = None THEN 0 ELSE 1)
      /\ Extremes(x)
  BY <1>1, <1>x, Zenon DEF Metric, Serial, SizeExact
<1>3. pc(w) \in {"storeMax", "addSize"} => heap[x].mu = w
  BY <1>x DEF Bounded, LockHeld, Mt
<1>4. pc(w) = "lock" => local[w].size = Len(heap[x].points)
  BY <1>x, Zenon DEF Serial, Fresh, Mt
<1>5. ASSUME NEW o \in Objects, o # x PROVE Extremes(o)' /\ Grown(o)
  <2>1. heap'[o] = heap[o] /\ Extremes(o)
    BY <1>1, <1>5, <1>x, Zenon
  <2>2. heap[o].mu # None => heap[o].mu \in Goroutines /\ heap[o].mu # w
    <3>1. heap[o].mu # None => heap[o].mu \in Goroutines
      BY <1>t, HeapFields, Zenon DEF Goroutines
    <3> QED BY <1>5, <1>x, <3>1, Zenon DEF Bounded, LockHeld
  <2>3. heap[o].mu # None => local'[heap[o].mu] = local[heap[o].mu]
    BY <1>1, <2>2
  <2>4. heap[o].size \in Nat /\ Len(heap[o].points) \in Nat
    BY <1>t, HeapFields
  <2> QED BY <2>1, <2>3, <2>4, SMTT(30) DEF Extremes, Grown, pc
<1>6. Extremes(x)' /\ Grown(x)
  <2> DEFINE s == heap[x].points
             t == Append(s, Point(w))
  <2>0. /\ Len(s) \in Nat /\ Len(t) = Len(s) + 1 /\ t[Len(t)] = Point(w)
        /\ \A k \in 1..Len(s) : t[k] = s[k]
    BY <1>2, <1>p
  <2>1. CASE FirstInsertion(w)
    <3>1. /\ heap'[x].points = t /\ heap'[x].mu = w /\ heap'[x].size = heap[x].size
          /\ heap'[x].minTimestamp = local[w].stamp
          /\ local'[w].pc = "storeMax" /\ local'[w].stamp = local[w].stamp
      BY <2>1, <1>1, <1>t, <1>x, Zenon DEF FirstInsertion, Update, Continue, Mt, Metric, Local
    <3>2. heap[x].mu = None /\ Len(s) = 0
      BY <2>1, <1>4, <1>x, Zenon DEF FirstInsertion, Mt
    <3>3. heap[x].size = 0
      BY <1>2, <3>2
    <3> HIDE DEF s, t
    <3>4. Len(t) = 1 /\ t[1].ts = local[w].stamp
      BY <1>p, <2>0, <3>2, SMTT(30)
    <3>5. Extremes(x)'
      <4>1. ~ (0 > 0)
        BY SMT
      <4> QED BY <1>1, <3>1, <3>3, <3>4, <4>1, Zenon DEF Extremes, pc
    <3>6. Grown(x)
      BY <1>2, <1>p, <3>1, GrownBy, Zenon DEF s, t
    <3> QED BY <3>5, <3>6, Zenon
  <2>2. CASE StoreMaxTimestamp(w)
    <3>1. /\ heap'[x].points = s /\ heap'[x].mu = heap[x].mu /\ heap'[x].size = heap[x].size
          /\ heap'[x].minTimestamp = heap[x].minTimestamp
          /\ heap'[x].maxTimestamp = local[w].stamp
          /\ local'[w].pc = "addSize"
      BY <2>2, <1>1, <1>t, <1>x, Zenon DEF StoreMaxTimestamp, Update, Continue, Mt, Metric, Local
    <3>2. heap[x].mu = w /\ pc(w) = "storeMax"
      BY <2>2, <1>3, Zenon DEF StoreMaxTimestamp
    <3>3. Extremes(x)'
      BY <1>1, <1>2, <2>0, <3>1, <3>2, Zenon DEF Extremes, pc
    <3>4. Grown(x)
      BY <1>2, <3>1, GrownBy, Zenon
    <3> QED BY <3>3, <3>4, Zenon
  <2>3. CASE InsertInOrder(w)
    <3>1. /\ heap'[x].points = t /\ heap'[x].mu = w /\ heap'[x].size = heap[x].size
          /\ heap'[x].minTimestamp = heap[x].minTimestamp
          /\ heap'[x].maxTimestamp = local[w].stamp
          /\ local'[w].pc = "addSize"
      BY <2>3, <1>1, <1>t, <1>x, Zenon DEF InsertInOrder, Update, Continue, Mt, Metric, Local
    <3>2. Len(s) # 0
      BY <2>3, <1>4, Zenon DEF InsertInOrder
    <3> HIDE DEF t
    <3>3. Len(s) > 0 /\ Len(t) > 0 /\ t[1] = s[1] /\ t[Len(t)].ts = local[w].stamp
      BY <1>p, <2>0, <3>2, SMTT(30)
    <3>4. Extremes(x)'
      BY <1>1, <1>2, <3>1, <3>3, Zenon DEF Extremes, pc
    <3>5. Grown(x)
      BY <1>2, <1>p, <3>1, GrownBy, Zenon DEF t
    <3> QED BY <3>4, <3>5, Zenon
  <2>4. CASE AddSize(w)
    <3>1. /\ heap'[x].points = s /\ heap'[x].mu = None /\ heap'[x].size = heap[x].size + 1
          /\ heap'[x].minTimestamp = heap[x].minTimestamp
          /\ heap'[x].maxTimestamp = heap[x].maxTimestamp
      BY <2>4, <1>1, <1>t, <1>x, Zenon DEF AddSize, Update, Continue, Mt, Metric, Local
    <3>2. heap[x].mu = w /\ pc(w) = "addSize"
      BY <2>4, <1>3, Zenon DEF AddSize
    <3>3. Extremes(x)'
      BY <1>1, <1>2, <2>0, <3>1, <3>2, Zenon DEF Extremes, pc
    <3>4. Grown(x)
      BY <1>2, <3>1, GrownBy, Zenon
    <3> QED BY <3>3, <3>4, Zenon
  <2>5. CASE InsertOutOfOrder(w)
    <3>1. /\ heap'[x].points = s /\ heap'[x].mu = heap[x].mu /\ heap'[x].size = heap[x].size
          /\ heap'[x].minTimestamp = heap[x].minTimestamp
          /\ heap'[x].maxTimestamp = heap[x].maxTimestamp
      BY <2>5, <1>1, <1>t, <1>x, Zenon DEF InsertOutOfOrder, Update, Continue, Mt, Metric, Local
    <3>2. heap[x].mu = None
      BY <2>5, <1>x DEF InsertOutOfOrder, Mt
    <3> QED BY <1>2, <2>0, <3>1, <3>2, SMTT(30) DEF Extremes, Grown
  <2> QED BY <2>1, <2>2, <2>3, <2>4, <2>5, Zenon DEF HeapStep
<1> QED BY <1>5, <1>6

(* The other steps of Next leave the metrics alone and the goroutine        *)
(* outside the critical sections.                                           *)
LEMMA QuietExtremes ==
    ASSUME Typed, Typed', Bounded, \A o \in Objects : Extremes(o), NEW g \in Goroutines,
           \/ g \in Writers /\ WriterStep(g) /\ ~HeapStep(g)
           \/ g \in Readers /\ ReaderStep(g)
    PROVE  \A o \in Objects : Extremes(o)' /\ Grown(o)
<1>1. UNCHANGED heap /\ Continue(g, local'[g]) /\ pc(g) \notin {"storeMax", "addSize"}
  BY QuietStep, SMTT(30)
<1>t. heap \in [Objects -> Metric] /\ local \in [Goroutines -> Local]
  BY Zenon DEF Typed, TypeOK
<1>2. ASSUME NEW o \in Objects PROVE Extremes(o)' /\ Grown(o)
  <2>1. heap[o].mu # None => heap[o].mu \in Goroutines /\ heap[o].mu # g
    <3>1. heap[o].mu # None => heap[o].mu \in Goroutines
      BY <1>t, HeapFields, Zenon DEF Goroutines
    <3>2. heap[o].mu # None => pc(heap[o].mu) \in {"storeMax", "addSize"}
      BY DEF Bounded, LockHeld
    <3> QED BY <1>1, <3>1, <3>2, Zenon
  <2>2. heap[o].mu # None => local'[heap[o].mu] = local[heap[o].mu]
    BY <1>1, <1>t, <2>1, Zenon DEF Continue
  <2>3. heap[o].size \in Nat /\ Len(heap[o].points) \in Nat
    BY <1>t, HeapFields, Zenon
  <2> QED BY <1>1, <2>2, <2>3, SMTT(30) DEF Extremes, Grown, pc
<1> QED BY <1>2

(* A select that does not step keeps what it has loaded while points grow.  *)
LEMMA StillLoaded ==
    ASSUME Typed, Typed', Bounded, NEW r \in Readers, Loaded(r), \A o \in Objects : Grown(o),
           local'[r] = local[r], result'[r] = result[r]
    PROVE  Loaded(r)'
<1> DEFINE l == local[r]
<1>1. l \in Local /\ Ready(l) /\ l.size \in Nat /\ l.before \in Nat
  BY LocalFields, Zenon DEF Typed, TypeOK, LocalsReady, Goroutines, Local
<1>2. CASE l.mt \in Objects
  <2>1. PICK o \in Objects : o = l.mt
    BY <1>2, Zenon
  <2>2. /\ Grown(o) /\ heap[o].size \in Nat /\ heap'[o].size \in Nat
        /\ Len(heap[o].points) \in Nat /\ Len(heap'[o].points) \in Nat
        /\ heap[o].size <= Len(heap[o].points)
    BY HeapFields, Counted, Zenon DEF Typed, TypeOK
  <2>3. ASSUME l.pc = "selected" PROVE Exact(heap'[o].points, l.before, l.query, result[r])
    <3>1. /\ Exact(heap[o].points, l.before, l.query, result[r])
          /\ l.before <= Len(heap[o].points)
          /\ result[r][1] \in Nat /\ result[r][2] \in 0..Len(heap[o].points)
      BY <2>1, <2>3, SMTT(30) DEF Loaded
    <3>2. \A k \in 1..l.before : heap'[o].points[k] = heap[o].points[k]
      BY <1>1, <2>2, <3>1, SMTT(30) DEF Grown
    <3>3. \A k \in (result[r][1] + 1)..result[r][2] : heap'[o].points[k] = heap[o].points[k]
      BY <2>2, <3>1, SMTT(30) DEF Grown
    <3> QED BY <3>1, <3>2, <3>3, Zenon DEF Exact
  <2>4. l.pc \in {"selectMin", "selectMax", "slice"} /\ l.size > 0 =>
           /\ heap'[o].points[1] = heap[o].points[1]
           /\ heap'[o].points[l.size] = heap[o].points[l.size]
    <3>1. SUFFICES ASSUME l.pc \in {"selectMin", "selectMax", "slice"}, l.size > 0
                   PROVE  1 \in 1..Len(heap[o].points) /\ l.size \in 1..Len(heap[o].points)
      BY <2>2, Zenon DEF Grown
    <3>2. l.size <= heap[o].size
      BY <2>1, <3>1, Zenon DEF Loaded
    <3> QED BY <1>1, <2>2, <3>1, <3>2, SMTT(30)
  <2>5. heap[o].size <= heap'[o].size /\ Len(heap[o].points) <= Len(heap'[o].points)
    BY <2>2, Zenon DEF Grown
  <2>6. /\ l.pc = "selectSize" => l.before <= heap'[o].size
        /\ l.pc \in {"selectMin", "selectMax", "slice"} => l.before <= l.size /\ l.size <= heap'[o].size
    <3>1. /\ l.pc = "selectSize" => l.before <= heap[o].size
          /\ l.pc \in {"selectMin", "selectMax", "slice"} => l.before <= l.size /\ l.size <= heap[o].size
      BY <2>1, Zenon DEF Loaded
    <3> HIDE DEF l
    <3> QED BY <1>1, <2>2, <2>5, <3>1, SMTT(30)
  <2>7. l.pc = "selected" =>
           /\ l.before <= Len(heap'[o].points)
           /\ result[r][1] \in Nat /\ result[r][2] \in 0..Len(heap'[o].points)
    <3>1. l.pc = "selected" =>
             /\ l.before <= Len(heap[o].points)
             /\ result[r][1] \in Nat /\ result[r][2] \in 0..Len(heap[o].points)
      BY <2>1, Zenon DEF Loaded
    <3> QED BY <1>1, <2>2, <2>5, <3>1, SMTT(30)
  <2> QED BY <2>1, <2>3, <2>4, <2>6, <2>7, Zenon DEF Loaded
<1>3. CASE l.mt \notin Objects
  BY <1>1, <1>3, Zenon DEF Ready, UsesMetric, Loaded
<1> QED BY <1>2, <1>3, Zenon

-----------------------------------------------------------------------------
(* sort.Search *)

Cursors(n) == (0..n) \X (0..n)

(* One round of the search, look being what the rest of it finds. *)
Halve(f, look, c) ==
    LET h == (c[1] + c[2]) \div 2
    IN  IF c[1] >= c[2] THEN c[1]
        ELSE IF f[h] THEN look[<<c[1], h>>] ELSE look[<<h + 1, c[2]>>]

Look(n, f) == CHOOSE look : look = [c \in Cursors(n) |-> Halve(f, look, c)]

(* The search is the recursive function Look at the whole interval. *)
LEMMA SearchLook ==
    ASSUME NEW n \in Nat, NEW f
    PROVE  Search(n, f) = Look(n, f)[<<0, n>>] /\ <<0, n>> \in Cursors(n)
BY DEF Search, Look, Halve, Cursors

(* The middle of an interval that is not empty is in it. *)
LEMMA Middle ==
    ASSUME NEW lo \in Nat, NEW hi \in Nat, lo < hi
    PROVE  (lo + hi) \div 2 \in lo..(hi - 1)
OBVIOUS

Width(n) == [c \in Cursors(n) |-> IF c[1] < c[2] THEN c[2] - c[1] ELSE 0]

(* Each round leaves an interval that is smaller. *)
LEMMA Narrower ==
    ASSUME NEW n \in Nat, NEW c \in Cursors(n), c[1] < c[2]
    PROVE  LET h == (c[1] + c[2]) \div 2
           IN  /\ h \in c[1]..(c[2] - 1)
               /\ <<c[1], h>> \in Cursors(n) /\ Width(n)[<<c[1], h>>] < Width(n)[c]
               /\ <<h + 1, c[2]>> \in Cursors(n) /\ Width(n)[<<h + 1, c[2]>>] < Width(n)[c]
<1>1. c[1] \in 0..n /\ c[2] \in 0..n
  BY DEF Cursors
<1>2. PICK h \in Nat : h = (c[1] + c[2]) \div 2 /\ h \in c[1]..(c[2] - 1)
  BY <1>1, Middle
<1>3. <<c[1], h>> \in Cursors(n) /\ <<h + 1, c[2]>> \in Cursors(n)
  BY <1>1, <1>2 DEF Cursors
<1>4. Width(n)[<<c[1], h>>] < Width(n)[c] /\ Width(n)[<<h + 1, c[2]>>] < Width(n)[c]
  BY <1>1, <1>2, <1>3 DEF Width
<1> QED BY <1>2, <1>3, <1>4, Zenon

(* So the search ends: Look is what its definition says. *)
LEMMA LookDef ==
    ASSUME NEW n \in Nat, NEW f
    PROVE  \A c \in Cursors(n) : Look(n, f)[c] = Halve(f, Look(n, f), c)
<1> DEFINE D == Cursors(n)
           V == 0..n
           F == [p \in [D -> V] \X D |-> Halve(f, p[1], p[2])]
<1>1. \A c \in D : c[1] \in 0..n /\ c[2] \in 0..n
  BY DEF Cursors
<1>2. Width(n) \in [D -> 0..n]
  BY <1>1 DEF Width
<1>3. ASSUME NEW g \in [D -> V], NEW c \in D PROVE Halve(f, g, c) \in V
  <2> HIDE DEF D, V, F
  <2>1. CASE c[1] < c[2]
    BY <1>1, <2>1, Narrower, Zenon DEF Halve, D, V
  <2>2. CASE ~ (c[1] < c[2])
    BY <1>1, <2>2 DEF Halve, V
  <2> QED BY <2>1, <2>2, Zenon
<1>4. F \in [[D -> V] \X D -> V]
  BY <1>3
<1>5. ASSUME NEW g \in [D -> V], NEW h \in [D -> V], NEW c \in D,
             AgreeBelow(D, Width(n), g, h, c)
      PROVE  F[<<g, c>>] = F[<<h, c>>]
  <2>1. Halve(f, g, c) = Halve(f, h, c)
    <3> HIDE DEF V, F
    <3>1. CASE c[1] < c[2]
      <4>1. \A d \in D : Width(n)[d] < Width(n)[c] => g[d] = h[d]
        BY <1>5, Zenon DEF AgreeBelow
      <4> QED BY <3>1, <4>1, Narrower, Zenon DEF Halve
    <3>2. CASE ~ (c[1] < c[2])
      BY <1>1, <3>2 DEF Halve
    <3> QED BY <3>1, <3>2, Zenon
  <2> QED BY <2>1
<1>6. PICK g \in [D -> V] : \A c \in D : g[c] = F[<<g, c>>]
  <2> HIDE DEF D, V, F
  <2>1. V # {}
    BY DEF V
  <2>2. \A g, h \in [D -> V] : \A c \in D :
           AgreeBelow(D, Width(n), g, h, c) => F[<<g, c>>] = F[<<h, c>>]
    BY <1>5
  <2>3. Recursive(D, V, Width(n), F)
    BY <1>4, <2>1, <2>2, Zenon DEF Recursive
  <2>4. Solvable(D, V, F)
    BY <1>2, <2>3, RecursionSolvable, Zenon
  <2> QED BY <2>4, Zenon DEF Solvable
<1>7. \A c \in D : g[c] = Halve(f, g, c)
  BY <1>6, Zenon
<1>8. g = [c \in D |-> Halve(f, g, c)]
  BY <1>7
<1>9. Look(n, f) = [c \in D |-> Halve(f, Look(n, f), c)]
  BY <1>8, Zenon DEF Look
<1> QED BY <1>9

(* The interval c is cut at h, where the search asks f. *)
CutAt(n, c, h) ==
    LET a == <<c[1], h>>
        b == <<h + 1, c[2]>>
    IN  /\ a \in Cursors(n) /\ Width(n)[a] < Width(n)[c] /\ a[1] <= a[2]
        /\ b \in Cursors(n) /\ Width(n)[b] < Width(n)[c] /\ b[1] <= b[2]
        /\ \A f : Look(n, f)[c] = IF f[h] THEN Look(n, f)[a] ELSE Look(n, f)[b]

(* A round of the search: it is over, or the interval is cut. *)
LEMMA LookStep ==
    ASSUME NEW n \in Nat, NEW c \in Cursors(n), c[1] <= c[2]
    PROVE  \/ c[1] = c[2] /\ \A f : Look(n, f)[c] = c[1]
           \/ \E h \in c[1]..(c[2] - 1) : CutAt(n, c, h)
<1>1. c[1] \in 0..n /\ c[2] \in 0..n
  BY DEF Cursors
<1>2. \A f : Look(n, f)[c] = Halve(f, Look(n, f), c)
  BY LookDef
<1>3. CASE c[1] = c[2]
  BY <1>1, <1>2, <1>3, Zenon DEF Halve
<1>4. CASE c[1] < c[2]
  <2>1. PICK h \in c[1]..(c[2] - 1) : h = (c[1] + c[2]) \div 2
    BY <1>1, <1>4, Middle
  <2>2. c[1] <= h /\ h + 1 <= c[2]
    BY <1>1, <2>1
  <2>3. /\ <<c[1], h>> \in Cursors(n) /\ Width(n)[<<c[1], h>>] < Width(n)[c]
        /\ <<h + 1, c[2]>> \in Cursors(n) /\ Width(n)[<<h + 1, c[2]>>] < Width(n)[c]
    BY <1>4, <2>1, Narrower, Zenon
  <2>4. \A f : Look(n, f)[c] = IF f[h] THEN Look(n, f)[<<c[1], h>>] ELSE Look(n, f)[<<h + 1, c[2]>>]
    BY <1>1, <1>2, <1>4, <2>1 DEF Halve
  <2>5. CutAt(n, c, h)
    BY <2>2, <2>3, <2>4, Zenon DEF CutAt
  <2> QED BY <2>5
<1>5. c[1] = c[2] \/ c[1] < c[2]
  BY <1>1
<1> QED BY <1>3, <1>4, <1>5, Zenon

(* What holds of every interval because it holds of the narrower ones. *)
LEMMA IntervalInduction ==
    ASSUME NEW n \in Nat, NEW P \in SUBSET Cursors(n),
           \A c \in Cursors(n) :
               (\A d \in Cursors(n) : Width(n)[d] < Width(n)[c] => d \in P) => c \in P
    PROVE  P = Cursors(n)
<1>1. Width(n) \in [Cursors(n) -> Nat]
  BY DEF Width, Cursors
<1> QED BY <1>1, RankInduction

(* The search stays within its interval. *)
LEMMA LookRange ==
    ASSUME NEW n \in Nat, NEW f
    PROVE  \A c \in Cursors(n) : c[1] <= c[2] => Look(n, f)[c] \in c[1]..c[2]
<1> DEFINE P == {c \in Cursors(n) : c[1] <= c[2] => Look(n, f)[c] \in c[1]..c[2]}
<1>1. ASSUME NEW c \in Cursors(n),
             \A d \in Cursors(n) : Width(n)[d] < Width(n)[c] => d \in P
      PROVE  c \in P
  <2>1. SUFFICES ASSUME c[1] <= c[2] PROVE Look(n, f)[c] \in c[1]..c[2]
    OBVIOUS
  <2>2. c[1] \in 0..n /\ c[2] \in 0..n
    BY DEF Cursors
  <2>3. CASE c[1] = c[2] /\ Look(n, f)[c] = c[1]
    BY <2>2, <2>3
  <2>4. ASSUME NEW h \in c[1]..(c[2] - 1), CutAt(n, c, h)
        PROVE  Look(n, f)[c] \in c[1]..c[2]
    <3>1. Look(n, f)[<<c[1], h>>] \in c[1]..h /\ Look(n, f)[<<h + 1, c[2]>>] \in (h + 1)..c[2]
      BY <1>1, <2>4, Zenon DEF CutAt
    <3>2. Look(n, f)[<<c[1], h>>] \in c[1]..c[2] /\ Look(n, f)[<<h + 1, c[2]>>] \in c[1]..c[2]
      BY <2>2, <3>1
    <3> QED BY <2>4, <3>2, Zenon DEF CutAt
  <2> QED BY <2>1, <2>3, <2>4, LookStep, Zenon
<1>2. P = Cursors(n)
  <2>1. P \in SUBSET Cursors(n)
    OBVIOUS
  <2> HIDE DEF P
  <2> QED BY <1>1, <2>1, IntervalInduction, Zenon
<1> QED BY <1>2, Zenon

(* The index sort.Search returns is one of 0..n. *)
LEMMA SearchRange ==
    ASSUME NEW n \in Nat, NEW f PROVE Search(n, f) \in 0..n
<1>1. Look(n, f)[<<0, n>>] \in (<<0, n>>[1])..(<<0, n>>[2])
  BY SearchLook, LookRange
<1> QED BY <1>1, SearchLook, Zenon

(* A predicate that is true at more places is found no later, even when it  *)
(* is not monotone: the two searches go the same way until only the weaker  *)
(* predicate holds, and from there on they are in different halves.         *)
LEMMA SearchMonotone ==
    ASSUME NEW n \in Nat, NEW f, NEW g, \A k \in 0..(n - 1) : g[k] => f[k]
    PROVE  Search(n, f) <= Search(n, g)
<1> DEFINE P == {c \in Cursors(n) : c[1] <= c[2] => Look(n, f)[c] <= Look(n, g)[c]}
<1>1. ASSUME NEW c \in Cursors(n),
             \A d \in Cursors(n) : Width(n)[d] < Width(n)[c] => d \in P
      PROVE  c \in P
  <2>1. SUFFICES ASSUME c[1] <= c[2] PROVE Look(n, f)[c] <= Look(n, g)[c]
    OBVIOUS
  <2>2. c[1] \in 0..n /\ c[2] \in 0..n
    BY DEF Cursors
  <2>3. CASE \A e : Look(n, e)[c] = c[1]
    BY <2>2, <2>3
  <2>4. ASSUME NEW h \in c[1]..(c[2] - 1), CutAt(n, c, h)
        PROVE  Look(n, f)[c] <= Look(n, g)[c]
    <3>1. /\ Look(n, f)[<<c[1], h>>] <= Look(n, g)[<<c[1], h>>]
          /\ Look(n, f)[<<h + 1, c[2]>>] <= Look(n, g)[<<h + 1, c[2]>>]
      BY <1>1, <2>4, Zenon DEF CutAt
    <3>2. /\ Look(n, f)[<<c[1], h>>] \in c[1]..h
          /\ Look(n, g)[<<h + 1, c[2]>>] \in (h + 1)..c[2]
      BY <2>4, LookRange, Zenon DEF CutAt
    <3>3. g[h] => f[h]
      BY <2>2, <2>4
    <3>4. Look(n, f)[<<c[1], h>>] <= Look(n, g)[<<h + 1, c[2]>>]
      BY <2>2, <2>4, <3>2
    <3> QED BY <2>4, <3>1, <3>3, <3>4, SMTT(30) DEF CutAt
  <2> QED BY <2>1, <2>3, <2>4, LookStep, Zenon
<1>2. P = Cursors(n)
  <2>1. P \in SUBSET Cursors(n)
    OBVIOUS
  <2> HIDE DEF P
  <2> QED BY <1>1, <2>1, IntervalInduction, Zenon
<1>3. Look(n, f)[<<0, n>>] <= Look(n, g)[<<0, n>>]
  BY <1>2, SearchLook
<1> QED BY <1>3, SearchLook, Zenon

(* On a monotone predicate the search finds the first place where it holds. *)
LEMMA SearchFirst ==
    ASSUME NEW n \in Nat, NEW f, \A j, k \in 0..(n - 1) : j <= k /\ f[j] => f[k]
    PROVE  \A k \in 0..(n - 1) : Search(n, f) <= k <=> f[k]
<1> DEFINE Found(c) == \A k \in c[1]..(c[2] - 1) : Look(n, f)[c] <= k <=> f[k]
           P == {c \in Cursors(n) : c[1] <= c[2] => Found(c)}
<1>1. ASSUME NEW c \in Cursors(n),
             \A d \in Cursors(n) : Width(n)[d] < Width(n)[c] => d \in P
      PROVE  c \in P
  <2>1. SUFFICES ASSUME c[1] <= c[2] PROVE Found(c)
    OBVIOUS
  <2>2. c[1] \in 0..n /\ c[2] \in 0..n
    BY DEF Cursors
  <2>3. CASE c[1] = c[2]
    BY <2>2, <2>3
  <2>4. ASSUME NEW h \in c[1]..(c[2] - 1), CutAt(n, c, h), NEW k \in c[1]..(c[2] - 1)
        PROVE  Look(n, f)[c] <= k <=> f[k]
    <3>1. /\ Look(n, f)[<<c[1], h>>] \in c[1]..h
          /\ Look(n, f)[<<h + 1, c[2]>>] \in (h + 1)..c[2]
      BY <2>4, LookRange, Zenon DEF CutAt
    <3>2. Found(<<c[1], h>>) /\ Found(<<h + 1, c[2]>>)
      BY <1>1, <2>4, Zenon DEF CutAt
    <3>3. CASE f[h]
      <4>1. Look(n, f)[c] = Look(n, f)[<<c[1], h>>]
        BY <2>4, <3>3, Zenon DEF CutAt
      <4>2. CASE k < h
        <5>1. k \in (<<c[1], h>>[1])..(<<c[1], h>>[2] - 1)
          BY <2>2, <2>4, <4>2
        <5> QED BY <3>2, <4>1, <5>1, Zenon
      <4>3. CASE k >= h
        BY <2>2, <2>4, <3>1, <3>3, <4>1, <4>3, SMTT(30)
      <4> QED BY <2>2, <2>4, <4>2, <4>3
    <3>4. CASE ~ f[h]
      <4>1. Look(n, f)[c] = Look(n, f)[<<h + 1, c[2]>>]
        BY <2>4, <3>4, Zenon DEF CutAt
      <4>2. CASE k > h
        <5>1. k \in (<<h + 1, c[2]>>[1])..(<<h + 1, c[2]>>[2] - 1)
          BY <2>2, <2>4, <4>2
        <5> QED BY <3>2, <4>1, <5>1, Zenon
      <4>3. CASE k <= h
        BY <2>2, <2>4, <3>1, <3>4, <4>1, <4>3, SMTT(30)
      <4> QED BY <2>2, <2>4, <4>2, <4>3
    <3> QED BY <3>3, <3>4, Zenon
  <2> QED BY <2>1, <2>3, <2>4, LookStep, Zenon
<1>2. P = Cursors(n)
  <2>1. P \in SUBSET Cursors(n)
    OBVIOUS
  <2> HIDE DEF P
  <2> QED BY <1>1, <2>1, IntervalInduction, Zenon
<1>3. Found(<<0, n>>)
  BY <1>2, SearchLook
<1> QED BY <1>3, SearchLook, Zenon

(* The bounds of the slice selectPoints is about to take are in order. *)
LEMMA SliceLegal ==
    ASSUME Typed, Bounded, NEW r \in Readers, pc(r) = "slice"
    PROVE  StartIdx(r) <= EndIdx(r)
<1> DEFINE n == local[r].size
           q == local[r].query
           late(t) == [k \in 0..n - 1 |-> Mt(r).points[k + 1].ts >= t]
<1>1. r \in Goroutines /\ local[r] \in Local /\ Ready(local[r])
  BY Zenon DEF Goroutines, Typed, TypeOK, LocalsReady
<1>2. n \in Nat /\ n <= Len(Mt(r).points) /\ local[r].mt \in Objects
  BY <1>1, LocalFields, Zenon DEF Bounded, LocalSizeTrails, Ready, UsesMetric, pc
<1>3. q.start \in Int /\ q.end \in Int /\ q.start < q.end
  <2>1. q \in Queries
    BY <1>1, Zenon DEF Ready, InSelect, pc
  <2> QED BY <2>1, QueriesAssumption, Zenon
<1>4. \A k \in 0..(n - 1) : Mt(r).points[k + 1].ts \in Nat
  <2>1. Mt(r).points \in Seq(Points)
    BY <1>2, Zenon DEF Mt, Typed, TypeOK, Metric
  <2>2. \A k \in 0..(n - 1) : k + 1 \in 1..Len(Mt(r).points)
    BY <1>2, <2>1
  <2>3. \A k \in 0..(n - 1) : Mt(r).points[k + 1] \in Points
    BY <2>1, <2>2
  <2> QED BY <2>3, Zenon DEF Points
<1>5. ASSUME NEW k \in 0..(n - 1), late(q.end)[k]
      PROVE  late(q.start)[k]
  <2>1. Mt(r).points[k + 1].ts >= q.end
    BY <1>5, Zenon
  <2>2. Mt(r).points[k + 1].ts >= q.start
    BY <1>3, <1>4, <2>1
  <2> QED BY <2>2, Zenon
<1>6. /\ FirstNotBefore(r, q.start) = Search(n, late(q.start))
      /\ FirstNotBefore(r, q.end) = Search(n, late(q.end))
  BY Zenon DEF FirstNotBefore
<1> HIDE DEF late
<1>7. /\ Search(n, late(q.start)) <= Search(n, late(q.end))
      /\ Search(n, late(q.start)) \in 0..n /\ Search(n, late(q.end)) \in 0..n
  BY <1>2, <1>5, SearchMonotone, SearchRange, Zenon
<1> QED BY <1>2, <1>6, <1>7 DEF StartIdx, EndIdx

(* No select ever slices points with a start behind its end, whatever       *)
(* WorkersLimit is: concurrent writers may leave points out of order, and   *)
(* the size, minimum and maximum a reader has loaded may belong to          *)
(* different moments.                                                       *)
THEOREM SliceAlwaysInRange == Spec => []SliceInRange
<1>1. Typed /\ Bounded => SliceInRange
  BY SliceLegal, Zenon DEF SliceInRange
<1> QED BY <1>1, TypedAlways, BoundedAlways, PTL

-----------------------------------------------------------------------------
(* A select with one writer at a time *)

(* The slice a select takes is exact: points ascend, so both binary         *)
(* searches find the first point that is not before the bound, and the      *)
(* shortcuts through lo and hi agree with them.                             *)
LEMMA SliceExact ==
    ASSUME Typed, Bounded, Serial, NEW r \in Readers, Loaded(r), pc(r) = "slice"
    PROVE  /\ Exact(Mt(r).points, local[r].before, local[r].query, <<StartIdx(r), EndIdx(r)>>)
           /\ StartIdx(r) \in Nat /\ EndIdx(r) \in 0..Len(Mt(r).points)
<1> DEFINE n == local[r].size
           q == local[r].query
           ts(k) == Mt(r).points[k].ts
           late(t) == [k \in 0..n - 1 |-> Mt(r).points[k + 1].ts >= t]
<1>1. r \in Goroutines /\ local[r] \in Local /\ Ready(local[r])
  BY Zenon DEF Goroutines, Typed, TypeOK, LocalsReady
<1>2. /\ n \in Nat /\ n <= Len(Mt(r).points) /\ local[r].mt \in Objects
      /\ local[r].lo \in Nat /\ local[r].hi \in Nat /\ Len(Mt(r).points) \in Nat
  BY <1>1, LocalFields DEF Bounded, LocalSizeTrails, Ready, UsesMetric, pc, Mt, Typed, TypeOK, Metric
<1>3. q.start \in Int /\ q.end \in Int /\ q.start < q.end
  <2>1. q \in Queries
    BY <1>1, Zenon DEF Ready, InSelect, pc
  <2> QED BY <2>1, QueriesAssumption, Zenon
<1>4. \A k \in 1..n : ts(k) \in Nat /\ k \in DOMAIN Mt(r).points
  <2>1. Mt(r).points \in Seq(Points)
    BY <1>2, Zenon DEF Mt, Typed, TypeOK, Metric
  <2>2. \A k \in 1..n : k \in 1..Len(Mt(r).points)
    BY <1>2, <2>1, SMTT(30)
  <2>3. \A k \in 1..n : Mt(r).points[k] \in Points
    BY <2>1, <2>2, SMTT(30)
  <2> QED BY <2>1, <2>2, <2>3, SMTT(30) DEF Points
<1>5. \A j, k \in 1..n : j < k => ts(j) < ts(k)
  BY <1>2, <1>4, Zenon DEF Serial, PointsInOrder, Mt
<1>6. ASSUME NEW t \in Int
      PROVE  /\ FirstNotBefore(r, t) \in 0..n
             /\ \A k \in 1..n : FirstNotBefore(r, t) < k <=> ts(k) >= t
  <2>1. FirstNotBefore(r, t) = Search(n, late(t))
    BY DEF FirstNotBefore
  <2>2. \A k \in 0..(n - 1) : late(t)[k] <=> ts(k + 1) >= t
    BY Zenon
  <2>3. \A k \in 0..(n - 1) : k + 1 \in 1..n /\ ts(k + 1) \in Nat
    BY <1>2, <1>4
  <2>4. ASSUME NEW j \in 0..(n - 1), NEW k \in 0..(n - 1), j <= k, late(t)[j]
        PROVE  late(t)[k]
    <3>1. ts(j + 1) >= t
      BY <2>2, <2>4, Zenon
    <3>2. ts(j + 1) <= ts(k + 1)
      <4>1. CASE j = k
        BY <2>3, <4>1, SMTT(30)
      <4>2. CASE j < k
        <5>1. j + 1 < k + 1
          BY <4>2
        <5>2. ts(j + 1) < ts(k + 1)
          BY <1>5, <2>3, <5>1, Zenon
        <5> QED BY <2>3, <5>2
      <4> QED BY <2>4, <4>1, <4>2, SMTT(30)
    <3>3. ts(k + 1) >= t
      BY <2>3, <3>1, <3>2, SMTT(30)
    <3> QED BY <2>2, <3>3, Zenon
  <2> HIDE DEF late
  <2>5. Search(n, late(t)) \in 0..n
    BY <1>2, SearchRange, Zenon
  <2>6. \A k \in 0..(n - 1) : Search(n, late(t)) <= k <=> late(t)[k]
    BY <1>2, <2>4, SearchFirst, ZenonT(60)
  <2>7. ASSUME NEW k \in 1..n PROVE Search(n, late(t)) < k <=> ts(k) >= t
    <3>1. k - 1 \in 0..(n - 1) /\ (k - 1) + 1 = k
      BY <1>2
    <3>2. Search(n, late(t)) <= k - 1 <=> ts(k) >= t
      BY <2>2, <2>6, <3>1, ZenonT(60)
    <3> QED BY <1>2, <2>5, <3>2
  <2> QED BY <2>1, <2>5, <2>7, Zenon
<1>7. n > 0 => local[r].lo = ts(1) /\ ts(n) <= local[r].hi
  BY DEF Loaded, pc, Mt
<1>8. local[r].before \in Nat /\ local[r].before <= n
  BY <1>1, ZenonT(60) DEF Loaded, pc, Local
<1> DEFINE s == StartIdx(r)
           e == EndIdx(r)
<1> HIDE DEF n, q, ts, late
<1>9. s \in 0..n /\ \A k \in 1..n : s < k <=> ts(k) >= q.start
  <2>1. CASE q.start <= local[r].lo
    <3>1. s = 0
      BY <2>1, Zenon DEF StartIdx, q
    <3>2. ASSUME NEW k \in 1..n PROVE ts(k) >= q.start
      <4>1. n > 0 /\ 1 \in 1..n /\ ts(1) <= ts(k)
        <5>1. n > 0 /\ 1 \in 1..n
          BY <1>2
        <5>2. k = 1 \/ 1 < k
          BY <1>2
        <5> QED BY <1>4, <1>5, <5>1, <5>2, SMTT(30)
      <4> QED BY <1>2, <1>3, <1>4, <1>7, <2>1, <4>1, SMTT(30)
    <3> QED BY <1>2, <3>1, <3>2
  <2>2. CASE ~(q.start <= local[r].lo)
    <3>1. s = FirstNotBefore(r, q.start)
      BY <2>2, Zenon DEF StartIdx, q
    <3> QED BY <1>3, <1>6, <3>1, Zenon
  <2> QED BY <2>1, <2>2, Zenon
<1>10. e \in 0..n /\ \A k \in 1..n : IF k <= e THEN ts(k) <= q.end ELSE ts(k) >= q.end
  <2>1. CASE q.end >= local[r].hi
    <3>1. e = n
      BY <2>1, Zenon DEF EndIdx, q, n
    <3>2. ASSUME NEW k \in 1..n PROVE ts(k) <= q.end
      <4>1. n > 0 /\ n \in 1..n /\ ts(k) <= ts(n)
        <5>1. n > 0 /\ n \in 1..n
          BY <1>2
        <5>2. k = n \/ k < n
          BY <1>2
        <5> QED BY <1>4, <1>5, <5>1, <5>2, SMTT(30)
      <4> QED BY <1>2, <1>3, <1>4, <1>7, <2>1, <4>1, SMTT(30)
    <3> QED BY <1>2, <3>1, <3>2, SMTT(30)
  <2>2. CASE ~(q.end >= local[r].hi)
    <3>1. e = FirstNotBefore(r, q.end)
      BY <2>2, Zenon DEF EndIdx, q
    <3>2. e \in 0..n /\ \A k \in 1..n : e < k <=> ts(k) >= q.end
      BY <1>3, <1>6, <3>1, Zenon
    <3> HIDE DEF e
    <3>3. ASSUME NEW k \in 1..n PROVE IF k <= e THEN ts(k) <= q.end ELSE ts(k) >= q.end
      <4>1. k \in Int /\ e \in Int /\ ts(k) \in Int /\ (e < k <=> ts(k) >= q.end)
        BY <1>2, <1>4, <3>2
      <4> QED BY <1>3, <4>1
    <3> QED BY <3>2, <3>3, Zenon
  <2> QED BY <2>1, <2>2, Zenon
<1> HIDE DEF s, e
<1>11. \A k \in 1..local[r].before :
          q.start <= ts(k) /\ ts(k) < q.end => k \in (s + 1)..e
  <2> SUFFICES ASSUME NEW k \in 1..local[r].before, q.start <= ts(k), ts(k) < q.end
               PROVE  k \in (s + 1)..e
    BY Zenon
  <2>1. k \in 1..n /\ s \in Int /\ e \in Int /\ k \in Int
    BY <1>2, <1>8, <1>9, <1>10, SMTT(30)
  <2>2. ts(k) \in Int /\ s < k
    BY <1>3, <1>4, <1>9, <2>1, SMTT(30)
  <2>3. k <= e
    BY <1>3, <1>10, <2>1, <2>2, SMTT(30)
  <2> QED BY <2>1, <2>2, <2>3, SMTT(30)
<1>12. \A k \in (s + 1)..e : q.start <= ts(k) /\ ts(k) <= q.end
  BY <1>2, <1>3, <1>4, <1>9, <1>10, SMTT(30)
<1>13. Exact(Mt(r).points, local[r].before, local[r].query, <<s, e>>)
  BY <1>11, <1>12, Zenon DEF Exact, q, ts
<1>14. s \in Nat /\ e \in 0..Len(Mt(r).points)
  BY <1>2, <1>9, <1>10
<1> QED BY <1>13, <1>14, Zenon DEF s, e

(* A step of a select. *)
LEMMA ReaderLoads ==
    ASSUME Typed, Typed', Bounded, Serial, \A o \in Objects : Extremes(o),
           NEW r \in Readers, Loaded(r), ReaderStep(r)
    PROVE  Loaded(r)'
<1>1. /\ local \in [Goroutines -> Local] /\ r \in Goroutines /\ local[r] \in Local
      /\ Ready(local[r]) /\ Ready(local'[r]) /\ local[r].before \in Nat
      /\ DOMAIN result = Readers /\ heap \in [Objects -> Metric]
  BY Zenon DEF Typed, TypeOK, LocalsReady, Goroutines, Local
<1>2. UNCHANGED heap
  BY QuietStep, SMTT(30) DEF Goroutines
<1>3. CASE SelectDataPoints(r)
  <2>1. /\ pc(r) = "idle" /\ result' = result
        /\ \/ local'[r].pc = "selectStore" /\ local'[r].before = local[r].before
           \/ local'[r].pc = "selectSize" /\ local'[r].before = heap[local'[r].mt].size
    BY <1>1, <1>3, SMTT(30) DEF SelectDataPoints, Continue, Local
  <2>2. local'[r].pc = "selectSize" => heap[local'[r].mt].size \in Nat
    <3>1. local'[r].pc = "selectSize" => local'[r].mt \in Objects
      BY <1>1, Zenon DEF Ready, UsesMetric
    <3> QED BY <1>1, <3>1, Zenon DEF Metric
  <2>3. result'[r] = <<0, 0>> /\ local[r].before = 0
    BY <2>1, Zenon DEF Loaded, pc
  <2>4. CASE local'[r].pc = "selectStore"
    BY <2>1, <2>3, <2>4, ZenonT(60) DEF Loaded
  <2>5. CASE local'[r].pc = "selectSize"
    <3>1. local'[r].before <= heap'[local'[r].mt].size
      BY <1>2, <2>1, <2>2, <2>5
    <3> QED BY <2>3, <2>5, <3>1, ZenonT(60) DEF Loaded
  <2> QED BY <2>1, <2>4, <2>5, Zenon
<1>4. CASE SelectStoreMetric(r)
  <2>1. /\ pc(r) = "selectStore" /\ result' = result
        /\ local'[r].pc = "selectSize" /\ local'[r].before = local[r].before
    BY <1>1, <1>4, Zenon DEF SelectStoreMetric, Continue, Local
  <2>2. heap[local'[r].mt].size \in Nat
    <3>1. local'[r].mt \in Objects
      BY <1>1, <2>1, Zenon DEF Ready, UsesMetric
    <3> QED BY <1>1, <3>1, Zenon DEF Metric
  <2>3. result'[r] = <<0, 0>> /\ local'[r].before = 0
    BY <2>1, Zenon DEF Loaded, pc
  <2>4. local'[r].before <= heap'[local'[r].mt].size
    <3>1. \A k \in Nat : 0 <= k
      BY SMT
    <3> QED BY <1>2, <2>2, <2>3, <3>1, Zenon
  <2> QED BY <2>1, <2>3, <2>4, Zenon DEF Loaded
<1>m. pc(r) \in UsesMetric => local[r].mt \in Objects
  BY <1>1, Zenon DEF Ready, pc
<1>5. CASE SelectLoadSize(r)
  <2>1. /\ pc(r) = "selectSize" /\ result' = result
        /\ local'[r].pc = "selectMin" /\ local'[r].before = local[r].before
        /\ local'[r].mt = local[r].mt /\ local'[r].size = heap[local[r].mt].size
    BY <1>1, <1>5, Zenon DEF SelectLoadSize, Continue, Local, Mt
  <2>2. heap[local[r].mt].size \in Nat
    BY <1>1, <1>m, <2>1, Zenon DEF UsesMetric, Metric
  <2>3. result'[r] = <<0, 0>> /\ local[r].before <= heap[local[r].mt].size
    BY <2>1, Zenon DEF Loaded, pc
  <2>4. local'[r].before <= local'[r].size /\ local'[r].size <= heap'[local'[r].mt].size
    BY <1>2, <2>1, <2>2, <2>3
  <2> QED BY <2>1, <2>3, <2>4, Zenon DEF Loaded
<1>6. CASE SelectLoadMin(r)
  <2>1. /\ pc(r) = "selectMin" /\ result' = result
        /\ local'[r].pc = "selectMax" /\ local'[r].before = local[r].before
        /\ local'[r].mt = local[r].mt /\ local'[r].size = local[r].size
        /\ local'[r].lo = heap[local[r].mt].minTimestamp
    BY <1>1, <1>6, Zenon DEF SelectLoadMin, Continue, Local, Mt
  <2>2. PICK o \in Objects : o = local[r].mt
    BY <1>m, <2>1, Zenon DEF UsesMetric
  <2>3. /\ local[r].size \in Nat /\ heap[o].size \in Nat /\ Len(heap[o].points) \in Nat
        /\ local[r].size <= heap[o].size /\ heap[o].size <= Len(heap[o].points)
    BY <1>1, <2>1, <2>2, LocalFields, HeapFields, Counted, ZenonT(60) DEF Loaded, pc
  <2>4. local[r].size > 0 => heap[o].minTimestamp = heap[o].points[1].ts
    BY <2>3 DEF Extremes
  <2> QED BY <1>1, <1>2, <2>1, <2>2, <2>3, <2>4, ZenonT(60) DEF Loaded, pc
<1>7. CASE SelectLoadMax(r)
  <2>1. /\ pc(r) = "selectMax" /\ result' = result
        /\ local'[r].pc = (IF local[r].query.end <= local[r].lo THEN "selected" ELSE "slice")
        /\ local'[r].before = local[r].before
        /\ local'[r].mt = local[r].mt /\ local'[r].size = local[r].size
        /\ local'[r].lo = local[r].lo /\ local'[r].hi = heap[local[r].mt].maxTimestamp
        /\ local'[r].query = local[r].query
    BY <1>1, <1>7, Zenon DEF SelectLoadMax, Continue, Local, Mt
  <2>2. PICK o \in Objects : o = local[r].mt
    BY <1>m, <2>1, Zenon DEF UsesMetric
  <2>3. /\ local[r].size \in Nat /\ heap[o].size \in Nat /\ Len(heap[o].points) \in Nat
        /\ local[r].size <= heap[o].size /\ heap[o].size <= Len(heap[o].points)
        /\ local[r].before <= local[r].size
        /\ heap[o].points \in Seq(Points)
    BY <1>1, <2>1, <2>2, LocalFields, HeapFields, Counted, ZenonT(60) DEF Loaded, pc
  <2>4. \A k \in 1..Len(heap[o].points) : heap[o].points[k].ts \in Nat
    <3>1. \A k \in 1..Len(heap[o].points) : heap[o].points[k] \in Points
      BY <2>3
    <3> QED BY <3>1, Zenon DEF Points
  <2>5. \A j, k \in 1..Len(heap[o].points) : j <= k => heap[o].points[j].ts <= heap[o].points[k].ts
    <3>1. \A j, k \in 1..Len(heap[o].points) : j < k => heap[o].points[j].ts < heap[o].points[k].ts
      BY <2>3, SMTT(30) DEF Serial, PointsInOrder
    <3> QED BY <2>3, <2>4, <3>1, SMTT(30)
  <2>6. local[r].size > 0 => heap[o].points[local[r].size].ts <= heap[o].maxTimestamp
    <3>1. SUFFICES ASSUME local[r].size > 0
                   PROVE  /\ local[r].size \in 1..Len(heap[o].points)
                          /\ Len(heap[o].points) \in 1..Len(heap[o].points)
                          /\ heap[o].size > 0
      BY <2>3, <2>5, SMTT(30) DEF Extremes
    <3> QED BY <2>3, <3>1, SMTT(30)
  <2>7. CASE local[r].query.end <= local[r].lo
    <3>1. result[r] = <<0, 0>>
      BY <2>1, Zenon DEF Loaded, pc
    <3>2. local[r].query.end \in Int /\ local[r].query.start \in Int
      BY <1>1, <2>1, QueriesAssumption, ZenonT(60) DEF Ready, InSelect, pc
    <3>3. ASSUME NEW k \in 1..local[r].before PROVE ~(heap[o].points[k].ts < local[r].query.end)
      <4>1. local[r].size > 0 /\ 1 \in 1..Len(heap[o].points) /\ k \in 1..Len(heap[o].points) /\ 1 <= k
        BY <1>1, <2>3, SMTT(30)
      <4>2. local[r].lo = heap[o].points[1].ts
        BY <2>1, <2>2, <4>1, ZenonT(60) DEF Loaded, pc
      <4> QED BY <2>4, <2>5, <2>7, <3>2, <4>1, <4>2, SMTT(30)
    <3>4. (result[r][1] + 1)..result[r][2] = {}
      BY <3>1, SMTT(30)
    <3>5. Exact(heap[o].points, local[r].before, local[r].query, result[r])
      BY <3>3, <3>4, Zenon DEF Exact
    <3>6. local[r].before <= Len(heap[o].points)
      BY <1>1, <2>3
    <3>7. result[r][1] \in Nat /\ result[r][2] \in 0..Len(heap[o].points)
      BY <2>3, <3>1, SMTT(30)
    <3>8. /\ local'[r].pc = "selected" /\ local'[r].mt \in Objects /\ heap'[local'[r].mt] = heap[o] /\ result'[r] = result[r]
          /\ local'[r].before = local[r].before /\ local'[r].query = local[r].query
      BY <1>2, <2>1, <2>2, <2>7, Zenon
    <3> QED BY <3>5, <3>6, <3>7, <3>8, Zenon DEF Loaded
  <2>8. CASE ~(local[r].query.end <= local[r].lo)
    BY <1>1, <1>2, <2>1, <2>2, <2>3, <2>6, <2>8, ZenonT(60) DEF Loaded, pc
  <2> QED BY <2>7, <2>8, Zenon
<1>8. CASE Slice(r)
  <2>1. /\ pc(r) = "slice" /\ result'[r] = <<StartIdx(r), EndIdx(r)>>
        /\ local'[r].pc = "selected" /\ local'[r].before = local[r].before
        /\ local'[r].mt = local[r].mt /\ local'[r].query = local[r].query
    BY <1>1, <1>8, Zenon DEF Slice, Continue, Local
  <2>2. PICK o \in Objects : o = local[r].mt
    BY <1>m, <2>1, ZenonT(60) DEF UsesMetric
  <2>3. /\ Exact(heap[o].points, local[r].before, local[r].query, result'[r])
        /\ result'[r][1] \in Nat /\ result'[r][2] \in 0..Len(heap[o].points)
    BY <2>1, <2>2, SliceExact, SMTT(30) DEF Mt
  <2>4. local[r].before <= Len(heap[o].points)
    <3>1. /\ local[r].size \in Nat /\ heap[o].size \in Nat /\ Len(heap[o].points) \in Nat
          /\ local[r].size <= heap[o].size /\ heap[o].size <= Len(heap[o].points)
          /\ local[r].before <= local[r].size
      BY <1>1, <2>1, <2>2, LocalFields, HeapFields, Counted, ZenonT(60) DEF Loaded, pc
    <3> QED BY <1>1, <3>1
  <2> QED BY <1>1, <1>2, <2>1, <2>2, <2>3, <2>4, ZenonT(60) DEF Loaded, pc
<1> QED BY <1>3, <1>4, <1>5, <1>6, <1>7, <1>8, Zenon DEF ReaderStep

(* So the invariant of the selects is inductive, *)
LEMMA SelectingInductive ==
    Typed /\ Typed' /\ Bounded /\ Serial /\ Selecting /\ [Next]_vars => Selecting'
<1> SUFFICES ASSUME Typed, Typed', Bounded, Serial, Selecting, [Next]_vars PROVE Selecting'
  OBVIOUS
<1>0. \A g \in Writers \cup Readers : g \in Goroutines
  BY DEF Goroutines
<1>1. ASSUME NEW w \in Writers, WriterStep(w) PROVE Selecting'
  <2>1. \A o \in Objects : Extremes(o)' /\ Grown(o)
    <3>1. CASE HeapStep(w)
      BY <3>1, HeapExtremes, Zenon DEF Selecting
    <3>2. CASE ~HeapStep(w)
      BY <1>0, <1>1, <3>2, QuietExtremes, Zenon DEF Selecting
    <3> QED BY <3>1, <3>2, Zenon
  <2>2. ASSUME NEW r \in Readers PROVE local'[r] = local[r]
    <3>1. r # w /\ r \in Goroutines
      BY <1>0, GoroutinesAssumption
    <3>2. CASE HeapStep(w)
      BY <3>1, <3>2, HeapStepFacts, ZenonT(60)
    <3>3. CASE ~HeapStep(w)
      BY <1>0, <1>1, <3>1, <3>3, QuietStep, SMTT(30) DEF Continue, Typed, TypeOK
    <3> QED BY <3>2, <3>3, Zenon
  <2>3. UNCHANGED result
    BY <1>1, ZenonT(60) DEF WriterStep, InsertPoint, InsertRows, AppendToWAL, SetMinOnce, PutAside, LoadMetric,
         StoreMetric, LoadSize, FirstInsertion, StoreMaxTimestamp, InsertInOrder, AddSize,
         InsertOutOfOrder, AddNumPoints, LoadMax, SwapMax
  <2>4. \A r \in Readers : Loaded(r)'
    BY <2>1, <2>2, <2>3, StillLoaded, Zenon DEF Selecting
  <2> QED BY <2>1, <2>4, Zenon DEF Selecting
<1>2. ASSUME NEW r \in Readers, ReaderStep(r) PROVE Selecting'
  <2>1. \A o \in Objects : Extremes(o)' /\ Grown(o)
    BY <1>0, <1>2, QuietExtremes, Zenon DEF Selecting
  <2>2. Loaded(r)'
    BY <1>2, ReaderLoads, Zenon DEF Selecting
  <2>3. \A v \in Readers : v # r => local'[v] = local[v]
    BY <1>0, <1>2, QuietStep, SMTT(30) DEF Continue, Typed, TypeOK
  <2>4. \A v \in Readers : v # r => result'[v] = result[v]
    BY <1>2, ZenonT(60) DEF ReaderStep, SelectDataPoints, SelectStoreMetric, SelectLoadSize, SelectLoadMin,
                SelectLoadMax, Slice, Typed, TypeOK
  <2>5. \A v \in Readers : v # r => Loaded(v)'
    BY <2>1, <2>3, <2>4, StillLoaded, Zenon DEF Selecting
  <2> QED BY <2>1, <2>2, <2>5, Zenon DEF Selecting
<1>3. ASSUME UNCHANGED vars PROVE Selecting'
  BY <1>3, Zenon DEF Selecting, Extremes, Loaded, pc, vars
<1> QED BY <1>1, <1>2, <1>3, Zenon DEF Next, Finished

(* and holds at first, when nothing is stored or asked for.                 *)
LEMMA SelectingInit == Init => Selecting
<1> SUFFICES ASSUME Init PROVE Selecting
  BY Zenon
<1>1. \A r \in Readers : local[r].pc = "idle" /\ local[r].before = 0 /\ result[r] = <<0, 0>>
  BY Zenon DEF Init, NewLocal, Goroutines
<1>2. \A o \in Objects : heap[o].points = <<>> /\ heap[o].size = 0 /\ heap[o].mu = None
  BY Zenon DEF Init, NewMetric
<1>3. \A o \in Objects : Extremes(o)
  BY <1>2, SMTT(30) DEF Extremes
<1>4. \A r \in Readers : Loaded(r)
  BY <1>1, Zenon DEF Loaded
<1> QED BY <1>3, <1>4, Zenon DEF Selecting

(* With a single worker, a select returns every in-order point of           *)
(* [start, end) that was counted when it began and nothing outside          *)
(* [start, end], however many selects and inserts it runs beside: the       *)
(* atomics it loads before it takes the read lock cannot mislead it.        *)
THEOREM SerialSelectExact == WorkersLimit = 1 /\ Spec => []SelectExact
<1>1. Selecting => SelectExact
  BY Zenon DEF Selecting, Loaded, Exact, SelectExact, pc
<1>2. SUFFICES ASSUME WorkersLimit = 1 PROVE Spec => []SelectExact
  OBVIOUS
<1>3. Spec => []Serial
  BY <1>2, SerialAlways, Zenon
<1> QED BY <1>1, <1>3, SelectingInit, SelectingInductive, TypedAlways, BoundedAlways, PTL DEF Spec

-----------------------------------------------------------------------------
(* Each accepted row is kept once *)

Ended == {"loadMax", "swapMax", "returned"}

(* The loop of insertRows goes through the batch once, and what it puts     *)
(* aside lies behind it.                                                    *)
Advancing(w) ==
    LET l == local[w]
    IN  /\ l.pc \in {"idle", "append", "failed", "once"} => l.i = 1
        /\ l.pc \in Ended => l.i = Len(l.rows) + 1
        /\ l.i <= Len(l.rows) + 1
        /\ \A k \in l.outdated : k < l.i

(* The call has stored its k-th row. *)
Taken(l, k) ==
    /\ k >= 1
    /\ \/ k < l.i /\ k \notin l.outdated
       \/ k = l.i /\ l.pc \in {"storeMax", "addSize"}

HeldIn(w, k) == IF Taken(local[w], k) THEN \E z : Places(w, k) = {z} ELSE Places(w, k) = {}

(* The rows of the calls that have been through AddNumPoints. *)
Tally == {c \in Writers \X Nat :
            /\ pc(c[1]) \in Ended
            /\ c[2] \in (1..Len(local[c[1]].rows)) \ local[c[1]].outdated}

Once ==
    /\ \A w \in Writers : Advancing(w) /\ \A k \in Nat : HeldIn(w, k)
    /\ IsFiniteSet(Tally) /\ numPoints = Cardinality(Tally)

(* What a step of w does to its place in the loop and to numPoints. *)
LEMMA WriterAdvances ==
    ASSUME Typed, Typed', NEW w \in Writers, Advancing(w), WriterStep(w)
    PROVE  /\ Advancing(w)'
           /\ ~AddNumPoints(w) =>
                 /\ numPoints' = numPoints
                 /\ pc(w) \in Ended <=> pc(w)' \in Ended
                 /\ pc(w) \in Ended => /\ local'[w].rows = local[w].rows
                                       /\ local'[w].outdated = local[w].outdated
           /\ ~HeapStep(w) => \A k \in Nat : Taken(local'[w], k) <=> Taken(local[w], k)
<1>1. /\ local \in [Goroutines -> Local] /\ w \in Goroutines /\ local[w] \in Local
      /\ local'[w] \in Local /\ local[w].i \in Nat \ {0} /\ Ready(local[w])
  BY LocalFields, Zenon DEF Typed, TypeOK, Goroutines, LocalsReady
<1>2. Len(local[w].rows) \in Nat /\ Len(local'[w].rows) \in Nat
  BY <1>1, LocalFields, BatchFacts
<1> USE DEF Ended
<1>3. ASSUME local'[w].i = local[w].i, local'[w].outdated = local[w].outdated,
             pc(w) \notin {"storeMax", "addSize"}, local'[w].pc \notin {"storeMax", "addSize"}
      PROVE  \A k \in Nat : Taken(local'[w], k) <=> Taken(local[w], k)
  BY <1>3, Zenon DEF Taken, pc
<1>4. CASE InsertRows(w)
  <2>1. /\ local'[w].pc = "append" /\ pc(w) = "idle" /\ numPoints' = numPoints
        /\ local'[w].i = local[w].i /\ local'[w].outdated = local[w].outdated
        /\ ~AddNumPoints(w)
    BY <1>1, <1>4, SMTT(30) DEF InsertRows, AddNumPoints, Continue, Local, partition
  <2>2. Advancing(w)'
    BY <1>1, <1>2, <2>1 DEF Advancing, pc
  <2> QED BY <1>3, <2>1, <2>2, Zenon DEF pc
<1>5. CASE AppendToWAL(w)
  <2>1. /\ local'[w].pc \in {"once", "failed"} /\ pc(w) = "append" /\ numPoints' = numPoints
        /\ local'[w].i = local[w].i /\ local'[w].outdated = local[w].outdated
        /\ local'[w].rows = local[w].rows /\ ~AddNumPoints(w)
    BY <1>1, <1>5, SMTT(30) DEF AppendToWAL, AddNumPoints, Continue, Local, partition
  <2>2. Advancing(w)'
    BY <1>1, <1>2, <2>1, Zenon DEF Advancing, pc
  <2> QED BY <1>3, <2>1, <2>2, Zenon DEF pc
<1>6. CASE SetMinOnce(w)
  <2>1. /\ local'[w].pc = "row" /\ pc(w) = "once" /\ numPoints' = numPoints
        /\ local'[w].i = local[w].i /\ local'[w].outdated = local[w].outdated
        /\ local'[w].rows = local[w].rows /\ ~AddNumPoints(w)
    BY <1>1, <1>6, Zenon DEF SetMinOnce, AddNumPoints, Continue, Local, partition
  <2>2. Advancing(w)'
    BY <1>1, <1>2, <2>1, Zenon DEF Advancing, pc
  <2> QED BY <1>3, <2>1, <2>2, Zenon DEF pc
<1>7. CASE PutAside(w)
  <2>1. /\ local'[w].pc = "row" /\ pc(w) = "row" /\ numPoints' = numPoints
        /\ local'[w].i = local[w].i + 1
        /\ local'[w].outdated = local[w].outdated \cup {local[w].i}
        /\ local'[w].rows = local[w].rows /\ ~AddNumPoints(w)
    BY <1>1, <1>7, Zenon DEF PutAside, AddNumPoints, Continue, Local, partition, pc
  <2>2. local[w].i <= Len(local[w].rows) /\ local[w].outdated \subseteq Nat
    BY <1>1, <1>7, LocalFields, Zenon DEF PutAside, MoreRows
  <2>3. Advancing(w)'
    BY <1>1, <1>2, <2>1, <2>2, SMTT(30) DEF Advancing, pc
  <2>4. \A k \in Nat : Taken(local'[w], k) <=> Taken(local[w], k)
    BY <1>1, <2>1, SMTT(30) DEF Taken, pc
  <2> QED BY <2>1, <2>3, <2>4, Zenon DEF pc
<1>8. CASE LoadMetric(w)
  <2>1. /\ local'[w].pc \in {"storeMetric", "loadSize"} /\ pc(w) = "row"
        /\ numPoints' = numPoints
        /\ local'[w].i = local[w].i /\ local'[w].outdated = local[w].outdated
        /\ local'[w].rows = local[w].rows
    BY <1>1, <1>8 DEF LoadMetric, Continue, Local, partition
  <2>2. ~AddNumPoints(w)
    BY <1>8, Zenon DEF LoadMetric, AddNumPoints
  <2>3. Advancing(w)'
    BY <1>1, <1>2, <2>1, Zenon DEF Advancing, pc
  <2> QED BY <1>3, <2>1, <2>2, <2>3, Zenon DEF pc
<1>9. CASE StoreMetric(w)
  <2>1. /\ local'[w].pc = "loadSize" /\ pc(w) = "storeMetric" /\ numPoints' = numPoints
        /\ local'[w].i = local[w].i /\ local'[w].outdated = local[w].outdated
        /\ local'[w].rows = local[w].rows /\ ~AddNumPoints(w)
    BY <1>1, <1>9, Zenon DEF StoreMetric, AddNumPoints, Continue, Local, partition
  <2>2. Advancing(w)'
    BY <1>1, <1>2, <2>1, Zenon DEF Advancing, pc
  <2> QED BY <1>3, <2>1, <2>2, Zenon DEF pc
<1>10. CASE LoadSize(w)
  <2>1. /\ local'[w].pc = "lock" /\ pc(w) = "loadSize" /\ numPoints' = numPoints
        /\ local'[w].i = local[w].i /\ local'[w].outdated = local[w].outdated
        /\ local'[w].rows = local[w].rows /\ ~AddNumPoints(w)
    BY <1>1, <1>10, Zenon DEF LoadSize, AddNumPoints, Continue, Local, partition
  <2>2. Advancing(w)'
    BY <1>1, <1>2, <2>1, Zenon DEF Advancing, pc
  <2> QED BY <1>3, <2>1, <2>2, Zenon DEF pc
<1>11. CASE HeapStep(w)
  <2>1. /\ pc(w) \in {"lock", "storeMax", "addSize"} /\ numPoints' = numPoints
        /\ local'[w].pc \in {"storeMax", "addSize", "row"} /\ local'[w].rows = local[w].rows
        /\ local'[w].outdated = local[w].outdated
        /\ local'[w].i = local[w].i \/ local'[w].i = local[w].i + 1
    <3>1. CASE FirstInsertion(w)
      BY <1>1, <3>1, Zenon DEF FirstInsertion, Continue, Local, partition
    <3>2. CASE StoreMaxTimestamp(w)
      BY <1>1, <3>2, Zenon DEF StoreMaxTimestamp, Continue, Local, partition
    <3>3. CASE InsertInOrder(w)
      BY <1>1, <3>3, Zenon DEF InsertInOrder, Continue, Local, partition
    <3>4. CASE AddSize(w)
      BY <1>1, <3>4, Zenon DEF AddSize, Continue, Local, partition
    <3>5. CASE InsertOutOfOrder(w)
      BY <1>1, <3>5, Zenon DEF InsertOutOfOrder, Continue, Local, partition
    <3> QED BY <1>11, <3>1, <3>2, <3>3, <3>4, <3>5, Zenon DEF HeapStep
  <2>2. local[w].i <= Len(local[w].rows) /\ local[w].outdated \subseteq Nat
    BY <1>1, <2>1, LocalFields, Zenon DEF Ready, Inserting, pc
  <2>3. Advancing(w)'
    BY <1>1, <1>2, <2>1, <2>2, SMTT(30) DEF Advancing, pc
  <2> QED BY <1>11, <2>1, <2>3, Zenon DEF pc
<1>12. CASE AddNumPoints(w)
  <2>1. /\ local'[w].pc = "loadMax" /\ pc(w) = "row"
        /\ local'[w].i = local[w].i /\ local'[w].outdated = local[w].outdated
        /\ local'[w].rows = local[w].rows
    BY <1>1, <1>12, Zenon DEF AddNumPoints, Continue, Local
  <2>2. ~(local[w].i <= Len(local[w].rows))
    BY <1>12, Zenon DEF AddNumPoints, MoreRows
  <2>3. Advancing(w)'
    BY <1>1, <1>2, <2>1, <2>2 DEF Advancing, pc
  <2> QED BY <1>3, <1>12, <2>1, <2>3, Zenon DEF pc
<1>13. CASE LoadMax(w)
  <2>1. /\ local'[w].pc \in {"swapMax", "returned"} /\ pc(w) = "loadMax" /\ numPoints' = numPoints
        /\ local'[w].i = local[w].i /\ local'[w].outdated = local[w].outdated
        /\ local'[w].rows = local[w].rows /\ ~AddNumPoints(w)
    BY <1>1, <1>13, Zenon DEF LoadMax, AddNumPoints, Continue, Local, partition
  <2>2. Advancing(w)'
    BY <1>1, <1>2, <2>1, Zenon DEF Advancing, pc
  <2> QED BY <1>3, <2>1, <2>2, Zenon DEF pc
<1>14. CASE SwapMax(w)
  <2>1. /\ local'[w].pc = "returned" /\ pc(w) = "swapMax" /\ numPoints' = numPoints
        /\ local'[w].i = local[w].i /\ local'[w].outdated = local[w].outdated
        /\ local'[w].rows = local[w].rows /\ ~AddNumPoints(w)
    BY <1>1, <1>14, Zenon DEF SwapMax, AddNumPoints, Continue, Local
  <2>2. Advancing(w)'
    BY <1>1, <1>2, <2>1, Zenon DEF Advancing, pc
  <2> QED BY <1>3, <2>1, <2>2, Zenon DEF pc
<1> QED
  BY <1>4, <1>5, <1>6, <1>7, <1>8, <1>9, <1>10, <1>11, <1>12, <1>13, <1>14, ZenonT(60)
  DEF WriterStep, InsertPoint, HeapStep

(* Places, of any heap h: one metric at a time, *)
InOrder(h, o, v, k) == {j \in DOMAIN h[o].points : h[o].points[j].row = <<v, k>>}
OutOfOrder(h, o, v, k) ==
    {j \in DOMAIN h[o].outOfOrderPoints : h[o].outOfOrderPoints[j].row = <<v, k>>}
PlacesOf(h, o, v, k) ==
    {<<o, "in order", j>> : j \in InOrder(h, o, v, k)} \cup
    {<<o, "out of order", j>> : j \in OutOfOrder(h, o, v, k)}

(* and all of them.                                                         *)
PlacesIn(h, v, k) == UNION {PlacesOf(h, o, v, k) : o \in Objects}

(* The places of a row before and after a step, as functions of the heap. *)
LEMMA PlacesHere ==
    ASSUME NEW v, NEW k
    PROVE  Places(v, k) = PlacesIn(heap, v, k) /\ Places(v, k)' = PlacesIn(heap', v, k)
BY Zenon DEF Places, PlacesIn, PlacesOf, InOrder, OutOfOrder

(* A change of one metric changes the places in that metric. *)
LEMMA PlacesChange ==
    ASSUME NEW h, NEW g, NEW v, NEW k, NEW x \in Objects, NEW new,
           \A o \in Objects : o # x => g[o] = h[o],
           PlacesOf(g, x, v, k) = PlacesOf(h, x, v, k) \cup new
    PROVE  PlacesIn(g, v, k) = PlacesIn(h, v, k) \cup new
<1>1. \A o \in Objects : o # x => PlacesOf(g, o, v, k) = PlacesOf(h, o, v, k)
  BY Zenon DEF PlacesOf, InOrder, OutOfOrder
<1>2. ASSUME NEW z
      PROVE  z \in PlacesIn(g, v, k) <=> \E o \in Objects : z \in PlacesOf(g, o, v, k)
  BY Zenon DEF PlacesIn
<1>3. ASSUME NEW z
      PROVE  z \in PlacesIn(h, v, k) <=> \E o \in Objects : z \in PlacesOf(h, o, v, k)
  BY DEF PlacesIn
<1>4. ASSUME NEW z
      PROVE  z \in PlacesIn(g, v, k) <=> z \in PlacesIn(h, v, k) \/ z \in new
  BY <1>1, <1>2, <1>3, Zenon
<1> QED BY <1>4

(* The places that a step of insertPoint adds for its row. *)
NewPlaces(w) ==
    LET o == local[w].mt
    IN  IF FirstInsertion(w) \/ InsertInOrder(w)
        THEN {<<o, "in order", Len(heap[o].points) + 1>>}
        ELSE IF InsertOutOfOrder(w)
        THEN {<<o, "out of order", Len(heap[o].outOfOrderPoints) + 1>>}
        ELSE {}

(* A step of insertPoint adds its one place for its own row, and changes no *)
(* other row's places.                                                      *)
LEMMA PlacesGrow ==
    ASSUME Typed, NEW w \in Writers, HeapStep(w), NEW v \in Writers, NEW k \in Nat
    PROVE  Places(v, k)' = Places(v, k) \cup
              (IF <<v, k>> = <<w, local[w].i>> THEN NewPlaces(w) ELSE {})
<1>0. local[w].mt \in Objects
  BY HeapStepFacts, Zenon
<1>x. PICK x \in Objects : x = local[w].mt
  BY <1>0
<1>1. heap[x] \in Metric /\ \A p \in Objects : p # x => heap'[p] = heap[p]
  BY <1>x, HeapStepFacts, Zenon
<1>2. heap[x].points \in Seq(Points) /\ heap[x].outOfOrderPoints \in Seq(Points)
  BY <1>1, Zenon DEF Metric
<1>3. Point(w).row = <<w, local[w].i>>
  BY Zenon DEF Point
<1> DEFINE new == IF <<v, k>> = <<w, local[w].i>> THEN NewPlaces(w) ELSE {}
<1>5. PlacesOf(heap', x, v, k) = PlacesOf(heap, x, v, k) \cup new
  <2>1. CASE FirstInsertion(w) \/ InsertInOrder(w)
    <3>1. /\ heap'[x].points = Append(heap[x].points, Point(w))
          /\ heap'[x].outOfOrderPoints = heap[x].outOfOrderPoints
      BY <1>0, <1>1, <2>1, <1>x, ZenonT(60) DEF FirstInsertion, InsertInOrder, Update, Mt, Typed, TypeOK, Metric
    <3>2. NewPlaces(w) = {<<x, "in order", Len(heap[x].points) + 1>>}
      BY <2>1, <1>x, Zenon DEF NewPlaces
    <3>3. /\ DOMAIN heap'[x].points = DOMAIN heap[x].points \cup {Len(heap[x].points) + 1}
          /\ heap'[x].points[Len(heap[x].points) + 1] = Point(w)
          /\ \A j \in DOMAIN heap[x].points : heap'[x].points[j] = heap[x].points[j]
      BY <1>2, <3>1, AppendPlaces, SMTT(30)
    <3>4. OutOfOrder(heap', x, v, k) = OutOfOrder(heap, x, v, k)
      BY <3>1, Zenon DEF OutOfOrder
    <3>5. InOrder(heap', x, v, k) = InOrder(heap, x, v, k) \cup
             (IF <<v, k>> = <<w, local[w].i>> THEN {Len(heap[x].points) + 1} ELSE {})
      BY <1>3, <3>3, Zenon DEF InOrder
    <3> QED BY <3>2, <3>4, <3>5, Zenon DEF PlacesOf
  <2>2. CASE InsertOutOfOrder(w)
    <3>1. /\ heap'[x].outOfOrderPoints = Append(heap[x].outOfOrderPoints, Point(w))
          /\ heap'[x].points = heap[x].points
      BY <1>0, <1>1, <2>2, <1>x, Zenon DEF InsertOutOfOrder, Update, Mt, Typed, TypeOK, Metric
    <3>2. NewPlaces(w) = {<<x, "out of order", Len(heap[x].outOfOrderPoints) + 1>>}
      <4>1. local[w].size # 0
        BY <2>2, Zenon DEF InsertOutOfOrder
      <4>2. ~FirstInsertion(w)
        BY <4>1, Zenon DEF FirstInsertion
      <4>3. ~InsertInOrder(w)
        <5>1. SUFFICES ASSUME InsertInOrder(w) PROVE FALSE
          OBVIOUS
        <5>2. heap'[x].points = Append(heap[x].points, Point(w))
          BY <1>0, <1>1, <5>1, <1>x, Zenon DEF InsertInOrder, Update, Mt, Typed, TypeOK, Metric
        <5>3. Len(Append(heap[x].points, Point(w))) = Len(heap[x].points) + 1
          BY <1>2
        <5> QED BY <1>2, <3>1, <5>2, <5>3, SMTT(30)
      <4> QED BY <2>2, <1>x, <4>2, <4>3, Zenon DEF NewPlaces
    <3>3. /\ DOMAIN heap'[x].outOfOrderPoints =
                DOMAIN heap[x].outOfOrderPoints \cup {Len(heap[x].outOfOrderPoints) + 1}
          /\ heap'[x].outOfOrderPoints[Len(heap[x].outOfOrderPoints) + 1] = Point(w)
          /\ \A j \in DOMAIN heap[x].outOfOrderPoints :
                heap'[x].outOfOrderPoints[j] = heap[x].outOfOrderPoints[j]
      BY <1>2, <3>1, AppendPlaces, SMTT(30)
    <3>4. InOrder(heap', x, v, k) = InOrder(heap, x, v, k)
      BY <3>1, Zenon DEF InOrder
    <3>5. OutOfOrder(heap', x, v, k) = OutOfOrder(heap, x, v, k) \cup
             (IF <<v, k>> = <<w, local[w].i>> THEN {Len(heap[x].outOfOrderPoints) + 1} ELSE {})
      BY <1>3, <3>3, Zenon DEF OutOfOrder
    <3> QED BY <3>2, <3>4, <3>5, Zenon DEF PlacesOf
  <2>3. CASE StoreMaxTimestamp(w) \/ AddSize(w)
    <3>1. /\ heap'[x].points = heap[x].points
          /\ heap'[x].outOfOrderPoints = heap[x].outOfOrderPoints
      BY <1>0, <1>1, <2>3, <1>x, ZenonT(60) DEF StoreMaxTimestamp, AddSize, Update, Mt, Typed, TypeOK, Metric
    <3>2. NewPlaces(w) = {}
      BY <2>3, Zenon DEF NewPlaces, FirstInsertion, InsertInOrder, InsertOutOfOrder, StoreMaxTimestamp, AddSize
    <3> QED BY <3>1, <3>2, Zenon DEF PlacesOf, InOrder, OutOfOrder
  <2> QED BY <2>1, <2>2, <2>3, Zenon DEF HeapStep
<1> HIDE DEF new
<1>6. PlacesIn(heap', v, k) = PlacesIn(heap, v, k) \cup new
  BY <1>1, <1>5, PlacesChange
<1> QED BY <1>6, PlacesHere, Zenon DEF new

(* A row gets its place in the step that stores it, and no other. *)
LEMMA HeapHolds ==
    ASSUME Typed, NEW w \in Writers, HeapStep(w), Advancing(w),
           NEW v \in Writers, NEW k \in Nat, HeldIn(v, k)
    PROVE  HeldIn(v, k)'
<1>1. /\ local[w] \in Local /\ local[w].i \in Nat \ {0} /\ local[w].i \notin local[w].outdated
      /\ local \in [Goroutines -> Local] /\ w \in Goroutines
  BY LocalFields DEF Typed, TypeOK, Goroutines, Advancing
<1>2. Places(v, k)' = Places(v, k) \cup
         (IF <<v, k>> = <<w, local[w].i>> THEN NewPlaces(w) ELSE {})
  BY PlacesGrow
<1>3. CASE v # w
  <2>1. local'[v] = local[v]
    BY <1>3, HeapStepFacts, ZenonT(60) DEF Goroutines
  <2> QED BY <1>2, <1>3, <2>1, Zenon DEF HeldIn
<1>4. CASE v = w /\ k # local[w].i
  <2>1. Places(v, k)' = Places(v, k)
    BY <1>2, <1>4, Zenon
  <2>2. Taken(local'[w], k) <=> Taken(local[w], k)
    <3>1. CASE FirstInsertion(w) \/ StoreMaxTimestamp(w) \/ InsertInOrder(w)
      <4>1. local'[w].i = local[w].i /\ local'[w].outdated = local[w].outdated
        BY <1>1, <3>1 DEF FirstInsertion, StoreMaxTimestamp, InsertInOrder, Continue, Local
      <4> QED BY <1>4, <4>1, Zenon DEF Taken
    <3>2. CASE AddSize(w) \/ InsertOutOfOrder(w)
      <4>1. /\ local'[w].i = local[w].i + 1 /\ local'[w].outdated = local[w].outdated
            /\ local'[w].pc = "row"
        BY <1>1, <3>2, ZenonT(60) DEF AddSize, InsertOutOfOrder, Continue, Local
      <4> QED BY <1>1, <1>4, <4>1 DEF Taken
    <3> QED BY <3>1, <3>2, Zenon DEF HeapStep
  <2> QED BY <1>4, <2>1, <2>2, Zenon DEF HeldIn
<1>5. CASE v = w /\ k = local[w].i
  <2>1. Places(v, k)' = Places(v, k) \cup NewPlaces(w)
    BY <1>2, <1>5, Zenon
  <2>2. CASE FirstInsertion(w) \/ InsertInOrder(w)
    <3>1. /\ local'[w].i = local[w].i /\ local'[w].pc \in {"storeMax", "addSize"}
          /\ pc(w) = "lock"
      BY <1>1, <2>2, SMTT(30) DEF FirstInsertion, InsertInOrder, Continue, Local
    <3>2. ~Taken(local[w], k) /\ Taken(local'[w], k)
      BY <1>1, <1>5, <3>1 DEF Taken, pc
    <3>3. \E z : NewPlaces(w) = {z}
      BY <2>2, Zenon DEF NewPlaces
    <3> QED BY <1>5, <2>1, <3>2, <3>3, Zenon DEF HeldIn
  <2>3. CASE InsertOutOfOrder(w)
    <3>1. /\ local'[w].i = local[w].i + 1 /\ local'[w].outdated = local[w].outdated
          /\ pc(w) = "lock"
      BY <1>1, <2>3, Zenon DEF InsertOutOfOrder, Continue, Local
    <3>2. ~Taken(local[w], k) /\ Taken(local'[w], k)
      BY <1>1, <1>5, <3>1 DEF Taken, pc
    <3>3. \E z : NewPlaces(w) = {z}
      BY <2>3, Zenon DEF NewPlaces
    <3> QED BY <1>5, <2>1, <3>2, <3>3 DEF HeldIn
  <2>4. CASE StoreMaxTimestamp(w)
    <3>1. /\ local'[w].i = local[w].i /\ local'[w].pc = "addSize" /\ pc(w) = "storeMax"
      BY <1>1, <2>4, Zenon DEF StoreMaxTimestamp, Continue, Local
    <3>2. Taken(local[w], k) /\ Taken(local'[w], k)
      BY <1>1, <1>5, <3>1 DEF Taken, pc
    <3>3. NewPlaces(w) = {}
      BY <3>1, Zenon DEF NewPlaces, FirstInsertion, InsertInOrder, InsertOutOfOrder
    <3> QED BY <1>5, <2>1, <3>2, <3>3, Zenon DEF HeldIn
  <2>5. CASE AddSize(w)
    <3>1. /\ local'[w].i = local[w].i + 1 /\ local'[w].outdated = local[w].outdated
          /\ pc(w) = "addSize"
      BY <1>1, <2>5, Zenon DEF AddSize, Continue, Local
    <3>2. Taken(local[w], k) /\ Taken(local'[w], k)
      BY <1>1, <1>5, <3>1 DEF Taken, pc
    <3>3. NewPlaces(w) = {}
      BY <3>1, Zenon DEF NewPlaces, FirstInsertion, InsertInOrder, InsertOutOfOrder
    <3> QED BY <1>5, <2>1, <3>2, <3>3 DEF HeldIn
  <2> QED BY <2>2, <2>3, <2>4, <2>5, Zenon DEF HeapStep
<1> QED BY <1>3, <1>4, <1>5, Zenon

(* AddNumPoints adds the accepted rows of its batch to the tally. *)
LEMMA TallyGrows ==
    ASSUME Typed, NEW w \in Writers, AddNumPoints(w),
           IsFiniteSet(Tally), numPoints = Cardinality(Tally)
    PROVE  IsFiniteSet(Tally)' /\ (numPoints = Cardinality(Tally))'
<1> DEFINE S == (1..Len(local[w].rows)) \ local[w].outdated
<1>1. /\ local \in [Goroutines -> Local] /\ w \in Goroutines /\ local[w] \in Local
      /\ Ready(local[w]) /\ numPoints \in Nat
  BY Zenon DEF Typed, TypeOK, Goroutines, LocalsReady
<1>2. /\ pc(w) = "row" /\ local'[w].pc = "loadMax"
      /\ local'[w].rows = local[w].rows /\ local'[w].outdated = local[w].outdated
      /\ \A v \in Writers : v # w => local'[v] = local[v]
  BY <1>1, Zenon DEF AddNumPoints, Continue, Local, Goroutines
<1>3. Len(local[w].rows) \in Nat /\ local[w].outdated \subseteq 1..Len(local[w].rows)
  BY <1>1, LocalFields, BatchFacts DEF Ready
<1>4. /\ IsFiniteSet(S) /\ Cardinality(S) \in Nat
      /\ Cardinality(S) = Len(local[w].rows) - Cardinality(local[w].outdated)
  <2>1. /\ IsFiniteSet(1..Len(local[w].rows))
        /\ Cardinality(1..Len(local[w].rows)) = Len(local[w].rows)
    BY <1>3, RowNumbers, Zenon
  <2>2. (1..Len(local[w].rows)) \cap local[w].outdated = local[w].outdated
    BY <1>3
  <2>3. /\ IsFiniteSet(S)
        /\ Cardinality(S) = Cardinality(1..Len(local[w].rows))
              - Cardinality((1..Len(local[w].rows)) \cap local[w].outdated)
    BY <2>1, FS_Difference, Zenon
  <2> HIDE DEF S
  <2>4. Cardinality(S) \in Nat
    BY <2>3, FS_CardinalityType, Zenon
  <2> QED BY <2>1, <2>2, <2>3, <2>4, Zenon
<1>5. numPoints' = numPoints + Cardinality(S)
  <2>1. numPoints' = numPoints + Len(local[w].rows) - Cardinality(local[w].outdated)
    BY Zenon DEF AddNumPoints
  <2>2. Cardinality(local[w].outdated) \in Nat
    BY <1>3, OutdatedBound
  <2> QED BY <1>1, <1>3, <1>4, <2>1, <2>2, Zenon
<1>6. Tally' = Tally \cup ({w} \X S)
  <2>1. ASSUME NEW c \in Writers \X Nat
        PROVE  c \in Tally' <=> c \in Tally \cup ({w} \X S)
    <3>1. CASE c[1] = w
      <4>1. c \notin Tally
        BY <1>2, <3>1, Zenon DEF Tally, Ended
      <4>2. c \in Tally' <=> c[2] \in S
        BY <1>2, <2>1, <3>1, Zenon DEF Tally, Ended, pc
      <4>3. c \in {w} \X S <=> c[2] \in S
        BY <2>1, <3>1, Zenon
      <4> QED BY <4>1, <4>2, <4>3, Zenon
    <3>2. CASE c[1] # w
      <4>1. c \in Tally' <=> c \in Tally
        BY <1>2, <2>1, <3>2, Zenon DEF Tally, pc
      <4> QED BY <3>2, <4>1, Zenon
    <3> QED BY <3>1, <3>2, Zenon
  <2>2. Tally \subseteq Writers \X Nat /\ Tally' \subseteq Writers \X Nat
    BY Zenon DEF Tally
  <2>3. {w} \X S \subseteq Writers \X Nat
    <3>1. S \subseteq Nat
      BY <1>3, RowNumbers, Zenon
    <3> QED BY <3>1, Zenon
  <2> QED BY <2>1, <2>2, <2>3, Zenon
<1>7. Tally \cap ({w} \X S) = {}
  BY <1>2, Zenon DEF Tally, Ended
<1> HIDE DEF S
<1>8. IsFiniteSet({w} \X S) /\ Cardinality({w} \X S) = Cardinality(S)
  <2>1. IsFiniteSet({w}) /\ Cardinality({w}) = 1
    BY FS_Singleton, Zenon
  <2>2. IsFiniteSet({w} \X S) /\ Cardinality({w} \X S) = 1 * Cardinality(S)
    BY <1>4, <2>1, FS_Product, Zenon
  <2> QED BY <1>4, <2>2
<1>9. /\ IsFiniteSet(Tally \cup ({w} \X S))
      /\ Cardinality(Tally \cup ({w} \X S)) = Cardinality(Tally) + Cardinality({w} \X S)
  <2>1. Cardinality(Tally \cap ({w} \X S)) = 0
    BY <1>7, FS_EmptySet, Zenon
  <2>2. /\ IsFiniteSet(Tally \cup ({w} \X S))
        /\ Cardinality(Tally \cup ({w} \X S)) = Cardinality(Tally) + Cardinality({w} \X S)
              - Cardinality(Tally \cap ({w} \X S))
    BY <1>8, FS_Union, Zenon
  <2>3. Cardinality(Tally) \in Nat
    BY FS_CardinalityType, Zenon
  <2> QED BY <1>4, <1>8, <2>1, <2>2, <2>3, SMTT(30)
<1> QED BY <1>5, <1>6, <1>8, <1>9, Zenon

(* A step that moves no call past AddNumPoints leaves the tally alone. *)
LEMMA TallyStays ==
    ASSUME \A v \in Writers :
              \/ local'[v] = local[v]
              \/ /\ pc(v) \in Ended <=> pc(v)' \in Ended
                 /\ pc(v) \in Ended => /\ local'[v].rows = local[v].rows
                                       /\ local'[v].outdated = local[v].outdated
    PROVE  Tally' = Tally
<1>1. ASSUME NEW c \in Writers \X Nat PROVE c \in Tally' <=> c \in Tally
  <2>1. c[1] \in Writers
    BY Zenon
  <2> QED BY <2>1, Zenon DEF Tally, pc
<1>2. Tally \subseteq Writers \X Nat /\ Tally' \subseteq Writers \X Nat
  BY Zenon DEF Tally
<1> QED BY <1>1, <1>2, Zenon

(* The invariant is inductive. *)
LEMMA OnceInductive == Typed /\ Typed' /\ Once /\ [Next]_vars => Once'
<1> SUFFICES ASSUME Typed, Typed', Once, [Next]_vars PROVE Once'
  OBVIOUS
<1>0. \A g \in Writers \cup Readers : g \in Goroutines
  BY Zenon DEF Goroutines
<1>1. ASSUME NEW w \in Writers, WriterStep(w) PROVE Once'
  <2>1. \A v \in Writers : v # w => local'[v] = local[v]
    <3>1. CASE HeapStep(w)
      <4>1. \A g \in Goroutines : g # w => local'[g] = local[g]
        BY <3>1, HeapStepFacts, Zenon
      <4> QED BY <1>0, <4>1, Zenon
    <3>2. CASE ~HeapStep(w)
      BY <1>0, <1>1, <3>2, QuietStep, SMTT(30) DEF Continue, Typed, TypeOK
    <3> QED BY <3>1, <3>2, Zenon
  <2>2. /\ Advancing(w)'
        /\ ~AddNumPoints(w) =>
              /\ numPoints' = numPoints
              /\ pc(w) \in Ended <=> pc(w)' \in Ended
              /\ pc(w) \in Ended => /\ local'[w].rows = local[w].rows
                                    /\ local'[w].outdated = local[w].outdated
        /\ ~HeapStep(w) => \A k \in Nat : Taken(local'[w], k) <=> Taken(local[w], k)
    BY <1>1, WriterAdvances, Zenon DEF Once
  <2>3. \A v \in Writers : Advancing(v)'
    BY <2>1, <2>2, ZenonT(60) DEF Once, Advancing
  <2>4. ASSUME NEW v \in Writers, NEW k \in Nat PROVE HeldIn(v, k)'
    <3>1. CASE HeapStep(w)
      BY <3>1, HeapHolds, Zenon DEF Once
    <3>2. CASE ~HeapStep(w)
      <4>1. UNCHANGED heap
        BY <1>0, <1>1, <3>2, QuietStep, Zenon
      <4>2. Places(v, k)' = Places(v, k)
        BY <4>1, PlacesHere, Zenon
      <4>3. Taken(local'[v], k) <=> Taken(local[v], k)
        BY <2>1, <2>2, <3>2, Zenon
      <4> QED BY <4>2, <4>3, Zenon DEF Once, HeldIn
    <3> QED BY <3>1, <3>2, Zenon
  <2>5. IsFiniteSet(Tally)' /\ (numPoints = Cardinality(Tally))'
    <3>1. CASE AddNumPoints(w)
      BY <3>1, TallyGrows, Zenon DEF Once
    <3>2. CASE ~AddNumPoints(w)
      <4>1. Tally' = Tally
        BY <2>1, <2>2, <3>2, TallyStays, Zenon
      <4> QED BY <2>2, <3>2, <4>1, Zenon DEF Once
    <3> QED BY <3>1, <3>2, Zenon
  <2> QED BY <2>3, <2>4, <2>5, Zenon DEF Once
<1>2. ASSUME UNCHANGED <<heap, numPoints>>, \A w \in Writers : local'[w] = local[w]
      PROVE  Once'
  <2>1. \A v \in Writers : \A k \in Nat : HeldIn(v, k)'
    <3>1. ASSUME NEW v \in Writers, NEW k \in Nat PROVE Places(v, k)' = Places(v, k)
      BY <1>2, PlacesHere, Zenon
    <3> QED BY <1>2, <3>1, ZenonT(60) DEF Once, HeldIn
  <2>2. Tally' = Tally
    BY <1>2, TallyStays, Zenon
  <2>3. \A v \in Writers : Advancing(v)'
    BY <1>2, ZenonT(60) DEF Once, Advancing
  <2> QED BY <1>2, <2>1, <2>2, <2>3, Zenon DEF Once
<1>3. ASSUME NEW r \in Readers, ReaderStep(r) PROVE Once'
  <2>1. UNCHANGED heap /\ Continue(r, local'[r])
    BY <1>0, <1>3, QuietStep, Zenon
  <2>2. UNCHANGED numPoints
    BY <1>3, Zenon DEF ReaderStep, SelectDataPoints, SelectStoreMetric, SelectLoadSize, SelectLoadMin,
                SelectLoadMax, Slice, partition
  <2>3. \A v \in Writers : v # r /\ v \in Goroutines
    BY <1>0, GoroutinesAssumption, Zenon
  <2>4. \A v \in Writers : local'[v] = local[v]
    BY <2>1, <2>3, Zenon DEF Continue, Typed, TypeOK
  <2> QED BY <1>2, <2>1, <2>2, <2>4, Zenon
<1>4. ASSUME UNCHANGED vars PROVE Once'
  BY <1>2, <1>4, Zenon DEF vars, partition
<1> QED BY <1>1, <1>3, <1>4, Zenon DEF Next, Finished

(* Nothing is stored and no call has begun. *)
LEMMA OnceInit == Init => Once
<1> SUFFICES ASSUME Init PROVE Once
  OBVIOUS
<1>1. \A w \in Writers : local[w] = NewLocal
  BY Zenon DEF Init, Goroutines
<1>2. \A w \in Writers : Advancing(w) /\ \A k \in Nat : ~Taken(local[w], k)
  BY <1>1 DEF Advancing, Taken, NewLocal, Ended
<1>3. ASSUME NEW w \in Writers, NEW k \in Nat PROVE Places(w, k) = {}
  <2>1. \A o \in Objects : DOMAIN heap[o].points = {} /\ DOMAIN heap[o].outOfOrderPoints = {}
    BY DEF Init, NewMetric
  <2>2. \A o \in Objects : PlacesOf(heap, o, w, k) = {}
    BY <2>1, Zenon DEF PlacesOf, InOrder, OutOfOrder
  <2> QED BY <2>2, PlacesHere DEF PlacesIn
<1>4. Tally = {}
  BY <1>1 DEF Tally, Ended, NewLocal, pc
<1>5. numPoints = 0
  BY Zenon DEF Init
<1> QED BY <1>2, <1>3, <1>4, <1>5, FS_EmptySet, Zenon DEF Once, HeldIn

(* The point at a place. *)
PointAt(z) ==
    IF z[2] = "in order" THEN heap[z[1]].points[z[3]] ELSE heap[z[1]].outOfOrderPoints[z[3]]

(* The stored points are as many as the rows they were made of. *)
LEMMA StoredTally ==
    ASSUME Typed, Once, InFlight = {}
    PROVE  numPoints = Cardinality(UNION {Stored(o) : o \in Objects})
<1> DEFINE All == UNION {Stored(o) : o \in Objects}
           f == [p \in All |-> p.row]
<1>1. ASSUME NEW p \in All
      PROVE  \E v \in Writers, k \in Nat :
                p.row = <<v, k>> /\ \E z \in Places(v, k) : p = PointAt(z)
  <2>1. PICK o \in Objects : p \in Stored(o)
    BY <1>1, Zenon
  <2>2. heap[o].points \in Seq(Points) /\ heap[o].outOfOrderPoints \in Seq(Points)
    BY Zenon DEF Typed, TypeOK, Metric
  <2>3. p \in Points
    BY <2>1, <2>2 DEF Stored
  <2>4. p.row \in Writers \X Nat
    BY <2>3, Zenon DEF Points
  <2>5. PICK v \in Writers, k \in Nat : p.row = <<v, k>>
    BY <2>4
  <2>6. CASE \E j \in DOMAIN heap[o].points : p = heap[o].points[j]
    <3>1. PICK j \in DOMAIN heap[o].points : p = heap[o].points[j]
      BY <2>6, Zenon
    <3>2. j \in InOrder(heap, o, v, k)
      BY <2>5, <3>1, Zenon DEF InOrder
    <3>3. <<o, "in order", j>> \in PlacesOf(heap, o, v, k)
      BY <3>2 DEF PlacesOf
    <3>4. <<o, "in order", j>> \in PlacesIn(heap, v, k)
      BY <3>3, Zenon DEF PlacesIn
    <3>5. p = PointAt(<<o, "in order", j>>)
      BY <3>1, Zenon DEF PointAt
    <3> QED BY <2>5, <3>4, <3>5, PlacesHere, Zenon
  <2>7. CASE \E j \in DOMAIN heap[o].outOfOrderPoints : p = heap[o].outOfOrderPoints[j]
    <3>1. PICK j \in DOMAIN heap[o].outOfOrderPoints : p = heap[o].outOfOrderPoints[j]
      BY <2>7, Zenon
    <3>2. j \in OutOfOrder(heap, o, v, k)
      BY <2>5, <3>1, Zenon DEF OutOfOrder
    <3>3. <<o, "out of order", j>> \in PlacesOf(heap, o, v, k)
      BY <3>2, Zenon DEF PlacesOf
    <3>4. <<o, "out of order", j>> \in PlacesIn(heap, v, k)
      BY <3>3, Zenon DEF PlacesIn
    <3>5. p = PointAt(<<o, "out of order", j>>)
      BY <3>1, Zenon DEF PointAt
    <3> QED BY <2>5, <3>4, <3>5, PlacesHere, Zenon
  <2> QED BY <2>1, <2>6, <2>7, Zenon DEF Stored
<1>2. ASSUME NEW v \in Writers, NEW k \in Nat, NEW z \in Places(v, k)
      PROVE  \E p \in All : p.row = <<v, k>>
  <2>1. PICK o \in Objects : z \in PlacesOf(heap, o, v, k)
    BY <1>2, PlacesHere DEF PlacesIn
  <2>2. \/ \E j \in DOMAIN heap[o].points : heap[o].points[j].row = <<v, k>>
        \/ \E j \in DOMAIN heap[o].outOfOrderPoints : heap[o].outOfOrderPoints[j].row = <<v, k>>
    BY <2>1, ZenonT(60) DEF PlacesOf, InOrder, OutOfOrder
  <2>3. \E p \in Stored(o) : p.row = <<v, k>>
    BY <2>2, Zenon DEF Stored
  <2> QED BY <2>3, Zenon
<1>3. ASSUME NEW v \in Writers, NEW k \in Nat
      PROVE  Taken(local[v], k) <=> <<v, k>> \in Tally
  <2>1. /\ local[v] \in Local /\ local[v].i \in Nat \ {0} /\ Len(local[v].rows) \in Nat
        /\ Advancing(v)
    BY LocalFields, BatchFacts DEF Typed, TypeOK, Goroutines, Once
  <2>2. pc(v) \in {"idle", "failed", "returned"}
    BY Zenon DEF InFlight
  <2>3. CASE pc(v) = "returned"
    <3>1. local[v].i = Len(local[v].rows) + 1
      BY <2>1, <2>3, Zenon DEF Advancing, Ended, pc
    <3>2. Taken(local[v], k) <=> k \in (1..Len(local[v].rows)) \ local[v].outdated
      BY <2>1, <2>3, <3>1 DEF Taken, pc
    <3> QED BY <2>3, <3>2, Zenon DEF Tally, Ended
  <2>4. CASE pc(v) \in {"idle", "failed"}
    <3>1. local[v].i = 1
      BY <2>1, <2>4, Zenon DEF Advancing, pc
    <3>2. ~Taken(local[v], k)
      BY <2>4, <3>1 DEF Taken, pc
    <3> QED BY <2>4, <3>2, Zenon DEF Tally, Ended
  <2> QED BY <2>2, <2>3, <2>4, Zenon
<1>4. \A v \in Writers : \A k \in Nat : HeldIn(v, k)
  BY Zenon DEF Once
<1>5. f \in [All -> Tally]
  <2>1. ASSUME NEW p \in All PROVE p.row \in Tally
    <3>1. PICK v \in Writers, k \in Nat :
             p.row = <<v, k>> /\ \E z \in Places(v, k) : p = PointAt(z)
      BY <1>1, <2>1, Zenon
    <3>2. Places(v, k) # {}
      BY <3>1, Zenon
    <3>3. Taken(local[v], k)
      BY <1>4, <3>2, Zenon DEF HeldIn
    <3> QED BY <1>3, <3>1, <3>3, Zenon
  <2> QED BY <2>1, Zenon
<1>6. ASSUME NEW p \in All, NEW q \in All, p.row = q.row PROVE p = q
  <2>1. PICK v \in Writers, k \in Nat :
           p.row = <<v, k>> /\ \E z \in Places(v, k) : p = PointAt(z)
    BY <1>1, <1>6, Zenon
  <2>2. PICK y \in Places(v, k) : p = PointAt(y)
    BY <2>1, Zenon
  <2>3. PICK z \in Places(v, k) : q = PointAt(z)
    <3>1. PICK u \in Writers, j \in Nat :
             q.row = <<u, j>> /\ \E z \in Places(u, j) : q = PointAt(z)
      BY <1>1, <1>6, Zenon
    <3>2. u = v /\ j = k
      BY <1>6, <2>1, <3>1
    <3> QED BY <3>1, <3>2, Zenon
  <2>4. y = z
    BY <1>4 DEF HeldIn
  <2> QED BY <2>2, <2>3, <2>4, Zenon
<1>7. ASSUME NEW c \in Tally PROVE \E p \in All : p.row = c
  <2>1. PICK v \in Writers, k \in Nat : c = <<v, k>>
    BY <1>7 DEF Tally
  <2>2. Taken(local[v], k)
    BY <1>3, <1>7, <2>1, Zenon
  <2>3. \E z : Places(v, k) = {z}
    BY <1>4, <2>2, Zenon DEF HeldIn
  <2>4. \E z : z \in Places(v, k)
    BY <2>3
  <2> QED BY <1>2, <2>1, <2>4, Zenon
<1>8. f \in Injection(All, Tally) /\ f \in Surjection(All, Tally)
  <2>1. \A p, q \in All : f[p] = f[q] => p = q
    BY <1>6, Zenon
  <2>2. \A c \in Tally : \E p \in All : f[p] = c
    BY <1>7, Zenon
  <2> HIDE DEF f, All
  <2> QED BY <1>5, <2>1, <2>2, Zenon DEF Injection, Surjection, IsInjective
<1> HIDE DEF f, All
<1>9. Cardinality(All) = Cardinality(Tally)
  BY <1>8, FS_Injection, Zenon DEF Once
<1> QED BY <1>9, Zenon DEF Once, All

(* Whatever the interleaving, each row insertRows has accepted is held in   *)
(* exactly one place and every other one in none; and once the calls have   *)
(* returned, numPoints is the number of points the partition holds.         *)
THEOREM RowsKeptOnce == Spec => []RowKeptOnce
<1>1. Typed /\ Once => RowKeptOnce
  <2> SUFFICES ASSUME Typed, Once PROVE RowKeptOnce
    BY Zenon
  <2>1. ASSUME NEW w \in Writers, NEW k \in DOMAIN local[w].rows
        PROVE  Cardinality(Places(w, k)) =
                  IF \/ k < local[w].i /\ k \notin local[w].outdated
                     \/ k = local[w].i /\ local[w].pc \in {"storeMax", "addSize"}
                  THEN 1 ELSE 0
    <3>1. k \in Nat /\ k >= 1
      <4>1. local[w].rows \in Batches \cup {<<>>}
        BY LocalFields, Zenon DEF Typed, TypeOK, Goroutines
      <4> QED BY <2>1, <4>1, BatchFacts, SMTT(30)
    <3>2. HeldIn(w, k)
      BY <3>1, Zenon DEF Once
    <3>3. CASE Taken(local[w], k)
      <4>1. PICK z : Places(w, k) = {z}
        BY <3>2, <3>3, Zenon DEF HeldIn
      <4>2. Cardinality(Places(w, k)) = 1
        BY <4>1, FS_Singleton, Zenon
      <4> QED BY <3>1, <3>3, <4>2, Zenon DEF Taken
    <3>4. CASE ~Taken(local[w], k)
      <4>1. Cardinality(Places(w, k)) = 0
        BY <3>2, <3>4, FS_EmptySet, Zenon DEF HeldIn
      <4> QED BY <3>1, <3>4, <4>1, Zenon DEF Taken
    <3> QED BY <3>3, <3>4, Zenon
  <2>2. InFlight = {} => numPoints = Cardinality(UNION {Stored(o) : o \in Objects})
    BY StoredTally, Zenon
  <2> QED BY <2>1, <2>2, Zenon DEF RowKeptOnce
<1> QED BY <1>1, OnceInit, OnceInductive, TypedAlways, PTL DEF Spec

-----------------------------------------------------------------------------
(* encodeAllPoints: how often the encoder is given a point *)

PlacesFrom(s, i, p) == {k \in i..Len(s) : s[k] = p}
CountFrom(s, i, p) == Cardinality(PlacesFrom(s, i, p))
One(x, p) == IF x = p THEN 1 ELSE 0

(* A bijection keeps the number of elements. *)
LEMMA SameCount ==
    ASSUME NEW A, IsFiniteSet(A), NEW B, NEW f \in [A -> B],
           \A x, y \in A : f[x] = f[y] => x = y,
           \A z \in B : \E x \in A : f[x] = z
    PROVE  Cardinality(B) = Cardinality(A)
<1>1. f \in Bijection(A, B)
  BY Zenon DEF Bijection, Injection, Surjection, IsInjective
<1>2. ExistsBijection(A, B)
  BY <1>1, Zenon DEF ExistsBijection
<1> QED BY <1>2, FS_Bijection, Zenon

(* The places of p from i on: i itself, perhaps, and those behind it. *)
LEMMA CountStep ==
    ASSUME NEW S, NEW s \in Seq(S), NEW i \in Nat, NEW p
    PROVE  /\ CountFrom(s, i, p) \in Nat /\ IsFiniteSet(PlacesFrom(s, i, p))
           /\ i > Len(s) => CountFrom(s, i, p) = 0
           /\ i <= Len(s) => CountFrom(s, i, p) = One(s[i], p) + CountFrom(s, i + 1, p)
<1> DEFINE n == Len(s)
<1>0. n \in Nat
  OBVIOUS
<1>1. ASSUME NEW j \in Nat PROVE IsFiniteSet(PlacesFrom(s, j, p)) /\ CountFrom(s, j, p) \in Nat
  <2>1. IsFiniteSet(j..n)
    BY <1>0, FS_Interval
  <2>2. PlacesFrom(s, j, p) \in SUBSET (j..n)
    BY Zenon DEF PlacesFrom
  <2>3. IsFiniteSet(PlacesFrom(s, j, p))
    BY <2>1, <2>2, FS_Subset, Zenon
  <2> QED BY <2>3, FS_CardinalityType, Zenon DEF CountFrom
<1>2. ASSUME i > n PROVE CountFrom(s, i, p) = 0
  <2>1. PlacesFrom(s, i, p) = {}
    BY <1>0, <1>2 DEF PlacesFrom
  <2> QED BY <2>1, FS_EmptySet, Zenon DEF CountFrom
<1>3. ASSUME i <= n PROVE CountFrom(s, i, p) = One(s[i], p) + CountFrom(s, i + 1, p)
  <2>1. i + 1 \in Nat /\ i \notin PlacesFrom(s, i + 1, p)
    BY DEF PlacesFrom
  <2>2. CASE s[i] = p
    <3>1. PlacesFrom(s, i, p) = PlacesFrom(s, i + 1, p) \cup {i}
      BY <1>0, <1>3, <2>2 DEF PlacesFrom
    <3>2. Cardinality(PlacesFrom(s, i + 1, p) \cup {i}) = Cardinality(PlacesFrom(s, i + 1, p)) + 1
      BY <1>1, <2>1, FS_AddElement, Zenon
    <3>3. CountFrom(s, i + 1, p) \in Nat
      BY <1>1, <2>1, Zenon
    <3> QED BY <2>2, <3>1, <3>2, <3>3, SMTT(30) DEF CountFrom, One
  <2>3. CASE s[i] # p
    <3>1. PlacesFrom(s, i, p) = PlacesFrom(s, i + 1, p)
      BY <1>0, <1>3, <2>3, SMTT(30) DEF PlacesFrom
    <3>2. CountFrom(s, i + 1, p) \in Nat
      BY <1>1, <2>1
    <3> QED BY <2>3, <3>1, <3>2 DEF CountFrom, One
  <2> QED BY <2>2, <2>3, Zenon
<1> QED BY <1>1, <1>2, <1>3, Zenon

(* A sequence whose elements from i on are those of t from j on has them as *)
(* often.                                                                   *)
LEMMA CountShift ==
    ASSUME NEW S, NEW s \in Seq(S), NEW t \in Seq(S), NEW i \in Nat, NEW j \in Nat,
           Len(s) - i = Len(t) - j,
           \A k \in i..Len(s) : s[k] = t[(k - i) + j], NEW p
    PROVE  CountFrom(s, i, p) = CountFrom(t, j, p)
<1> DEFINE f == [k \in PlacesFrom(s, i, p) |-> (k - i) + j]
           A == PlacesFrom(s, i, p)
           B == PlacesFrom(t, j, p)
           m == Len(s)
           n == Len(t)
<1>1. m \in Nat /\ n \in Nat /\ IsFiniteSet(A)
  BY CountStep
<1>2. \A k \in A : k \in i..m /\ s[k] = p
  BY Zenon DEF PlacesFrom
<1>3. ASSUME NEW k \in A PROVE (k - i) + j \in B
  <2> HIDE DEF m, n
  <2>1. (k - i) + j \in j..n
    BY <1>1, <1>2, SMTT(30) DEF m, n
  <2>2. t[(k - i) + j] = p
    BY <1>2, Zenon DEF m
  <2> QED BY <2>1, <2>2, Zenon DEF PlacesFrom, n
<1>4. f \in [A -> B]
  <2> HIDE DEF A, B
  <2> QED BY <1>3, Zenon DEF A
<1>5. ASSUME NEW x \in A, NEW y \in A, f[x] = f[y] PROVE x = y
  <2>1. x \in Int /\ y \in Int /\ (x - i) + j = (y - i) + j
    BY <1>2, <1>5
  <2> QED BY <2>1, SMTT(30)
<1>6. ASSUME NEW z \in B PROVE \E x \in A : f[x] = z
  <2>1. z \in j..n /\ t[z] = p
    BY Zenon DEF PlacesFrom
  <2> DEFINE x == (z - j) + i
  <2>2. x \in i..m /\ (x - i) + j = z
    BY <1>1, <2>1
  <2>3. s[x] = p
    <3> HIDE DEF x
    <3> QED BY <2>1, <2>2, Zenon
  <2>4. x \in A
    BY <2>2, <2>3, Zenon DEF PlacesFrom
  <2> HIDE DEF x
  <2> QED BY <2>2, <2>4, Zenon
<1> HIDE DEF f, A, B
<1>7. Cardinality(B) = Cardinality(A)
  BY <1>1, <1>4, <1>5, <1>6, SameCount, ZenonT(60)
<1> QED BY <1>7, Zenon DEF CountFrom, A, B

(* The end of the merge: what is left of one sequence is copied. *)
LEMMA CountCopy ==
    ASSUME NEW S, NEW s \in Seq(S), NEW i \in 1..(Len(s) + 1), NEW p
    PROVE  CountFrom(SubSeq(s, i, Len(s)), 1, p) = CountFrom(s, i, p)
<1> DEFINE n == Len(s)
           t == SubSeq(s, i, n)
<1>1. n \in Nat /\ t \in Seq(S) /\ Len(t) = (n + 1) - i
  OBVIOUS
<1>2. \A k \in 1..Len(t) : t[k] = s[(k - 1) + i] /\ (k - 1) + i \in i..n
  OBVIOUS
<1> HIDE DEF t, n
<1>3. \A k \in i..n : (k - i) + 1 \in 1..Len(t) /\ ((k - i) + 1) - 1 + i = k
  BY <1>1
<1>4. Len(s) - i = Len(t) - 1
  BY <1>1 DEF n
<1>5. i \in Nat /\ 1 \in Nat
  OBVIOUS
<1>6. \A k \in i..Len(s) : s[k] = t[(k - i) + 1]
  BY <1>2, <1>3, Zenon DEF n
<1>7. CountFrom(s, i, p) = CountFrom(t, 1, p)
  BY <1>1, <1>4, <1>5, <1>6, CountShift, SMTT(30)
<1> QED BY <1>7, Zenon DEF t, n

(* One more point in front *)
LEMMA CountOneMore ==
    ASSUME NEW S, NEW m \in Seq(S), NEW x \in S, NEW p
    PROVE  CountFrom(<<x>> \o m, 1, p) = One(x, p) + CountFrom(m, 1, p)
<1> DEFINE t == <<x>> \o m
           n == Len(m)
<1>1. n \in Nat /\ t \in Seq(S) /\ Len(t) = n + 1
  OBVIOUS
<1>2. t[1] = x /\ \A k \in 2..(n + 1) : t[k] = m[k - 1] /\ k - 1 \in 1..n
  OBVIOUS
<1> HIDE DEF t
<1>3. CountFrom(t, 1, p) = One(x, p) + CountFrom(t, 2, p)
  <2>1. 1 \in Nat /\ 1 <= Len(t) /\ 1 + 1 = 2
    BY <1>1
  <2> QED BY <1>1, <1>2, <2>1, CountStep, SMTT(30)
<1>4. CountFrom(t, 2, p) = CountFrom(m, 1, p)
  <2>1. 2 \in Nat /\ 1 \in Nat /\ Len(t) - 2 = Len(m) - 1
    BY <1>1
  <2>2. \A k \in 2..Len(t) : t[k] = m[(k - 2) + 1]
    BY <1>1, <1>2
  <2> QED BY <1>1, <2>1, <2>2, CountShift, SMTT(30)
<1> QED BY <1>3, <1>4, Zenon DEF t

(* From every pair of cursors the merge gives a point as often as what is   *)
(* left of both sequences has it.                                           *)
LEMMA MergingCounts ==
    ASSUME NEW S, NEW late \in Seq(S), NEW points \in Seq(S), NEW p
    PROVE  \A c \in MergeCursors(late, points) :
              CountFrom(Merging(late, points)[c], 1, p)
                  = CountFrom(late, c[1], p) + CountFrom(points, c[2], p)
<1> DEFINE D == MergeCursors(late, points)
           m == Merging(late, points)
           Same(c) == CountFrom(m[c], 1, p) = CountFrom(late, c[1], p) + CountFrom(points, c[2], p)
           P == {c \in D : Same(c)}
           a == Len(late)
           b == Len(points)
<1>1. /\ m \in [D -> Seq(S)]
      /\ \A c \in D : m[c] = MergeRound(late, points, m, c)
  BY MergingDef, Zenon
<1> HIDE DEF m
<1>2. ASSUME NEW c \in D, \A d \in D : Left(late, points)[d] < Left(late, points)[c] => d \in P
      PROVE  Same(c)
  <2>0. m[c] = MergeRound(late, points, m, c)
    BY <1>1, Zenon
  <2>1. c[1] \in 1..(a + 1) /\ c[2] \in 1..(b + 1)
    BY NextCursors, Zenon
  <2>2. /\ a \in Nat /\ b \in Nat /\ c[1] \in Nat /\ c[2] \in Nat
        /\ c[1] + 1 \in Nat /\ c[2] + 1 \in Nat
    BY <2>1, SMTT(30)
  <2>3. /\ CountFrom(late, c[1], p) \in Nat /\ CountFrom(points, c[2], p) \in Nat
        /\ CountFrom(late, c[1] + 1, p) \in Nat /\ CountFrom(points, c[2] + 1, p) \in Nat
    BY <2>2, CountStep, Zenon
  <2>4. CASE c[1] > a
    <3>1. m[c] = SubSeq(points, c[2], b)
      BY <2>0, <2>4, Zenon DEF MergeRound
    <3>2. CountFrom(m[c], 1, p) = CountFrom(points, c[2], p)
      BY <2>1, <3>1, CountCopy, Zenon
    <3>3. CountFrom(late, c[1], p) = 0
      BY <2>2, <2>4, CountStep, Zenon
    <3> QED BY <2>3, <3>2, <3>3, SMTT(30)
  <2>5. CASE c[1] <= a /\ c[2] > b
    <3>1. m[c] = SubSeq(late, c[1], a)
      <4>1. ~ (c[1] > a)
        BY <2>2, <2>5
      <4> QED BY <2>0, <2>5, <4>1, Zenon DEF MergeRound
    <3>2. CountFrom(m[c], 1, p) = CountFrom(late, c[1], p)
      BY <2>1, <3>1, CountCopy, Zenon
    <3>3. CountFrom(points, c[2], p) = 0
      BY <2>2, <2>5, CountStep, Zenon
    <3> QED BY <2>3, <3>2, <3>3
  <2>6. CASE c[1] <= a /\ c[2] <= b
    <3>0. ~ (c[1] > a) /\ ~ (c[2] > b) /\ late[c[1]] \in S /\ points[c[2]] \in S
      BY <2>1, <2>2, <2>6, SMTT(30)
    <3>1. /\ CountFrom(late, c[1], p) = One(late[c[1]], p) + CountFrom(late, c[1] + 1, p)
          /\ CountFrom(points, c[2], p) = One(points[c[2]], p) + CountFrom(points, c[2] + 1, p)
      BY <2>2, <2>6, CountStep, ZenonT(60)
    <3>2. One(late[c[1]], p) \in Nat /\ One(points[c[2]], p) \in Nat
      BY Zenon DEF One
    <3>3. CASE late[c[1]].ts < points[c[2]].ts
      <4> DEFINE d == <<c[1] + 1, c[2]>>
      <4>1. m[c] = <<late[c[1]]>> \o m[d]
        BY <2>0, <3>0, <3>3, Zenon DEF MergeRound
      <4>2. d \in D /\ Left(late, points)[d] < Left(late, points)[c] /\ m[d] \in Seq(S)
        BY <1>1, <2>6, NextCursors, Zenon
      <4>3. d[1] = c[1] + 1 /\ d[2] = c[2]
        BY Zenon
      <4> HIDE DEF d
      <4>4. CountFrom(m[d], 1, p) = CountFrom(late, c[1] + 1, p) + CountFrom(points, c[2], p)
        BY <1>2, <4>2, <4>3, Zenon
      <4>5. CountFrom(m[c], 1, p) = One(late[c[1]], p) + CountFrom(m[d], 1, p)
        BY <3>0, <4>1, <4>2, CountOneMore, ZenonT(60)
      <4> QED BY <2>3, <3>1, <3>2, <4>4, <4>5, SMTT(30)
    <3>4. CASE ~ (late[c[1]].ts < points[c[2]].ts)
      <4> DEFINE d == <<c[1], c[2] + 1>>
      <4>1. m[c] = <<points[c[2]]>> \o m[d]
        BY <2>0, <3>0, <3>4, Zenon DEF MergeRound
      <4>2. d \in D /\ Left(late, points)[d] < Left(late, points)[c] /\ m[d] \in Seq(S)
        BY <1>1, <2>6, NextCursors, Zenon
      <4>3. d[1] = c[1] /\ d[2] = c[2] + 1
        BY Zenon
      <4> HIDE DEF d
      <4>4. CountFrom(m[d], 1, p) = CountFrom(late, c[1], p) + CountFrom(points, c[2] + 1, p)
        BY <1>2, <4>2, <4>3, Zenon
      <4>5. CountFrom(m[c], 1, p) = One(points[c[2]], p) + CountFrom(m[d], 1, p)
        BY <3>0, <4>1, <4>2, CountOneMore, ZenonT(60)
      <4> QED BY <2>3, <3>1, <3>2, <4>4, <4>5, SMTT(30)
    <3> QED BY <3>3, <3>4, Zenon
  <2> QED BY <2>2, <2>4, <2>5, <2>6, SMTT(30)
<1>3. P = D
  <2>1. P \in SUBSET D
    BY Zenon
  <2>2. \A c \in D : (\A d \in D : Left(late, points)[d] < Left(late, points)[c] => d \in P) => c \in P
    BY <1>2, Zenon
  <2> HIDE DEF P
  <2> QED BY <2>1, <2>2, MergeInduction, Zenon
<1> QED BY <1>3, Zenon DEF m

(* Sorting moves the places of a point, and leaves their number. *)
LEMMA SortCount ==
    ASSUME NEW S, Timed(S), NEW s \in Seq(S), NEW p
    PROVE  CountFrom(SortSlice(s), 1, p) = CountFrom(s, 1, p)
<1> DEFINE n == Len(s)
           q == SortOrder(s)
           t == SortSlice(s)
           A == PlacesFrom(t, 1, p)
           B == PlacesFrom(s, 1, p)
           f == [k \in A |-> q[k]]
<1>1. /\ t \in Seq(S) /\ Len(t) = n /\ q \in Bijection(1..n, 1..n)
      /\ \A k \in 1..n : t[k] = s[q[k]]
  BY SortSliceFacts, Zenon
<1>2. /\ q \in [1..n -> 1..n] /\ \A j, k \in 1..n : q[j] = q[k] => j = k
      /\ \A m \in 1..n : \E k \in 1..n : q[k] = m
  BY <1>1, Zenon DEF Bijection, Injection, Surjection, IsInjective
<1> HIDE DEF q, t
<1>3. \A k : k \in A <=> k \in 1..n /\ s[q[k]] = p
  BY <1>1, Zenon DEF PlacesFrom
<1>4. \A k : k \in B <=> k \in 1..n /\ s[k] = p
  BY Zenon DEF PlacesFrom
<1>5. IsFiniteSet(A)
  BY <1>1, CountStep, Zenon
<1> HIDE DEF A, B, n
<1>6. \A k \in A : q[k] \in B
  BY <1>2, <1>3, <1>4, Zenon
<1>7. f \in [A -> B] /\ \A x, y \in A : f[x] = f[y] => x = y
  BY <1>2, <1>3, <1>6, Zenon
<1>8. ASSUME NEW z \in B PROVE \E x \in A : f[x] = z
  <2>1. PICK k \in 1..n : q[k] = z
    BY <1>2, <1>4, Zenon
  <2>2. k \in A
    BY <1>3, <1>4, <2>1, Zenon
  <2> QED BY <2>1, <2>2, Zenon
<1> HIDE DEF f
<1>9. Cardinality(B) = Cardinality(A)
  BY <1>5, <1>7, <1>8, SameCount, ZenonT(60)
<1> QED BY <1>9, Zenon DEF A, B, t, CountFrom

(* encodeAllPoints gives the encoder each point as often as it finds it. *)
LEMMA EncodeAllCounts ==
    ASSUME NEW S, Timed(S), NEW points \in Seq(S), NEW late \in Seq(S), NEW p
    PROVE  CountFrom(EncodeAll(points, late), 1, p) = CountFrom(points, 1, p) + CountFrom(late, 1, p)
<1> DEFINE t == SortSlice(late)
           c == <<1, 1>>
<1>1. t \in Seq(S) /\ CountFrom(t, 1, p) = CountFrom(late, 1, p)
  BY SortSliceFacts, SortCount, Zenon
<1>2. c \in MergeCursors(t, points) /\ c[1] = 1 /\ c[2] = 1
  BY <1>1 DEF MergeCursors
<1>3. EncodeAll(points, late) = Merging(t, points)[c]
  BY MergeIsMerging, Zenon DEF EncodeAll
<1> HIDE DEF t, c
<1>4. CountFrom(Merging(t, points)[c], 1, p) = CountFrom(t, 1, p) + CountFrom(points, 1, p)
  <2>1. CountFrom(Merging(t, points)[c], 1, p) = CountFrom(t, c[1], p) + CountFrom(points, c[2], p)
    <3>1. \A d \in MergeCursors(t, points) :
             CountFrom(Merging(t, points)[d], 1, p) = CountFrom(t, d[1], p) + CountFrom(points, d[2], p)
      BY <1>1, MergingCounts, ZenonT(60)
    <3> QED BY <1>2, <3>1, Zenon
  <2> QED BY <1>2, <2>1, Zenon
<1>5. CountFrom(t, 1, p) \in Nat /\ CountFrom(points, 1, p) \in Nat
  <2>1. 1 \in Nat
    OBVIOUS
  <2> QED BY <1>1, <2>1, CountStep, Zenon
<1> QED BY <1>1, <1>3, <1>4, <1>5, SMTT(30)

(* encodeAllPoints of memory_partition.go, for points in order and any      *)
(* out-of-order points: the encoder is given every point, as often as it is *)
(* there, in order of time.                                                 *)
THEOREM EncodesAscending ==
    ASSUME NEW S, Timed(S), NEW points \in Seq(S), NEW late \in Seq(S), InTimeOrder(points)
    PROVE  AscendingMerge(points, late)
<1> DEFINE out == EncodeAll(points, late)
<1>1. /\ out \in Seq(S) /\ Len(out) = Len(points) + Len(late) /\ InTimeOrder(out)
      /\ \A p : CountFrom(out, 1, p) = CountFrom(points, 1, p) + CountFrom(late, 1, p)
  BY EncodeAllFacts, EncodeAllCounts, Zenon
<1> HIDE DEF out
<1>2. ASSUME NEW s \in Seq(S), NEW p PROVE Occurrences(s, p) = CountFrom(s, 1, p)
  <2>1. DOMAIN s = 1..Len(s)
    OBVIOUS
  <2> QED BY <2>1, Zenon DEF Occurrences, CountFrom, PlacesFrom
<1>3. \A p : Occurrences(out, p) = Occurrences(points, p) + Occurrences(late, p)
  BY <1>1, <1>2, Zenon
<1>4. ASSUME NEW k \in 1..(Len(out) - 1) PROVE out[k].ts <= out[k + 1].ts
  <2>1. k \in DOMAIN out /\ k + 1 \in DOMAIN out /\ k < k + 1
    BY <1>1
  <2> QED BY <1>1, <2>1, Zenon DEF InTimeOrder
<1> QED BY <1>1, <1>3, <1>4, Zenon DEF AscendingMerge, out

(* encodeAllPoints: with one writer at a time the flush gives the encoder   *)
(* all points of a metric, exactly once and ascending, however many batches *)
(* the points came in and however many of them were out of order.           *)
THEOREM SerialEncoded == WorkersLimit = 1 /\ Spec => []EncodedInOrder
<1>1. ASSUME TypeOK, PointsInOrder PROVE EncodedInOrder
  <2>1. Timed(Points)
    BY DEF Timed, Points
  <2>2. SUFFICES ASSUME NEW o \in Objects
                 PROVE  AscendingMerge(heap[o].points, heap[o].outOfOrderPoints)
    BY Zenon DEF EncodedInOrder
  <2>3. heap[o].points \in Seq(Points) /\ heap[o].outOfOrderPoints \in Seq(Points)
    BY <1>1, Zenon DEF TypeOK, Metric
  <2>4. \A k \in DOMAIN heap[o].points : heap[o].points[k].ts \in Int
    BY <2>1, <2>3 DEF Timed
  <2>5. InTimeOrder(heap[o].points)
    BY <1>1, <2>4 DEF PointsInOrder, InTimeOrder
  <2> QED BY <2>1, <2>3, <2>5, EncodesAscending, ZenonT(60)
<1>2. SUFFICES ASSUME WorkersLimit = 1 PROVE Spec => []EncodedInOrder
  OBVIOUS
<1>3. Spec => []PointsInOrder
  BY <1>2, SerialInOrder, Zenon
<1> QED BY <1>1, <1>3, TypeCorrect, PTL
=============================================================================
