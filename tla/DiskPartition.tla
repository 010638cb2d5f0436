--------------------------- MODULE DiskPartition ---------------------------
(***************************************************************************)
(* The way of a row through one partition: named and inserted into memory  *)
(* (or recovered from the log under its name), encoded by flush into one   *)
(* data file for all series, and decoded by a select on the disk partition.*)
(*                                                                         *)
(* The goroutines inside a memory partition are MemoryPartition's; here an *)
(* insert is one step and flush takes one step per point it encodes, since *)
(* encodeAllPoints holds no lock.                                          *)
(***************************************************************************)
EXTENDS Gorilla, Labels

CONSTANTS Inputs,       \* records of the rows to insert and of the queries
          LateInserts,  \* whether an insert may still be going on during flush
          None

(* What becomes of timestamp 0 is insertRows' matter: none gets here. *)
ASSUME InputsAssumption ==
    /\ LateInserts \in BOOLEAN
    /\ \A in \in Inputs : \A k \in DOMAIN in.rows : in.rows[k].t # 0

VARIABLES
    input,     \* the rows still to come and the queries
    metrics,   \* memoryPartition.metrics: name -> ordered and out-of-order points
    phase,     \* "memory", "flush", "closed" (the files are written), "disk"
    cur,       \* the metric that flush encodes, with its offset and the cursors oi, pi
    encoder,
    data,      \* the data file
    meta,      \* the metrics of meta.json: name -> offset and number of points
    expired,
    select,    \* a select on the disk partition: query, decoder, points, state
    kept,      \* history: the rows inserted, with their series and name
    marks      \* history: name -> where the encoder stood after each point
vars == <<input, metrics, phase, cur, encoder, data, meta, expired, select, kept, marks>>
memory == <<input, metrics, kept>>
disk == <<cur, encoder, data, meta, marks>>

(* The series that a caller means: the metric with its valid labels, in any *)
(* order.  No labels and no valid labels are two series.                    *)
Series(metric, labels) ==
    [metric |-> metric, labels |-> {l \in ToSet(labels) : Valid(l)}, bare |-> labels = <<>>]

Idle == [state |-> "idle"]

Init ==
    /\ input \in Inputs
    /\ metrics = << >> /\ phase = "memory" /\ cur = None /\ encoder = NewEncoder
    /\ data = <<>> /\ meta = << >> /\ expired = FALSE /\ select = Idle
    /\ kept = <<>> /\ marks = << >>

-----------------------------------------------------------------------------
NewMetric == [points |-> <<>>, outOfOrderPoints |-> <<>>]

getMetric(name) == IF name \in DOMAIN metrics THEN metrics ELSE metrics @@ (name :> NewMetric)

insertPoint(mt, p) ==
    IF mt.points = <<>> \/ Last(mt.points).t < p.t
    THEN [mt EXCEPT !.points = Append(@, p)]
    ELSE [mt EXCEPT !.outOfOrderPoints = Append(@, p)]

(* The log names the row first and leaves its labels as it changed them.    *)
(* A recovered row has the name as its metric, and no labels.               *)
InsertRow(recovered) ==
    LET row == Head(input.rows)
        logged == marshalMetricName(row.metric, row.labels)
        name == IF recovered THEN marshalMetricName(logged, <<>>)
                ELSE marshalMetricName(row.metric, Normalised(row.labels))
    IN  /\ phase = "memory" \/ (LateInserts /\ phase = "flush")
        /\ input.rows # <<>>
        /\ metrics' = [getMetric(name) EXCEPT ![name] = insertPoint(@, [t |-> row.t, v |-> row.v])]
        /\ input' = [input EXCEPT !.rows = Tail(@)]
        /\ kept' = Append(kept, [series |-> Series(row.metric, row.labels), name |-> name,
                                 t |-> row.t, v |-> row.v])
        /\ UNCHANGED <<phase, expired, select>> /\ UNCHANGED disk

(* A select in memory makes the metric it asks for. *)
SelectInMemory(q) ==
    /\ phase = "memory"
    /\ metrics' = getMetric(marshalMetricName(q.metric, q.labels))
    /\ UNCHANGED <<input, phase, expired, select, kept>> /\ UNCHANGED disk

-----------------------------------------------------------------------------
(* flush *)
Flush ==
    /\ phase = "memory" /\ kept # <<>> /\ (LateInserts \/ input.rows = <<>>)
    /\ phase' = "flush"
    /\ UNCHANGED <<expired, select>> /\ UNCHANGED memory /\ UNCHANGED disk

(* Range visits the metrics in any order. *)
BeginMetric(name) ==
    /\ phase = "flush" /\ cur = None /\ name \in DOMAIN metrics \ DOMAIN meta
    /\ cur' = [name |-> name, offset |-> Len(data), oi |-> 1, pi |-> 1, flushed |-> FALSE]
    /\ metrics' = [metrics EXCEPT ![name].outOfOrderPoints =
                      SortSeq(@, LAMBDA p, q : p.t < q.t)]
    /\ marks' = marks @@ (name :> <<>>)
    /\ UNCHANGED <<input, phase, expired, select, kept, encoder, data, meta>>

(* Which of the two slices the next point comes from, a tie from points *)
NextIsLate(mt) ==
    /\ cur.oi <= Len(mt.outOfOrderPoints)
    /\ cur.pi <= Len(mt.points) => mt.outOfOrderPoints[cur.oi].t < mt.points[cur.pi].t

Encoded(mt) == cur.oi > Len(mt.outOfOrderPoints) /\ cur.pi > Len(mt.points)

BitsWritten(e) == Len(e.buf.stream) * ByteBits - e.buf.count

EncodePoint ==
    LET mt == metrics[cur.name]
        p == IF NextIsLate(mt) THEN mt.outOfOrderPoints[cur.oi] ELSE mt.points[cur.pi]
    IN  /\ cur # None /\ ~cur.flushed /\ ~Encoded(mt)
        /\ encoder' = encodePoint(encoder, p)
        /\ cur' = IF NextIsLate(mt) THEN [cur EXCEPT !.oi = @ + 1] ELSE [cur EXCEPT !.pi = @ + 1]
        /\ marks' = [marks EXCEPT ![cur.name] = Append(@, BitsWritten(encoder'))]
        /\ UNCHANGED <<phase, expired, select, data, meta>> /\ UNCHANGED memory

(* Mutant: the encoder is not reset. *)
FlushEncoder_KeepsTimes ==
    /\ cur # None /\ ~cur.flushed /\ Encoded(metrics[cur.name])
    /\ data' = data \o encoder.buf.stream
    /\ encoder' = [encoder EXCEPT !.buf = EmptyStream]
    /\ cur' = [cur EXCEPT !.flushed = TRUE]
    /\ UNCHANGED <<phase, expired, select, meta, marks>> /\ UNCHANGED memory

(* encoder.flush appends the bytes to the file and resets the encoder. *)
FlushEncoder ==
    /\ cur # None /\ ~cur.flushed /\ Encoded(metrics[cur.name])
    /\ data' = data \o encoder.buf.stream
    /\ encoder' = NewEncoder
    /\ cur' = [cur EXCEPT !.flushed = TRUE]
    /\ UNCHANGED <<phase, expired, select, meta, marks>> /\ UNCHANGED memory

(* The number of points is read after they were encoded. *)
RecordMetric ==
    LET mt == metrics[cur.name]
    IN  /\ cur # None /\ cur.flushed
        /\ meta' = meta @@ (cur.name :>
              [offset |-> cur.offset, num |-> Len(mt.points) + Len(mt.outOfOrderPoints)])
        /\ cur' = None
        /\ UNCHANGED <<phase, expired, select, encoder, data, marks>> /\ UNCHANGED memory

WriteMeta ==
    /\ phase = "flush" /\ cur = None /\ DOMAIN metrics = DOMAIN meta
    /\ phase' = "closed"
    /\ UNCHANGED <<expired, select>> /\ UNCHANGED memory /\ UNCHANGED disk

(* An empty file would be ErrNoDataPoints; one with a row is not empty. *)
openDiskPartition ==
    /\ phase = "closed" /\ data # <<>>
    /\ phase' = "disk"
    /\ UNCHANGED <<expired, select>> /\ UNCHANGED memory /\ UNCHANGED disk

-----------------------------------------------------------------------------
(* selectDataPoints *)
Expire ==
    /\ phase = "disk" /\ ~expired
    /\ expired' = TRUE
    /\ UNCHANGED <<phase, select>> /\ UNCHANGED memory /\ UNCHANGED disk

selectDataPoints(q) ==
    LET name == marshalMetricName(q.metric, q.labels)
    IN  /\ phase = "disk" /\ select = Idle
        /\ select' =
              IF expired THEN [state |-> "expired"]
              ELSE IF name \notin DOMAIN meta THEN [state |-> "none", query |-> q]
              ELSE [state |-> "decode", query |-> q, name |-> name, points |-> <<>>, i |-> 0,
                    decoder |-> newSeriesDecoder(SubSeq(data, meta[name].offset + 1, Len(data)))]
        /\ UNCHANGED <<phase, expired>> /\ UNCHANGED memory /\ UNCHANGED disk

(* A point before the range is skipped, one behind it ends the loop.       *)
Taken(s) ==
    LET p == [t |-> s.decoder.t, v |-> s.decoder.v]
    IN  IF ~s.decoder.ok THEN [state |-> "failed", query |-> s.query]
        ELSE IF p.t < s.query.start THEN s
        ELSE IF p.t >= s.query.end THEN [s EXCEPT !.state = "points"]
        ELSE [s EXCEPT !.points = Append(@, p)]

(* One turn of the loop *)
DecodePoint ==
    /\ select.state = "decode" /\ select.i < meta[select.name].num
    /\ select' = Taken([select EXCEPT !.decoder = decodePoint(@), !.i = @ + 1])
    /\ UNCHANGED <<phase, expired>> /\ UNCHANGED memory /\ UNCHANGED disk

SelectReturns ==
    /\ select.state = "decode" /\ select.i >= meta[select.name].num
    /\ select' = [select EXCEPT !.state = "points"]
    /\ UNCHANGED <<phase, expired>> /\ UNCHANGED memory /\ UNCHANGED disk

(* The caller takes the points or the error. *)
Returned ==
    /\ select.state \notin {"idle", "decode"}
    /\ select' = Idle
    /\ UNCHANGED <<phase, expired>> /\ UNCHANGED memory /\ UNCHANGED disk

Next ==
    \/ \E recovered \in BOOLEAN : InsertRow(recovered)
    \/ \E q \in input.queries : SelectInMemory(q) \/ selectDataPoints(q)
    \/ Flush \/ EncodePoint \/ FlushEncoder \/ RecordMetric \/ WriteMeta
    \/ \E name \in DOMAIN metrics : BeginMetric(name)
    \/ openDiskPartition \/ Expire \/ DecodePoint \/ SelectReturns \/ Returned

Spec == Init /\ [][Next]_vars

-----------------------------------------------------------------------------
(* The rows that a query asks for, and how often a point is among them *)
Asked(q) == SelectSeq(kept, LAMBDA row : /\ row.series = Series(q.metric, q.labels)
                                         /\ q.start <= row.t /\ row.t < q.end)
Count(s, p) == Cardinality({k \in DOMAIN s : s[k].t = p.t /\ s[k].v = p.v})

(* A select on a disk partition does not fail, and returns exactly the      *)
(* points of the rows that were inserted with its metric and labels and lie *)
(* in its range, each as often as it was inserted and in order of time: the *)
(* way through marshalMetricName, encodeAllPoints, encodePoint, the file,   *)
(* the offset and decodePoint loses and invents nothing.                    *)
ReadsBack ==
    LET asked == Asked(select.query)
    IN  /\ select.state # "failed"
        /\ select.state = "none" => asked = <<>>
        /\ select.state = "points" =>
              /\ Len(select.points) = Len(asked)
              /\ \A k \in DOMAIN asked : Count(select.points, asked[k]) = Count(asked, asked[k])
              /\ \A k \in 1..Len(select.points) - 1 : select.points[k].t <= select.points[k + 1].t

(* decodePoint reads as many bits of a point as encodePoint wrote for it:   *)
(* after any number of points the reader stands, in spite of the bytes that *)
(* loadNextBuffer has taken in advance, where the encoder stood, and never  *)
(* in the bytes of the series that comes next in the file.                  *)
Lockstep ==
    LET br == select.decoder.br
    IN  select.state \in {"decode", "points"} /\ select.i > 0 =>
            /\ select.i <= Len(marks[select.name])
            /\ br.streamOffset * ByteBits - br.valid = marks[select.name][select.i]

(* marshalMetricName gives two rows one name exactly when they belong to    *)
(* the same series, whichever order their labels come in, whether or not    *)
(* the log has sorted and cut them before, and whether or not the row was   *)
(* recovered from the log under its name.                                   *)
SeriesApart ==
    \A i, j \in DOMAIN kept : kept[i].series = kept[j].series <=> kept[i].name = kept[j].name
=============================================================================
