------------------------------ MODULE Storage ------------------------------
(***************************************************************************)
(* storage.go: one client that inserts rows of one metric, the             *)
(* flushPartitions goroutines ensureActiveHead starts, the goroutine that  *)
(* removes expired partitions, Close, a crash at any moment and the        *)
(* recovery of NewStorage.                                                 *)
(*                                                                         *)
(* One call on the partition list is one step (PartitionList looks inside  *)
(* it), one insertRows call on a memory partition too (MemoryPartition     *)
(* does).  The storage has a data path and a log that is written through   *)
(* (WithWALBufferedSize(0); DiskWAL models its buffer), or a data path and *)
(* no log (WithWALBufferedSize(-1)), or neither.  Timestamps are positive. *)
(***************************************************************************)
EXTENDS Integers, Sequences, FiniteSets, FiniteSetsExt, Folds, EncodeAllPoints, SegmentNames

CONSTANTS
    PartitionDuration,
    MaxFlushers,        \* bound: flushPartitions calls that overlap
    Scenarios           \* what may happen, with the bounds:
                        \*   mode: "logged", "unlogged" or "memory";
                        \*   batches: the InsertRows calls, sequences of offsets from the newest
                        \*     timestamp so far, and maxCalls of them;
                        \*   maxExpired: partitions whose retention passes;
                        \*   maxRestarts: NewStorage calls after the first;
                        \*   maxCrashes: so many first runs of the process may crash;
                        \*   closeIn: the runs (0, the first, ... maxRestarts) that call Close

Flushers == 1..MaxFlushers
Sweepers == {"ticker", "Close"}
writablePartitionsNum == 2

ASSUME BoundsAssumption == PartitionDuration \in Nat \ {0, 1} /\ MaxFlushers \in Nat \ {0}
ASSUME ScenariosAssumption ==
    \A sc \in Scenarios :
        /\ \A b \in sc.batches : b \in Seq(Int) /\ Len(b) > 0
        /\ {sc.maxCalls, sc.maxExpired, sc.maxCrashes, sc.maxRestarts} \subseteq Nat
        /\ sc.closeIn \subseteq 0..sc.maxRestarts
        /\ sc.mode \in {"logged", "unlogged", "memory"}
        /\ sc.mode # "logged" => sc.maxCrashes = 0  \* a crash would cost what is in memory
        /\ sc.mode = "memory" => sc.maxRestarts = 0

VARIABLES
    status,         \* of the process
    head, parts,    \* the list: the head's place in parts; a partition's next is its field
    segs, index,    \* the log: its segment files, and the next one's number
    dirs,           \* the p-min-max directories: data and meta file
    client,         \* the InsertRows call
    flusher,        \* the flushPartitions calls
    sweep,          \* who calls removeExpiredPartitions: the partitions it has still to remove
    closer,         \* where Close is, and its flushPartitions call
    expired,        \* the directories whose retention has passed
    retired,        \* history: the rows those directories held, or that left the memory
    acked,          \* history: the rows InsertRows has accepted and returned nil for
    newest, calls, restarts,
    scenario

list == <<head, parts>>
wal == <<segs, index>>
history == <<acked, newest, calls, restarts, scenario>>
retention == <<expired, retired>>
vars == <<status, list, wal, dirs, client, flusher, sweep, closer, retention, history>>

(* newMemoryPartition: points is the metric's ordered slice, late its       *)
(* outOfOrderPoints; min is 0 while there are no rows.                      *)
NewPartition == [kind |-> "memory", min |-> 0, max |-> 0, points |-> <<>>, late |-> <<>>, next |-> 0]

DiskPartition(d) == [NewPartition EXCEPT !.kind = "disk", !.min = d[1], !.max = d[2]]

Idle == [pc |-> "idle", rows |-> <<>>, at |-> 0, tries |-> 0, stored |-> {}]
NewDir == [data |-> <<>>, meta |-> "none"]
NoFlush == [pc |-> "idle", at |-> 0, dir |-> <<0, 0>>]
NotClosing == [pc |-> "none", flusher |-> 0]
Logging == scenario.mode = "logged"

(* NewStorage starts the goroutine with the ticker unless it finds nothing  *)
(* in the data path, where newDiskWAL has made the directory of the log.    *)
NoSweep == [s \in IF Logging \/ DOMAIN dirs # {} THEN Sweepers ELSE {"Close"} |-> <<>>]

(* NewStorage without a data path or on an empty one: the head, and         *)
(* segment 0 of a log.                                                      *)
Init ==
    /\ scenario \in Scenarios
    /\ status = "running"
    /\ head = 1 /\ parts = <<NewPartition>>
    /\ segs = [i \in IF Logging THEN {0} ELSE {} |-> <<>>] /\ index = 1
    /\ dirs = [d \in {} |-> <<>>]
    /\ client = Idle
    /\ flusher = [f \in Flushers |-> NoFlush]
    /\ sweep = NoSweep /\ closer = NotClosing /\ expired = {} /\ retired = {}
    /\ acked = {} /\ newest = 0 /\ calls = 0 /\ restarts = 0

-----------------------------------------------------------------------------
(* The partition list *)

(* The partitions an iterator that is at n still visits, n included. *)
From(n) ==
    LET from[k \in 0..Len(parts)] ==
            IF k = 0 THEN <<>> ELSE <<k>> \o from[parts[k].next]
    IN  from[n]

Listed == Range(From(head))

(* samePartitions: the first partition with t's minimum, 0 if there is none. *)
Match(t) ==
    LET match[n \in 0..Len(parts)] ==
            IF n = 0 THEN 0
            ELSE IF parts[n].min = parts[t].min THEN n ELSE match[parts[n].next]
    IN  match[head]

(* The list with k at the place of m, its first partition with that minimum *)
replace(m, ps, k) ==
    /\ head' = IF head = m THEN k ELSE head
    /\ parts' = [n \in DOMAIN ps |->
                    IF n \in Listed /\ ps[n].next = m THEN [ps[n] EXCEPT !.next = k] ELSE ps[n]]

remove(m) == replace(m, parts, parts[m].next)

swap(m, disk) == replace(m, Append(parts, [disk EXCEPT !.next = parts[m].next]), Len(parts) + 1)

insert(p) == head' = Len(parts) + 1 /\ parts' = Append(parts, [p EXCEPT !.next = head])

active(p) == p.kind = "memory" /\ p.max - p.min + 1 < PartitionDuration

-----------------------------------------------------------------------------
(* The log *)

(* createSegmentFile opens the file of that number when there is one.       *)
(* nopWAL does nothing.                                                     *)
createSegmentFile(files) ==
    IF ~Logging THEN UNCHANGED wal ELSE
    /\ segs' = [i \in DOMAIN files \cup {index} |-> IF i \in DOMAIN files THEN files[i] ELSE <<>>]
    /\ index' = index + 1

punctuate == createSegmentFile(segs)
refresh == createSegmentFile([i \in {} |-> <<>>])

(* What is written to a segment that was removed is gone. *)
append(rows) ==
    segs' = [i \in DOMAIN segs |-> IF i = index - 1 THEN segs[i] \o rows ELSE segs[i]]

(* Mutant: the newest segment goes. *)
removeOldest_Newest == segs' = [i \in DOMAIN segs \ {Max(DOMAIN segs)} |-> segs[i]]

(* files[0] of the directory *)
removeOldest == segs' = [i \in DOMAIN segs \ {FirstName(DOMAIN segs)} |-> segs[i]]

(* Mutant: the reader stops after the first segment. *)
readAll_First == IF DOMAIN segs = {} THEN <<>> ELSE segs[FirstName(DOMAIN segs)]

(* readAll: the records of the segments, in the order of their names. *)
readAll ==
    MapThenFoldSet(LAMBDA rows, later : rows \o later, <<>>, LAMBDA i : segs[i], FirstName, DOMAIN segs)

-----------------------------------------------------------------------------
(* InsertRows *)

(* The records that no flushPartitions call uses *)
FreeFlushers == {f \in Flushers : flusher[f].pc = "idle"}

(* The timestamps of a call, after the newest one so far. *)
RowsOf(b) == [k \in DOMAIN b |-> [id |-> <<calls + 1, k>>, ts |-> newest + b[k]]]

(* The call begins.  ensureActiveHead finds an active head, or newPartition *)
(* inserts a new one, which will start a flush: MaxFlushers bounds those.   *)
InsertRows(b) ==
    /\ status = "running" /\ closer.pc = "none" /\ client.pc = "idle" /\ calls < scenario.maxCalls
    /\ \A k \in DOMAIN b : newest + b[k] > 0
    /\ IF active(parts[head])
       THEN client' = [Idle EXCEPT !.pc = "insert", !.rows = RowsOf(b), !.at = head] /\ UNCHANGED list
       ELSE /\ FreeFlushers # {}
            /\ client' = [Idle EXCEPT !.pc = "punctuate", !.rows = RowsOf(b)]
            /\ insert(NewPartition)
    /\ calls' = calls + 1
    /\ newest' = Max({newest} \cup {newest + b[k] : k \in DOMAIN b})
    /\ UNCHANGED <<status, wal, dirs, flusher, sweep, closer, retention, acked, restarts, scenario>>

(* Mutant: no flush is started. *)
Punctuate_NoFlush ==
    /\ client.pc = "punctuate"
    /\ punctuate
    /\ client' = [client EXCEPT !.pc = "insert", !.at = head]
    /\ UNCHANGED <<status, list, dirs, flusher, sweep, closer, retention, history>>

(* newPartition punctuates the log, and ensureActiveHead starts a flush. *)
Punctuate ==
    /\ client.pc = "punctuate"
    /\ punctuate
    /\ flusher' = [flusher EXCEPT ![Min(FreeFlushers)].pc = "started"]
    /\ client' = [client EXCEPT !.pc = "insert", !.at = head]
    /\ UNCHANGED <<status, list, dirs, sweep, closer, retention, history>>

(* memoryPartition.insertRows on p: once.Do, the loop over the rows, and    *)
(* insertPoint for each accepted one.                                       *)
MinAfter(p, rows) == IF p.min # 0 THEN p.min ELSE Min({r.ts : r \in Range(rows)})
Larger(x, y) == IF x < y THEN y ELSE x
Last(points) == points[Len(points)]
InsertPoint(p, r) ==
    IF p.points = <<>> \/ Last(p.points).ts < r.ts
    THEN [p EXCEPT !.points = Append(@, r), !.max = Larger(@, r.ts)]
    ELSE [p EXCEPT !.late = Append(@, r), !.max = Larger(@, r.ts)]

(* Mutant: an outdated row goes into the partition as well. *)
insertRows_NoContinue(p, rows) ==
    LET min == MinAfter(p, rows)
        loop[k \in 0..Len(rows)] ==
            IF k = 0
            THEN [part |-> [p EXCEPT !.min = min, !.max = Larger(@, rows[1].ts)], outdated |-> <<>>]
            ELSE [part |-> InsertPoint(loop[k - 1].part, rows[k]),
                  outdated |-> IF rows[k].ts < min THEN Append(loop[k - 1].outdated, rows[k])
                               ELSE loop[k - 1].outdated]
    IN  loop[Len(rows)]

insertRows(p, rows) ==
    LET min == MinAfter(p, rows)
        loop[k \in 0..Len(rows)] ==
            IF k = 0
            THEN [part |-> [p EXCEPT !.min = min, !.max = Larger(@, rows[1].ts)], outdated |-> <<>>]
            ELSE IF rows[k].ts < min
            THEN [loop[k - 1] EXCEPT !.outdated = Append(@, rows[k])]
            ELSE [loop[k - 1] EXCEPT !.part = InsertPoint(@, rows[k])]
    IN  loop[Len(rows)]

(* One iteration of the loop: the rows go to the log and into the partition *)
(* at hand, and the loop ends when none is outdated, after two partitions,  *)
(* or at the end of the list.  The rows left are dropped.                   *)
InsertInto ==
    /\ client.pc = "insert" /\ parts[client.at].kind = "memory"
    /\ LET p == parts[client.at]
           done == insertRows(p, client.rows)
           stored == client.stored \cup (Range(client.rows) \ Range(done.outdated))
       IN  /\ append(client.rows)
           /\ parts' = [parts EXCEPT ![client.at] = done.part]
           /\ IF done.outdated = <<>> \/ client.tries + 1 = writablePartitionsNum \/ p.next = 0
              THEN client' = Idle /\ acked' = acked \cup stored
              ELSE /\ client' = [client EXCEPT !.rows = done.outdated, !.at = p.next,
                                               !.tries = @ + 1, !.stored = stored]
                   /\ UNCHANGED acked
    /\ UNCHANGED <<status, head, index, dirs, flusher, sweep, closer, retention,
                   newest, calls, restarts, scenario>>

(* A disk partition refuses rows: InsertRows returns the error. *)
InsertRefused ==
    /\ client.pc = "insert" /\ parts[client.at].kind = "disk"
    /\ client' = [Idle EXCEPT !.pc = "failed"]
    /\ UNCHANGED <<status, list, wal, dirs, flusher, sweep, closer, retention, history>>

InsertFailed ==
    /\ client.pc = "failed"
    /\ client' = Idle
    /\ UNCHANGED <<status, list, wal, dirs, flusher, sweep, closer, retention, history>>

-----------------------------------------------------------------------------
(* flushPartitions, by a goroutine ensureActiveHead started or by Close *)

Up == status \in {"recovering", "refreshed", "running", "closed", "closeFailed"}

At(f, pc) == Up /\ flusher[f].pc = pc
Goto(f, pc) == flusher' = [flusher EXCEPT ![f].pc = pc]

(* The call ends; Close waits for its own call's outcome. *)
FlushReturns(f, outcome) ==
    flusher' = [flusher EXCEPT ![f] =
                    [NoFlush EXCEPT !.pc = IF closer.flusher = f THEN outcome ELSE "idle"]]

(* The iterator passes the first two partitions. *)
SkipWritable(f) ==
    /\ At(f, "started")
    /\ LET it == From(head)
       IN  flusher' = [flusher EXCEPT ![f].pc = "visit",
                            ![f].at = IF Len(it) > writablePartitionsNum
                                      THEN it[writablePartitionsNum + 1] ELSE 0]
    /\ UNCHANGED <<status, list, wal, dirs, client, sweep, closer, retention, history>>

(* Mutant: the loop goes on without iterator.next(). *)
SkipDisk_Stays(f) ==
    /\ At(f, "visit") /\ flusher[f].at = 0
    /\ FlushReturns(f, "done")
    /\ UNCHANGED <<status, list, wal, dirs, client, sweep, closer, retention, history>>

(* A disk partition is passed over, and the end of the list ends the call. *)
SkipDisk(f) ==
    /\ At(f, "visit")
    /\ \/ flusher[f].at = 0 /\ FlushReturns(f, "done")
       \/ /\ flusher[f].at # 0 /\ parts[flusher[f].at].kind = "disk"
          /\ flusher' = [flusher EXCEPT ![f].at = parts[@].next]
    /\ UNCHANGED <<status, list, wal, dirs, client, sweep, closer, retention, history>>

(* Mutant: disk partitions are flushed as well. *)
CreateDataFile_Disk(f) ==
    /\ At(f, "visit") /\ flusher[f].at # 0 /\ scenario.mode # "memory"
    /\ LET p == parts[flusher[f].at]
           d == <<p.min, p.max>>
       IN  /\ dirs' = IF d \in DOMAIN dirs THEN [dirs EXCEPT ![d].data = <<>>]
                      ELSE [e \in DOMAIN dirs \cup {d} |-> IF e = d THEN NewDir ELSE dirs[e]]
           /\ flusher' = [flusher EXCEPT ![f].pc = "encode", ![f].dir = d]
    /\ UNCHANGED <<status, list, wal, client, sweep, closer, retention, history>>

(* flush: MkdirAll, and os.Create, which empties the data file of a         *)
(* directory that is there already.                                         *)
CreateDataFile(f) ==
    /\ At(f, "visit") /\ flusher[f].at # 0 /\ parts[flusher[f].at].kind = "memory"
    /\ scenario.mode # "memory"
    /\ LET p == parts[flusher[f].at]
           d == <<p.min, p.max>>
       IN  /\ dirs' = IF d \in DOMAIN dirs THEN [dirs EXCEPT ![d].data = <<>>]
                      ELSE [e \in DOMAIN dirs \cup {d} |-> IF e = d THEN NewDir ELSE dirs[e]]
           /\ flusher' = [flusher EXCEPT ![f].pc = "encode", ![f].dir = d]
    /\ UNCHANGED <<status, list, wal, client, sweep, closer, retention, history>>

Exists(d) == d \in DOMAIN dirs

(* Data written to a file whose directory was removed is gone. *)
EncodePoints(f) ==
    /\ At(f, "encode")
    /\ LET p == parts[flusher[f].at]
           d == flusher[f].dir
       IN  dirs' = IF Exists(d) THEN [dirs EXCEPT ![d].data = EncodeAll(p.points, p.late)] ELSE dirs
    /\ Goto(f, "truncate")
    /\ UNCHANGED <<status, list, wal, client, sweep, closer, retention, history>>

(* os.WriteFile truncates the meta file, which needs the directory, then    *)
(* writes it.                                                               *)
TruncateMeta(f) ==
    /\ At(f, "truncate")
    /\ IF Exists(flusher[f].dir)
       THEN dirs' = [dirs EXCEPT ![flusher[f].dir].meta = "torn"] /\ Goto(f, "write")
       ELSE FlushReturns(f, "failed") /\ UNCHANGED dirs
    /\ UNCHANGED <<status, list, wal, client, sweep, closer, retention, history>>

(* The meta file carries a new CreatedAt. *)
WriteMeta(f) ==
    /\ At(f, "write")
    /\ LET d == flusher[f].dir
       IN  /\ dirs' = IF Exists(d) THEN [dirs EXCEPT ![d].meta = "valid"] ELSE dirs
           /\ expired' = expired \ {d}
    /\ Goto(f, "open")
    /\ UNCHANGED <<status, list, wal, client, sweep, closer, retired, history>>

(* openDiskPartition *)
Opened(d) ==
    IF d \notin DOMAIN dirs \/ dirs[d].meta = "none" THEN "errInvalidPartition"
    ELSE IF dirs[d].data = <<>> THEN "ErrNoDataPoints"
    ELSE IF dirs[d].meta = "torn" THEN "error"
    ELSE "ok"

OpenDiskPartition(f) ==
    /\ At(f, "open")
    /\ LET opened == Opened(flusher[f].dir)
       IN  \/ opened = "ok" /\ Goto(f, "swap")
           \/ opened = "ErrNoDataPoints" /\ Goto(f, "remove")
           \/ opened \in {"error", "errInvalidPartition"} /\ FlushReturns(f, "failed")
    /\ UNCHANGED <<status, list, wal, dirs, client, sweep, closer, retention, history>>

(* partitionList.remove cleans the partition it unlinks. *)
cleaned(m) ==
    IF parts[m].kind = "memory" THEN dirs
    ELSE [d \in DOMAIN dirs \ {<<parts[m].min, parts[m].max>>} |-> dirs[d]]

Advance(f) == flusher' = [flusher EXCEPT ![f].pc = "visit", ![f].at = parts[@].next]

(* No data points: the partition leaves the list, and its segment stays. *)
RemoveEmpty(f) ==
    /\ At(f, "remove")
    /\ LET same == Match(flusher[f].at)
       IN  IF same = 0
           THEN FlushReturns(f, "failed") /\ UNCHANGED <<list, dirs>>
           ELSE remove(same) /\ dirs' = cleaned(same) /\ Advance(f)
    /\ UNCHANGED <<status, wal, client, sweep, closer, retention, history>>

(* "For the in-memory mode, just removes it from the partition list." *)
RemoveInMemory(f) ==
    /\ At(f, "visit") /\ flusher[f].at # 0 /\ parts[flusher[f].at].kind = "memory"
    /\ scenario.mode = "memory"
    /\ LET same == Match(flusher[f].at)
       IN  IF same = 0
           THEN FlushReturns(f, "failed") /\ UNCHANGED <<list, retired>>
           ELSE /\ remove(same) /\ Advance(f)
                /\ retired' = retired \cup Range(parts[flusher[f].at].points)
                                       \cup Range(parts[flusher[f].at].late)
    /\ UNCHANGED <<status, wal, dirs, client, sweep, closer, expired, history>>

SwapPartitions(f) ==
    /\ At(f, "swap")
    /\ LET same == Match(flusher[f].at)
       IN  IF same = 0
           THEN FlushReturns(f, "failed") /\ UNCHANGED list
           ELSE swap(same, DiskPartition(flusher[f].dir)) /\ Goto(f, "removeOldest")
    /\ UNCHANGED <<status, wal, dirs, client, sweep, closer, retention, history>>

RemoveOldest(f) ==
    /\ At(f, "removeOldest")
    /\ IF ~Logging THEN UNCHANGED segs /\ Advance(f)
       ELSE IF DOMAIN segs = {} THEN UNCHANGED segs /\ FlushReturns(f, "failed")
       ELSE removeOldest /\ Advance(f)
    /\ UNCHANGED <<status, list, index, dirs, client, sweep, closer, retention, history>>

FlushPartitions(f) ==
    \/ SkipWritable(f) \/ SkipDisk(f) \/ CreateDataFile(f) \/ EncodePoints(f)
    \/ TruncateMeta(f) \/ WriteMeta(f) \/ OpenDiskPartition(f)
    \/ RemoveEmpty(f) \/ RemoveInMemory(f) \/ SwapPartitions(f) \/ RemoveOldest(f)

-----------------------------------------------------------------------------
(* Retention *)

(* diskPartition.expired, from when the clock passes CreatedAt + retention *)
Expire(d) ==
    /\ d \notin expired /\ dirs[d].meta = "valid" /\ Cardinality(expired) < scenario.maxExpired
    /\ expired' = expired \cup {d}
    /\ retired' = retired \cup Range(dirs[d].data)
    /\ UNCHANGED <<status, list, wal, dirs, client, flusher, sweep, closer, history>>

IsExpired(n) == parts[n].kind = "disk" /\ <<parts[n].min, parts[n].max>> \in expired
ExpiredList ==
    LET found[n \in 0..Len(parts)] ==
            IF n = 0 THEN <<>>
            ELSE (IF IsExpired(n) THEN <<n>> ELSE <<>>) \o found[parts[n].next]
    IN  found[head]

(* removeExpiredPartitions: the list is scanned ... *)
ScanExpired(s) ==
    /\ s \in DOMAIN sweep /\ sweep[s] = <<>>
    /\ ExpiredList # <<>>
    /\ sweep' = [sweep EXCEPT ![s] = ExpiredList]

(* ... and the partitions found are removed, up to the first that is not there. *)
RemoveExpired(s) ==
    /\ Up /\ s \in DOMAIN sweep /\ sweep[s] # <<>>
    /\ LET same == Match(sweep[s][1])
       IN  IF same = 0
           THEN /\ sweep' = [sweep EXCEPT ![s] = <<>>]
                /\ closer' = IF s = "Close" THEN [closer EXCEPT !.pc = "failed"] ELSE closer
                /\ UNCHANGED <<list, dirs>>
           ELSE /\ remove(same) /\ dirs' = cleaned(same)
                /\ sweep' = [sweep EXCEPT ![s] = Tail(@)]
                /\ UNCHANGED closer
    /\ UNCHANGED <<status, wal, client, flusher, retention, history>>

(* Mutant: the goroutine that removes expired partitions is not started. *)
Tick_Never ==
    /\ status = "failed" /\ ScanExpired("ticker")
    /\ UNCHANGED <<status, list, wal, dirs, client, flusher, closer, retention, history>>

Tick ==
    /\ status = "running" /\ ScanExpired("ticker")
    /\ UNCHANGED <<status, list, wal, dirs, client, flusher, closer, retention, history>>

-----------------------------------------------------------------------------
(* Close *)

Closing(pc) == status = "running" /\ closer.pc = pc
CloseGoto(pc) == closer' = [closer EXCEPT !.pc = pc]

(* wg.Wait() is over when no InsertRows call is left.  newPartition inserts *)
(* the first of two partitions that keep the writable ones from staying so. *)
Close ==
    /\ Closing("none") /\ client.pc = "idle" /\ restarts \in scenario.closeIn
    /\ insert(NewPartition) /\ CloseGoto("punctuate")
    /\ UNCHANGED <<status, wal, dirs, client, flusher, sweep, retention, history>>

(* Mutant: one new partition only. *)
CloseInsert_None ==
    /\ Closing("insert")
    /\ CloseGoto("flush")
    /\ UNCHANGED <<status, list, wal, dirs, client, flusher, sweep, retention, history>>

CloseInsert ==
    /\ Closing("insert")
    /\ insert(NewPartition) /\ CloseGoto("punctuateAgain")
    /\ UNCHANGED <<status, wal, dirs, client, flusher, sweep, retention, history>>

ClosePunctuate ==
    /\ \/ Closing("punctuate") /\ CloseGoto("insert")
       \/ Closing("punctuateAgain") /\ CloseGoto("flush")
    /\ punctuate
    /\ UNCHANGED <<status, list, dirs, client, flusher, sweep, retention, history>>

CloseFlush ==
    /\ Closing("flush") /\ FreeFlushers # {}
    /\ flusher' = [flusher EXCEPT ![Min(FreeFlushers)].pc = "started"]
    /\ closer' = [pc |-> "flushing", flusher |-> Min(FreeFlushers)]
    /\ UNCHANGED <<status, list, wal, dirs, client, sweep, retention, history>>

(* flushPartitions is back; Close goes on to removeExpiredPartitions. *)
CloseSweep ==
    /\ Closing("flushing")
    /\ \/ /\ flusher[closer.flusher].pc = "done"
          /\ CloseGoto("sweeping")
          /\ IF ExpiredList = <<>> THEN UNCHANGED sweep ELSE ScanExpired("Close")
       \/ /\ flusher[closer.flusher].pc = "failed"
          /\ CloseGoto("failed") /\ UNCHANGED sweep
    /\ flusher' = [flusher EXCEPT ![closer.flusher] = NoFlush]
    /\ UNCHANGED <<status, list, wal, dirs, client, retention, history>>

(* wal.removeAll, and Close returns nil. *)
CloseRemoveAll ==
    /\ Closing("sweeping") /\ sweep["Close"] = <<>>
    /\ segs' = [i \in {} |-> <<>>]
    /\ status' = "closed" /\ closer' = NotClosing
    /\ UNCHANGED <<list, index, dirs, client, flusher, sweep, retention, history>>

CloseFails ==
    /\ Closing("failed")
    /\ status' = "closeFailed" /\ closer' = NotClosing
    /\ UNCHANGED <<list, wal, dirs, client, flusher, sweep, retention, history>>

-----------------------------------------------------------------------------
(* The end of the process, at any moment, and NewStorage on what it left *)

ProcessEnds ==
    /\ status' = "down"
    /\ head' = 0 /\ parts' = <<>> /\ index' = 0
    /\ client' = Idle /\ flusher' = [f \in Flushers |-> NoFlush]
    /\ sweep' = NoSweep /\ closer' = NotClosing
    /\ UNCHANGED <<segs, dirs, retention, history>>

Crash == Up /\ restarts < scenario.maxCrashes /\ ProcessEnds

Exit == status \in {"closed", "closeFailed"} /\ restarts < scenario.maxRestarts /\ ProcessEnds

(* sort.Slice by minimum, of directories that ReadDir gives by name *)
Older(d, e) == d[1] < e[1] \/ (d[1] = e[1] /\ d[2] < e[2])
Oldest(ds) == CHOOSE d \in ds : \A e \in ds \ {d} : Older(d, e)
OldestFirst(ds) == MapThenFoldSet(LAMBDA d, later : <<d>> \o later, <<>>, LAMBDA d : d, Oldest, ds)

(* The partitions that open, from the oldest to the newest, and the rows of *)
(* the log: with any, recoverWAL calls InsertRows, which makes a head.      *)
NewStorage ==
    LET opens == OldestFirst({d \in DOMAIN dirs : Opened(d) = "ok"})
        disks == [k \in DOMAIN opens |-> [DiskPartition(opens[k]) EXCEPT !.next = k - 1]]
        n == Len(disks)
    IN  /\ status = "down" /\ restarts < scenario.maxRestarts
        /\ restarts' = restarts + 1
        /\ createSegmentFile(segs)
        /\ IF \E d \in DOMAIN dirs : Opened(d) = "error"
           THEN status' = "failed" /\ UNCHANGED <<list, client>>
           ELSE IF readAll = <<>>
           THEN /\ status' = "refreshed" /\ head' = n /\ parts' = disks
                /\ UNCHANGED client
           ELSE /\ status' = "recovering" /\ head' = n + 1
                /\ parts' = Append(disks, [NewPartition EXCEPT !.next = n])
                /\ client' = [Idle EXCEPT !.pc = "punctuate", !.rows = readAll]
        /\ UNCHANGED <<dirs, flusher, sweep, closer, retention, acked, newest, calls, scenario>>

Refresh ==
    /\ status = "recovering" /\ client.pc = "idle"
    /\ refresh /\ status' = "refreshed"
    /\ UNCHANGED <<list, dirs, client, flusher, sweep, closer, retention, history>>

(* Mutant: the newest of the old partitions stays the head. *)
OpenHead_None ==
    /\ status = "refreshed" /\ status' = "running"
    /\ UNCHANGED <<list, wal, dirs, client, flusher, sweep, closer, retention, history>>

(* NewStorage ends with a new head that gets no segment of its own. *)
OpenHead ==
    /\ status = "refreshed"
    /\ insert(NewPartition) /\ status' = "running"
    /\ UNCHANGED <<wal, dirs, client, flusher, sweep, closer, retention, history>>

-----------------------------------------------------------------------------
(* Select *)

(* selectPoints on a metric all of whose points have arrived, and           *)
(* diskPartition.selectDataPoints                                           *)
selectDataPoints(p, start, end) ==
    IF p.kind = "memory"
    THEN SelectSeq(p.points, LAMBDA r : r.ts >= start /\ (r.ts < end \/ end >= Last(p.points).ts)
                                        /\ end > p.points[1].ts)
    ELSE IF <<p.min, p.max>> \in expired THEN <<>>
    ELSE SelectSeq(dirs[<<p.min, p.max>>].data, LAMBDA r : r.ts >= start /\ r.ts < end)

(* Mutant: the walk ends at a partition that holds the start itself. *)
Select_EndsEarly(start, end) ==
    LET walk[n \in 0..Len(parts)] ==
            IF n = 0 THEN <<>>
            ELSE IF parts[n].min = 0 THEN walk[parts[n].next]
            ELSE IF parts[n].max <= start THEN <<>>
            ELSE IF parts[n].min > end THEN walk[parts[n].next]
            ELSE walk[parts[n].next] \o selectDataPoints(parts[n], start, end)
    IN  walk[head]

(* The walk from the newest partition: older points go in front. *)
Select(start, end) ==
    LET walk[n \in 0..Len(parts)] ==
            IF n = 0 THEN <<>>
            ELSE IF parts[n].min = 0 THEN walk[parts[n].next]
            ELSE IF parts[n].max < start THEN <<>>
            ELSE IF parts[n].min > end THEN walk[parts[n].next]
            ELSE walk[parts[n].next] \o selectDataPoints(parts[n], start, end)
    IN  walk[head]

-----------------------------------------------------------------------------
(* The bounds are used up. *)
Finished ==
    /\ \/ status = "failed" \/ (status = "down" /\ restarts = scenario.maxRestarts)
       \/ status = "running" /\ client.pc = "idle" /\ calls = scenario.maxCalls
       \/ status \in {"closed", "closeFailed"} /\ \A f \in Flushers : flusher[f].pc = "idle"
    /\ UNCHANGED vars

ClientStep == Punctuate \/ InsertInto \/ InsertRefused \/ InsertFailed
CloseStep == CloseInsert \/ ClosePunctuate \/ CloseFlush \/ CloseSweep \/ CloseRemoveAll \/ CloseFails

Next ==
    \/ \E b \in scenario.batches : InsertRows(b)
    \/ ClientStep
    \/ \E f \in Flushers : FlushPartitions(f)
    \/ \E d \in DOMAIN dirs : Expire(d)
    \/ Tick
    \/ \E s \in DOMAIN sweep : RemoveExpired(s)
    \/ Close \/ CloseStep
    \/ Crash \/ Exit \/ NewStorage \/ Refresh \/ OpenHead
    \/ Finished

Spec == Init /\ [][Next]_vars

(* Goroutines that can run do, the ticker ticks, and calls that were made   *)
(* go on; nobody has to call InsertRows or Close, and nothing has to crash. *)
FairSpec ==
    /\ Spec
    /\ WF_vars(ClientStep) /\ WF_vars(CloseStep) /\ WF_vars(Tick)
    /\ \A f \in Flushers : WF_vars(FlushPartitions(f))
    /\ \A s \in Sweepers : WF_vars(RemoveExpired(s))

-----------------------------------------------------------------------------
(* Properties *)

Times == 1..newest + 1

Valid(d) == d \in DOMAIN dirs /\ dirs[d].meta = "valid"
OnDisk == UNION {Range(dirs[d].data) : d \in {e \in DOMAIN dirs : Valid(e)}}
Logged == UNION {Range(segs[i]) : i \in DOMAIN segs}

(* The rows a partition holds *)
Holds(n) ==
    IF parts[n].kind = "memory" THEN parts[n].points \o parts[n].late
    ELSE IF Valid(<<parts[n].min, parts[n].max>>)
    THEN dirs[<<parts[n].min, parts[n].max>>].data ELSE <<>>

(* What a client may rely on: the rows InsertRows returned nil for, less    *)
(* those whose retention has passed and, in the in-memory mode, those of    *)
(* the partitions a flush reached                                           *)
Owed == acked \ retired

(* Each owed row is in a log segment or in a directory that is valid, so    *)
(* that a crash at that moment loses nothing.                               *)
Safe == Owed \subseteq Logged \cup OnDisk

(* The log before the memory partition, the meta file before removeOldest:  *)
(* from the first NewStorage to the call of Close, a crash included, every  *)
(* owed row is safe at every moment.                                        *)
Durable == Logging /\ restarts = 0 /\ closer.pc = "none" => Safe

(* While the storage is open, each owed row is in a partition of the list:  *)
(* no roll-over, flush, swap, removal or recovery puts it out of reach.     *)
Held == status = "running" => Owed \subseteq UNION {Range(Holds(n)) : n \in Listed}

(* And it is there once: the flush leaves no row in two partitions.         *)
HeldOnce ==
    status = "running" =>
        \A r \in Owed : \A m, n \in Listed :
            \A j \in DOMAIN Holds(m), k \in DOMAIN Holds(n) :
                Holds(m)[j] = r /\ Holds(n)[k] = r => m = n /\ j = k

(* Once Close has returned nil the log is gone and each owed row is in a    *)
(* valid directory.                                                         *)
ClosedDurable == status = "closed" => Owed \subseteq OnDisk

(* "Disk partition is immutable": the files of a directory that opens as a  *)
(* partition are not written again, only removed.                           *)
DiskImmutable ==
    [][\A d \in DOMAIN dirs : Opened(d) = "ok" => d \notin DOMAIN dirs' \/ dirs'[d] = dirs[d]]_vars

(* The rows of outOfOrderPoints, which Select does not see before the flush *)
Buffered == UNION {Range(parts[n].late) : n \in DOMAIN parts}

(* Select returns every owed row of the range that is not buffered,         *)
(* whatever partitions the rows are spread over and whichever of them are   *)
(* being flushed.                                                           *)
SelectComplete ==
    status = "running" =>
        \A start, end \in Times : start < end =>
            {r \in Owed \ Buffered : r.ts >= start /\ r.ts < end} \subseteq Range(Select(start, end))

(* Select returns points in ascending order of time, until a recovery puts  *)
(* rows into memory that a directory holds as well.                         *)
SelectAscending ==
    status = "running" /\ restarts = 0 =>
        \A start, end \in Times : start < end =>
            LET out == Select(start, end)
            IN  \A k \in 1..Len(out) - 1 : out[k].ts <= out[k + 1].ts

(* A Select beside flushes and expiry misses no row and keeps their order.  *)
Selects == SelectComplete /\ SelectAscending

(* The list's head takes the rows of the next call: it is a memory          *)
(* partition, whichever partitions flushes and removals replace.            *)
HeadIsMemory == status = "running" => head \in DOMAIN parts /\ parts[head].kind = "memory"

(* InsertRows drops rows that are too old; it does not fail for them.       *)
InsertsAccepted == client.pc # "failed"

(* NewStorage opens whatever a crash left behind.                           *)
Reopens == status # "failed"

(* A memory partition behind the two writable ones is flushed in the end.   *)
Pending ==
    \E k \in DOMAIN From(head) : k > writablePartitionsNum /\ parts[From(head)[k]].kind = "memory"
FlushCompletes == Pending ~> ~Pending

(* Close returns.                                                           *)
CloseReturns == closer.pc # "none" ~> closer.pc = "none"

(* A partition whose retention has passed leaves the list, if the storage   *)
(* stays open.                                                              *)
ExpiredRemoved == ExpiredList # <<>> ~> (ExpiredList = <<>> \/ status # "running")
=============================================================================
