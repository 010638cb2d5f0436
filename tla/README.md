# A verification of tstorage in TLA+

tstorage is an embedded time-series database. This directory holds TLA+ models
of its concurrent and persistent parts, the TLC configurations that check them
on small instances, and TLAPS proofs of many of their properties for every
instance. `PROJECT.json` lists components, runs, the source lines behind each
definition, findings, hazards and theorems.

## The system

A storage is a linked list of partitions, the newest first.

| part | state | operations | module |
|---|---|---|---|
| `storage.go` | the list, the log, the data directories, `wg`, `workersLimitCh` | `NewStorage`, `InsertRows`, `Select`, `Close`, background `flushPartitions`, hourly `removeExpiredPartitions` | `Storage`; the way into `InsertRows` in `InsertGate` |
| `memory_partition.go` | `minT`, `maxT`, `numPoints`, a map of metrics with ordered and out-of-order points | `insertRows`, `selectDataPoints`, `encodeAllPoints` | `MemoryPartition`, `EncodeAllPoints` |
| `partition_list.go` | head, links, count | `insert`, `remove`, `swap`, iterators | `PartitionList`, `PartitionSequence` |
| `disk_wal.go` | numbered segments, a buffered writer | `append`, `punctuate`, `removeOldest`, `removeAll`, `refresh`, `readAll` | `DiskWAL`, and written through in `Storage`; the order of names in `SegmentNames` |
| `disk_partition.go` | a data file and `meta.json` | open, select, `clean`, expiry | `Storage`, and what is in the files in `DiskPartition` |
| `encoding.go`, `bstream.go` | a bit stream | Gorilla encoding and decoding | `Gorilla`, `BStream` |
| `label.go`, `internal/encoding` | – | `marshalMetricName` | `Labels` |
| `internal/timerpool` | a pool of timers | `Get`, `Put` | `InsertGate` |
| `internal/cgroup`, `internal/syscall`, logger, fakes | – | I/O, system calls, test doubles | not modelled |

`InsertRows` waits for a slot of `workersLimitCh`, up to a timeout. It makes sure that the head is active; if it is not, it inserts a new
memory partition, starts a new log segment and spawns `flushPartitions`. Rows
go to the head, and those older than its minimum to the partition behind it.
A flush writes a partition behind these two to a directory `p-min-max`, the
data first and `meta.json` last, swaps the disk partition into the list and
removes the oldest segment. `Close` makes every partition read-only by
inserting two empty ones, flushes, and removes the log. Without a data path a
flush only drops the partitions behind the writable two. After a crash
`NewStorage` opens the directories with a valid `meta.json`, inserts the rows
of the log again and refreshes it.

What makes it hard: writers and readers that share metrics through atomics read
outside the lock; list operations made of several locked steps; flushes that
overlap each other, `Close`, expiry and inserts; a crash between any two of
these steps, also inside a recovery; rows that come late; partitions identified
by their minimum timestamp; timers that fire while they are stopped; a codec
whose two sides must count bits alike at every bit position.

## Modules

**MemoryPartition**: one action per atomic access of `insertRows`,
`getMetric`, `insertPoint` and `selectPoints`. Program counters are named after
what the next step does (`loadSize`, `lock`, `addSize`, ...). Parts of a
critical section are merged unless a reader can look in between. Metrics are
named by their allocator, so that two goroutines that both miss the map hold
different objects. The binary search is Go's, as a recursive function over its
two cursors. A row without a timestamp is stamped after it has been compared
with `minT`, as in the code (`memory_partition.go:83`): its 0 is outdated unless the
first batch of the partition had one too. **EncodeAllPoints** is `encodeAllPoints`: a sort of the
out-of-order points (`SortOrder` chooses one of the permutations that
`sort.Slice` may give) and a merge, a recursive function over its two cursors.

**PartitionList**: one action per access to the list or to a node.
`rank` and `replaced` are history variables: a node's generation, and the node
it was swapped for. With `Exclusive` the calls that change the list take turns.
An insert may follow an insert, as in `Close`. A swap names a partition with
rows, which `flushPartitions` has just written; a removal may also name one that
is still empty. All empty partitions have the minimum 0, so that such a removal may
take another empty one, or none when the first rows come while it walks.
**PartitionSequence** is the interface's promise, a sequence with
insertion in front, removal and replacement; `PartitionList` instantiates it
with the nodes met from the head (`Chain`).

**DiskWAL**: segments as sequences of half records, so that the buffer can
spill in the middle of one; a crash keeps what was written to files. Pieces after
a torn record are read as its rest; an end of file, a failure of `NewStorage`, or a
record nobody wrote are all possible. A failure is an unknown operation, or a
panic of `make` over the length of a metric name (`disk_wal.go:271`); the model
does not tell them apart. The initial state chooses one of `Settings` (capacity,
written through or not). **SegmentNames**: segments are read and removed in the
order of their decimal names as strings, here and in `Storage`.

**Storage**: one client, one metric, up to `MaxFlushers` background flushes,
the expiry goroutine, `Close`, crashes and restarts. A list operation or
`insertRows` is one step here, since the modules above look inside. A flush is
split where a crash or another flush matters: create and truncate the data
file, encode, truncate the meta file, write it, open, swap, remove the segment.
A call's timestamps are offsets from the newest so far, and positive. Loops
over rows and walks along the list are recursive functions. The
initial state chooses one of `Scenarios`: the batches, the bounds and the mode.
In mode "logged" the log is written through (`WithWALBufferedSize(0)`; with the
default buffer a crash also loses the rows in it, which is a documented
choice), "unlogged" is `WithWALBufferedSize(-1)`, "memory" has no data path.

**InsertGate**: one action per channel operation, pool access or wait-group
call between the entry of `InsertRows` and `s.insert`, and between `insert` and
the return. A timer fires in two steps, as the Go runtime's does (it leaves the
heap, then sends), and a tick is "own" or "stale": meant for the call that
holds the timer, or for one that has put it back. `Close` waits on the counter,
is woken when it gets to zero, and panics as `WaitGroup` does when the counter
is not zero by then. `Done` is one step, so that the panic of an `Add` or `Done`
that meets the wake-up is not told apart from that one. The rest of `Close` is in
`Storage`.

**BStream**, **Gorilla**: `bstream.go` and `encoding.go` as operators on a
record of bits, parameterised by the width of a byte (`ByteBits`; a word is
eight bytes) and the field widths of the XOR encoding. The buckets of the delta
of deltas are the code's, with 7, 9 and 12 bits whatever the width; only the last
one is as wide as a word. The decoder carries its first error in a field and every later
read passes it on, as the early returns do. **Labels**: `marshalMetricName`,
its sorting and cutting in the caller's slice included.

**DiskPartition** runs these: rows are named and inserted (or recovered from
the log under their name), `flush` encodes all metrics into one file one point
per step, in any order of metrics, and selects decode the file point by point.
`marks` is a history variable: where the encoder stood after each point.

The definitions with a suffix after an underscore (`Compare_NotOlder`) are
mutants: plausible errors in the definition that follows them, each of which
makes some property fail. They are no part of any specification.

## Runs that pass

| run | what it shows | bounds |
|---|---|---|
| `partition_race` | no index or slice out of range, minimum below all rows, log before memory, each row stored once; no deadlock on the lock of a metric | 2 writers, 1 reader, batches that ascend, descend and leave the timestamp 0 |
| `partition_serial` | order, maximum, exact selects and encoding with one writer at a time | 3 writers in turn, 1 reader, all ranges over 0..4 |
| `list_race` | links only lead to older generations; no scan meets a partition and its replacement; every call returns | 3 overlapping calls on 2 partitions, colliding minima |
| `list_turns` | the list implements the sequence; scans are complete; a removal or replacement of a partition that has a minimum finds it and takes no other | 3 calls, scans overlap, the others take turns |
| `storage_crash` | with a log, a crash at any moment would lose no acknowledged row; every row is there after recovery, and on disk after Close; `Select` complete and ascending during flush and expiry; valid directories immutable; the head a memory partition | four scenarios: 6 calls and 2 expired partitions; 5 calls, 1 crash, a restart and Close; 4 calls without a log, expiry, Close and a restart; 5 calls in memory, Close |
| `storage_late` | late rows are held once; flushes complete, Close returns, expired partitions go | 6 calls, 1 expiry, Close, restart; 6 calls in memory, Close |
| `wal` | a crash leaves a prefix of the log; opening a torn log terminates; oldest segment first; written through, returned rows readable, and recovery repeatable while what it has read fits the buffer or no later segment holds rows | 5 rows, 4 segments, 2 crashes; written through with a buffer of 8 half records, which holds every batch, and of 3, which spills in the middle of a record; not written through with one of 3 |
| `insert_gate` | no slot leaks; no active timer in the pool and no timer with two calls; a tick outlives its wait only if the runtime was sending it as `Put` drained; `Close` waits for every call it found; every call returns | 3 callers, 1 slot, 2 timers, 4 calls |
| `disk_read` | a select on the file returns the inserted points of the range, in order; the decoder stands where the encoder stood after each point; two series never share a name | 16-bit words, 186 inputs |

Why the bounds are enough: two writers and a reader give every pair of
accesses in every order, and a third call on the list gives each mutation two
neighbours. With a partition duration of 2 a batch of two timestamps fills a
partition, so 4 calls make partitions in every role (head, second writable,
being flushed, on disk), and 6 give several flushes. Fewer than ten segments
are created except in `wal_tenth`. In `insert_gate` the one slot is taken while
two calls wait with a timer each, and a fourth call gets a used timer. With
bytes of 2 bits a word has 16, so that every bit position of a byte is met
early and the ends of the timestamp range are near; the inputs of `disk_read`
put two successive deltas of deltas at the ends of every bucket, timestamps at
the ends of the range, values that share all, some or no bits, late and equal
timestamps, and labels in both orders, invalid and too long. Symmetry is used
over writers only, in runs without liveness properties.

Some passing runs hold under a condition that the code does not enforce, and
the next section says what happens without it: one writer at a time
(`partition_serial`), callers in turn and minima that differ (`list_turns`), one
flush at a time (the `storage` runs, where the flush of Close also waits for the
one under way), timestamps that rise (`storage_crash`) or minima that differ
(`storage_late`), fewer than ten segments, a recovery that fits the buffer or has no
later segment to lose (in `RecoveryKeeps`), no insert during a flush and no two
labels of one name (`disk_read`).

Fairness is weak fairness of each goroutine's steps: the Go scheduler runs
runnable goroutines and a mutex that is free goes to a waiter; the ticker ticks,
timers fire and send, and an insertion that has its slot ends; a process that
crashed is started again (`wal` only). Nothing forces a client to call, a
partition to expire or a process to crash. That
`Close` gets past `wg.Wait` (`GateReturns`) also rests on finitely many calls: a
client that always has one under way keeps the counter above zero.

## Disagreements between code and comments

Three runs have `expect: violation`; their findings quote the sentence.

| run | what happens |
|---|---|
| `partition_order` | `insertPoint` reads the size before the lock: two writers that both read it before either stores both append, and the points are out of order |
| `storage_two_flushers` | two overlapping flushes of one partition: the second truncates the data file that the first has finished, and the first removes the segment |
| `wal_tenth` | segment `10` sorts before `9`, so the newest segment is removed as the oldest |

TLC also refutes the following, with the named property and constants in a
configuration like the listed ones. Scenarios of `Storage` are given as
(batches, maxCalls, maxExpired, maxCrashes, maxRestarts, closeIn), with
MaxFlushers 1 and a log unless it says otherwise; instances of `DiskWAL` as
(capacity, writeThrough; MaxBatch, MaxRows, MaxSegments, MaxCrashes).

| property | constants | what happens | says otherwise |
|---|---|---|---|
| `MaxCoversReturned` | 2 writers, WorkersLimit 2 | load and swap of `maxT` are two steps: the maximum goes back | `memory_partition.go:100` |
| `ReturnedRowsReachable` | 1 writer, 1 reader | load and store of a metric are two steps: a select drops the metric an insert has just made | `memory_partition.go:12` |
| `EndExclusive` | 1 writer, 1 reader | a range that ends at the newest timestamp includes it | `storage.go:66` |
| `InsertsKept` | Exclusive FALSE, distinct minima | two overlapping inserts lose a partition | `partition_list.go:17` |
| `RemovedGone` | Exclusive FALSE, NumOpened 3 | two overlapping removes bring a cleaned partition back | `partition_list.go:19` |
| `SwapsTarget` | Exclusive TRUE, colliding minima | the wrong partition is replaced | `partition_list.go:21` |
| `Safe` | (InOrder, 4, 0, 0, 0, {0}) | Close flushes the newest first and drops the oldest segment | `disk_wal.go:18` |
| `Durable` | (InOrder, 4, 0, 1, 0, {0}) | the same, with a crash at that moment: the rows are lost | `README.md:137` |
| `Durable` | ({<<1, 2>>}, 11, 0, 0, 0, {}) | with eleven segments `removeOldest` removes segment `10`, the head's | `disk_wal.go:128` |
| `Safe` | (InOrder, 3, 0, 1, 1, {}) | rows recovered are not in the log | `README.md:137` |
| `ClosedDurable` | (InOrder, 4, 0, 0, 0, {0}), MaxFlushers 2 | a flush that `wg` does not count runs beside Close | `storage.go:426` |
| `SelectComplete` | (LateDistinct, 4, 0, 0, 0, {}) | `Select` stops at a newer partition with a smaller maximum | `storage.go:383` |
| `SelectAscending` | (LateDistinct, 4, 0, 0, 0, {}) | ranges of neighbours overlap | `storage.go:396` |
| `SelectAscending` without its `restarts = 0` | (InOrder, 4, 0, 1, 1, {}) | recovered rows are in memory and in a directory | `storage.go:396` |
| `Reopens` | (InOrder, 4, 0, 1, 1, {}) | an empty `meta.json` makes `NewStorage` fail | `storage.go:231` |
| `InsertsAccepted` | (LateDistinct, 4, 0, 0, 1, {0}) | after a reopen a late row is an error | `storage.go:302` |
| `DiskImmutable` | (LateDistinct, 4, 0, 0, 1, {0, 1}) | a partition with the range of an existing directory overwrites it | `disk_partition.go:161` |
| `Held` | (Late, 4, 0, 0, 0, {}), also in memory | two partitions with one minimum, the wrong one swapped or removed | `README.md:190` |
| `Held` | (InOrder, 4, 1, 1, 1, {}) | the recovered partition is removed for the expired one | `partition_list.go:19` |
| `ExpiredRemoved` | (InOrder, 4, 1, 0, 0, {}), without a log | `NewStorage` on an empty data path returns before it starts the goroutine that removes expired partitions | `storage.go:117` |
| `Readable` | (1, TRUE; 2, 4, 3, 1) | rows appended behind a torn record | `disk_wal.go:234` |
| `Again` in a recovery, without the condition of `RecoveryKeeps` | (3, TRUE; 2, 5, 4, 2) | a recovery that crashed has torn segment 1, which hides segment 2 | `README.md:137` |
| `OwnTimeout` | as `insert_gate` | `Put` drains the channel before the runtime has sent, and the next call that gets the timer times out at once | `storage.go:136` |
| `Alive` | as `insert_gate` | a call that begins after the counter got to zero and before `Wait` has returned makes it panic | `storage.go:283` |
| `ReadsBack`, `Lockstep` | as `disk_read`, LateInserts TRUE | the number of points is read after they were encoded: an insert between the two makes a select decode into the next series | `partition.go:10` |
| `SeriesApart` | two labels of one name, in both orders; names that differ past the cut; a metric that is another one's marshaled name | one series gets two names, two series one name | `label.go:28` |

A call that begins after `wg.Wait` is over runs beside the rest of `Close`; the
TODO at `storage.go:412` says so. Labels none of which is valid and no labels at
all are two series (`Series` in `DiskPartition` keeps them apart). The encoder
starts with a window of no leading and no trailing zeros, in which every XOR
fits, so that it never writes a window of its own (`encoding.go:176`, the branch
after the reuse); the decoder's side of it is modelled too, but no
behaviour gets there.

## Proofs

The theorems hold for any numbers of goroutines, partitions, batches and
metrics that satisfy the named assumptions of the modules.

**Memory partition.** `MemoryPartitionSafety` is about the steps of `insertRows`.
It begins with `Typed`, the type invariant with what each program counter implies
for the local variables. For any worker limit:

* `TypeCorrect`, and `IndexAlwaysInRange` from `Bounded`: the mutex is held
  exactly inside a critical section, `size` never exceeds the slice, and neither
  does a size somebody has loaded. `IndexInRange` alone is not inductive, since
  nothing in it says that a slice only grows.
* `MinNeverChanges` follows from a step lemma. `MinAlwaysLowerBound` and
  `AlwaysWriteAhead` follow from `Accepted`: what a writer has established
  (rows logged, minimum set, stamp not before it) when it gets to the store.

and for a limit of one:

* `SerialInOrder`: the points are in order. The invariant `Serial` adds that one
  writer is in flight, so that the size it has loaded is still exact under the
  lock.
* `SerialMaxCovers`, from `Covered`: a call's local maximum covers the rows it
  has stored, and `maxT` covers it when the call returns.

`MemoryPartitionReads` is about what is read. For any worker limit:

* `SliceAlwaysInRange`: both bisections run over the same size, `Search` is
  monotone in its predicate, and it returns at most the size.
* `RowsKeptOnce` follows from `Once`: the loop of a writer has put aside only
  rows it has passed, each row it has taken has one place and no other row has
  any, and `numPoints` is the number of rows taken by calls that have added
  theirs (`Tally`). That this is the number of stored points, once no call is
  under way, is a bijection between the two sets.

and for a limit of one:

* `SerialSelectExact`, from `Selecting`: what minimum and maximum of a metric
  say about its points between any two steps of an insertion, and what a reader
  knows after each of its loads. Since the search is over points in order it
  returns the first one not before the bound.
* `SerialEncoded`, from `SerialInOrder` and `EncodesAscending`: what
  `encodeAllPoints` writes is every point once, in ascending order.

`DataLemmas` proves what the prover's library does not offer in a usable form:
induction and definition by recursion with sets and functions as parameters
(`RankInduction`, `RecursionSolvable`, `WalkExists`), that every sequence can
be sorted, and what `SortSlice`, the merge and concatenation return.

**Storage.** `StorageFlush` (types, the list, the steps of a flush) and
`StorageProofs` (the client, expiry, crashes, the theorems) are about the first run: from `NewStorage` on an
empty data path up to a crash and after it, until the next `NewStorage`. The
hypotheses, `InOrderClient`, are one flush at a time (`storage_two_flushers`
shows what two do), calls whose rows are newer than those of the calls before
(with late rows partitions may share a minimum, and `Held` fails), and no call
of Close (a crash inside Close loses rows; see the table above). Within one call
the rows may be in any order. Mode, partition duration, batches, numbers of calls, of
expired partitions and of crashes are arbitrary. `FirstRunDurable` is about the
runs that make at most ten segments, numbered 0 to 9 (`[](index <= 10)`): the
eleventh is named `10`, which sorts before all but `0` and `1`, and the table above
has what happens then. The other theorems have no such bound.

The invariant `FirstRun` says, while the process runs: minima descend along the
list, so that it has no cycle and no two partitions are confused by `remove` and
`swap` (`Linked`, `Apart`); the list is two memory partitions, perhaps a third
that the flush has still to write or is writing, and disk partitions (`Shape`);
what the files of the flush hold at each of its steps (`FlushState`); every
directory is that of a disk partition or of the flush (`Directories`); every owed
row is in a partition of the list (`Holding`); and the log, up to ten segments
(`Tracked`), has exactly one segment for each memory partition, in the order of
the list, until `removeOldest` (`Segments`). The last is what makes `removeOldest`, which takes no argument, drop the
segment of the partition that was just flushed. One lemma per action shows that
it is kept, and walks along the list are handled by a rank that descends with
the minima. `FirstRunDurable`, `FirstRunHeld`, `FirstRunHead` and, for a process
that is not started again, `FirstRunDiskImmutable` follow. TLC has checked `FirstRun`
on the two logged scenarios of `storage_crash`, with expiry and with a crash.

**Others.**

* `InsertGateProofs` proves `TypeCorrect`, `SlotsAlwaysExact`,
  `PoolAlwaysInactive`, `TicksOnlyLate` and `AlwaysGraceful` from one invariant.
  `Typed` leaves out that counters are not negative, which only `Counted` gives:
  each counter is the number of calls between its increment and its decrement.
  `Owned` says that a timer belongs to one call or to the pool, without which
  `Ticks` (what an active, pooled or unmade timer may have sent) is not kept by
  `Get`. `Closing` adds that the calls `Close` found are still running until it
  is woken, and that nothing runs then unless it began since.
* `DiskWALProofs` proves `AlwaysOldestFirst` for at most ten segments, the
  complement of the run `wal_tenth`. `FirstIsLeast` shows that the first name of
  a directory is the least number while all have one digit; `Inv` bounds the
  numbers through punctuations, crashes and recoveries, and confines `refresh`,
  the other call that removes segments, to a recovery.
  `LogHasNoHoles` and `LogIsReadable` are about any buffer that holds a whole
  record (`Roomy`, with at most ten segments), spilling in the middle of a record
  or not, any batches and any number of crashes. The invariant `Log` says that in an open log file and
  buffer together are the records of the rows appended to a segment, that the
  segments after the active one, left by an earlier process, are empty
  (`Settled`), and that a file which is not empty begins with a whole record
  (`Heads`), so that `readAll` finds no rows only when there are none. Reading is
  then taken apart file by file. `RecoveryIsRepeatable` has the same assumption. `RecoveryKeeps` states what a
  recovery needs: when the rows it has read fit the buffer it writes them to segment 1
  as a whole, so that reading goes on behind it as before; and when no later segment
  holds rows, a record cut in two at the end of segment 1 hides nothing. That a
  buffer holds a record, and one of these two, is needed, as the rows `Readable` and
  `Again` of the table above show.
* `PartitionListProofs` proves `TypeCorrect`, `AlwaysDescending` and
  `NeverTwins` from `Inv`: the nodes that a call's local variables point to are
  allocated and of descending generations even when they have been unlinked
  since, a swapped-in node has the generation of the one it replaces, and a
  scan meets each generation once. These hold for any overlap of calls.
  With calls that take turns (`Exclusive`; scans and first inserts still run
  beside them) it proves three more. `TurnsScanComplete` needs `Turns`: what a
  call has read of the list stays true, and of each partition that was there
  when a scan began the scan has read, or reaches from where it is, that
  partition or a node that stands for it. What a node reaches is the least set
  closed under the links (`Reach`); its lemmas say how inserting, bypassing and
  replacing a node change it. `TurnsHitTargets` also needs minima that differ
  (`MinsDiffer`) and `Aims`: of a call whose partition had a minimum when it began,
  the partition is at the walk or ahead of it until the walk has found a match,
  which is that partition. That the call does not give up at once is
  `SizedAlways`: between calls `numPartitions` is the length of the list
  (`Counted` adds what a call has still to add or to subtract). `TurnsRefine` is the refinement of
  `PartitionSequence`: the links lead to older generations, so there is one
  chain from the head (`Chained`, `Unrivalled`), and one access of each call
  changes it as the sequence's action does.

`MinImmutable`, the minimum that never changes once set, is proved
(`MinNeverChanges`) and in no run.

Only model-checked: liveness, which is out of the prover's reach; in `Storage` what
happens after a restart, with late rows or in Close, and `Selects`, `HeldOnce` and
`ClosedDurable`; `Gorilla` and `DiskPartition`, where the operators are recursive and the bit
arithmetic is beyond the provers.

## Not modelled

Several clients or metrics in `Storage`, and its log with a buffer; write errors
of the file system and a loss of power (the code never calls fsync); cgroup,
mmap and logging; `bitRange` and `UnmarshalUint16`, which nothing calls.
Negative timestamps are in `DiskPartition` only. `InsertGate` runs what a call
does with its slot in one step, and `DiskPartition` an insert.

## Plan

1. `MemoryPartition`, `PartitionList`, `InsertGate` with proofs, `Storage`,
   `DiskWAL`, the encoding and the data files: done.
2. An abstract store of rows that `Storage` implements; the default buffered
   log in `Storage`; two clients that both find the head inactive.
3. Proofs: `Selects` and `HeldOnce` of `Storage` in the first run; `Durable`
   beyond it.
