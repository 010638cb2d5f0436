------------------------------ MODULE DiskWAL ------------------------------
(***************************************************************************)
(* disk_wal.go: the segment files, the bufio.Writer in front of the active *)
(* one, and what diskWALReader makes of the files a crash leaves.          *)
(*                                                                         *)
(* A record reaches the writer in several Write calls.  Two pieces stand   *)
(* for them: a buffer that fills up between the two leaves half a record   *)
(* in the file.  A crash is one of the process: what was written to a file *)
(* stays, what is in the buffer is lost.                                   *)
(***************************************************************************)
EXTENDS Integers, Sequences, FiniteSets, FiniteSetsExt, SegmentNames

CONSTANTS
    Settings,       \* capacity: the pieces the bufio.Writer holds;
                    \* writeThrough: bufferedSize = 0, append ends with a flush
    MaxBatch,       \* bound: the rows of an append
    MaxRows,        \* bound: the rows of all appends
    MaxSegments,    \* bound: the segments one process creates
    MaxCrashes      \* bound: crashes

ASSUME BoundsAssumption ==
    /\ Settings \subseteq [capacity : Nat \ {0}, writeThrough : BOOLEAN]
    /\ {MaxBatch, MaxSegments} \subseteq Nat \ {0} /\ {MaxRows, MaxCrashes} \subseteq Nat

VARIABLES
    setting,    \* the one the storage is opened with, every time
    files,      \* the segment files: number -> the pieces written to it
    index,      \* the number of the next segment
    buf,        \* the pieces in the bufio.Writer
    op,         \* the call that holds mu: where it is, the rows it appends, the pieces left
    phase,      \* of the process
    appended,   \* history: the rows of the appends that are over, per segment
    rows,       \* history: how many rows were appended
    crashes

vars == <<setting, files, index, buf, op, phase, appended, rows, crashes>>

NoOp == [pc |-> "idle", rows |-> <<>>, rest |-> <<>>]
NoFiles == [i \in {} |-> <<>>]

(* newDiskWAL in an empty directory *)
Init ==
    /\ setting \in Settings
    /\ files = [i \in {0} |-> <<>>] /\ index = 1 /\ buf = <<>>
    /\ op = NoOp /\ phase = "open"
    /\ appended = [i \in {0} |-> <<>>] /\ rows = 0 /\ crashes = 0

Active == index - 1
Encoded(rs) == [k \in 1..2 * Len(rs) |-> <<rs[(k + 1) \div 2], IF k % 2 = 1 THEN 1 ELSE 2>>]
Idle == op.pc = "idle"

(* What the writer puts in the file is gone with a file that was removed. *)
Written(pieces) == [i \in DOMAIN files |-> IF i = Active THEN files[i] \o pieces ELSE files[i]]

(* O_APPEND|O_CREATE: a file of that number is opened as it is. *)
Created(fs, i) == [k \in DOMAIN fs \cup {i} |-> IF k \in DOMAIN fs THEN fs[k] ELSE <<>>]

-----------------------------------------------------------------------------
(* The segments in the order of their names *)
ReadDir ==
    [k \in 1..Cardinality(DOMAIN files) |->
        CHOOSE i \in DOMAIN files : Cardinality({j \in DOMAIN files : NameBefore(j, i)}) = k - 1]

(* segment.next until it fails: the records of a file, and whether the file *)
(* ends with the last of them.                                              *)
Parse(pieces) ==
    LET pairs == Len(pieces) \div 2
        broken == {k \in 1..pairs : pieces[2 * k - 1][2] = 2 \/ pieces[2 * k] # <<pieces[2 * k - 1][1], 2>>}
        n == Min(broken \cup {pairs + 1}) - 1
    IN  [rows |-> [k \in 1..n |-> pieces[2 * k][1]], clean |-> Len(pieces) = 2 * n]

(* readAll stops for good at a file that does not end with a whole record. *)
readAll ==
    LET dir == ReadDir
        from[k \in 1..Len(dir) + 1] ==
            LET read == Parse(files[dir[k]])
            IN  IF k > Len(dir) THEN <<>>
                ELSE IF read.clean THEN read.rows \o from[k + 1] ELSE read.rows
    IN  from[1]

(* Pieces that follow half a record are read as the rest of it.  Whether an *)
(* end of file, an unknown operation or a record that nobody wrote comes of *)
(* it depends on the bytes.                                                 *)
Garbled ==
    \E i \in DOMAIN files : Len(files[i]) > 2 * Len(Parse(files[i]).rows) + 1
NobodysRow == 0

-----------------------------------------------------------------------------
(* append: its rows are encoded piece by piece. *)

append(n) ==
    /\ phase = "open" /\ Idle /\ rows + n <= MaxRows
    /\ LET batch == [k \in 1..n |-> rows + k]
       IN  op' = [pc |-> "write", rows |-> batch, rest |-> Encoded(batch)]
    /\ rows' = rows + n
    /\ UNCHANGED <<setting, files, index, buf, phase, appended, crashes>>

(* bufio.Writer.Write: a full buffer goes to the file first. *)
Write ==
    /\ op.pc = "write" /\ op.rest # <<>>
    /\ IF Len(buf) = setting.capacity
       THEN files' = Written(buf) /\ buf' = <<Head(op.rest)>>
       ELSE buf' = Append(buf, Head(op.rest)) /\ UNCHANGED files
    /\ op' = [op EXCEPT !.rest = Tail(@)]
    /\ UNCHANGED <<setting, index, phase, appended, rows, crashes>>

(* Mutant: the recovery ends without a refresh. *)
AppendReturns_NoRefresh ==
    /\ op.pc = "write" /\ op.rest = <<>>
    /\ files' = Written(buf) /\ buf' = <<>>
    /\ appended' = [i \in DOMAIN appended |->
                       IF i = Active /\ phase = "open" THEN appended[i] \o op.rows ELSE appended[i]]
    /\ op' = NoOp
    /\ UNCHANGED <<setting, index, phase, rows, crashes>>

(* Mutant: append returns without the flush. *)
AppendReturns_NoFlush ==
    /\ op.pc = "write" /\ op.rest = <<>>
    /\ appended' = [i \in DOMAIN appended |->
                       IF i = Active /\ phase = "open" THEN appended[i] \o op.rows ELSE appended[i]]
    /\ op' = IF phase = "open" THEN NoOp ELSE [op EXCEPT !.pc = "refresh"]
    /\ UNCHANGED <<setting, files, buf, index, phase, rows, crashes>>

(* append returns, after a flush when there is no buffered size. *)
AppendReturns ==
    /\ op.pc = "write" /\ op.rest = <<>>
    /\ IF setting.writeThrough
       THEN files' = Written(buf) /\ buf' = <<>>
       ELSE UNCHANGED <<files, buf>>
    /\ appended' = [i \in DOMAIN appended |->
                       IF i = Active /\ phase = "open" THEN appended[i] \o op.rows ELSE appended[i]]
    /\ op' = IF phase = "open" THEN NoOp ELSE [op EXCEPT !.pc = "refresh"]
    /\ UNCHANGED <<setting, index, phase, rows, crashes>>

(* Mutant: the segment is closed with rows in the buffer. *)
punctuate_NoFlush ==
    /\ phase = "open" /\ Idle /\ index < MaxSegments
    /\ buf' = <<>>
    /\ op' = [NoOp EXCEPT !.pc = "create"]
    /\ UNCHANGED <<setting, files, index, phase, appended, rows, crashes>>

(* punctuate: flush and close the active segment ... *)
punctuate ==
    /\ phase = "open" /\ Idle /\ index < MaxSegments
    /\ files' = Written(buf) /\ buf' = <<>>
    /\ op' = [NoOp EXCEPT !.pc = "create"]
    /\ UNCHANGED <<setting, index, phase, appended, rows, crashes>>

(* ... and createSegmentFile; a recovery goes on with the rows it has read. *)
createSegmentFile ==
    /\ op.pc = "create"
    /\ files' = Created(files, index) /\ appended' = Created(appended, index)
    /\ index' = index + 1 /\ buf' = <<>>
    /\ op' = IF op.rows = <<>> THEN NoOp
             ELSE [pc |-> "write", rows |-> op.rows, rest |-> Encoded(op.rows)]
    /\ phase' = IF op.rows = <<>> THEN "open" ELSE phase
    /\ UNCHANGED <<setting, rows, crashes>>

(* Mutant: the last name in place of the first. *)
removeOldest_Last ==
    /\ phase = "open" /\ Idle
    /\ IF DOMAIN files = {}
       THEN UNCHANGED <<files, appended>>
       ELSE LET rest == DOMAIN files \ {ReadDir[Len(ReadDir)]}
            IN  /\ files' = [i \in rest |-> files[i]]
                /\ appended' = [i \in DOMAIN appended \cap rest |-> appended[i]]
    /\ UNCHANGED <<setting, index, buf, op, phase, rows, crashes>>

(* removeOldest: files[0] of the directory, or "no segment found".  Nothing  *)
(* here keeps it from the active segment; module Storage has the callers.   *)
removeOldest ==
    /\ phase = "open" /\ Idle
    /\ IF DOMAIN files = {}
       THEN UNCHANGED <<files, appended>>
       ELSE LET rest == DOMAIN files \ {ReadDir[1]}
            IN  /\ files' = [i \in rest |-> files[i]]
                /\ appended' = [i \in DOMAIN appended \cap rest |-> appended[i]]
    /\ UNCHANGED <<setting, index, buf, op, phase, rows, crashes>>

(* flush, then removeAll: the end of Close. *)
Close ==
    /\ phase = "open" /\ Idle
    /\ files' = NoFiles /\ appended' = NoFiles /\ buf' = <<>>
    /\ phase' = "closed"
    /\ UNCHANGED <<setting, index, op, rows, crashes>>

-----------------------------------------------------------------------------
Crash ==
    /\ phase \in {"open", "recovering"} /\ crashes < MaxCrashes
    /\ phase' = "down" /\ op' = NoOp /\ buf' = <<>> /\ index' = 0
    /\ appended' = [i \in DOMAIN files |-> Parse(files[i]).rows]
    /\ crashes' = crashes + 1
    /\ UNCHANGED <<setting, files, rows>>

(* Mutant: the log is emptied before its rows are logged again. *)
Open_RefreshFirst ==
    /\ phase = "down"
    /\ files' = [i \in {0} |-> <<>>] /\ appended' = [i \in {0} |-> <<>>] /\ index' = 1
    /\ IF readAll = <<>>
       THEN phase' = "open" /\ UNCHANGED op
       ELSE phase' = "recovering" /\ op' = [NoOp EXCEPT !.pc = "create", !.rows = readAll]
    /\ UNCHANGED <<setting, buf, rows, crashes>>

(* newDiskWAL, then recoverWAL: without rows there is nothing to do; with   *)
(* rows InsertRows punctuates, appends them and the log is refreshed.       *)
Open ==
    /\ phase = "down"
    /\ files' = Created(files, 0) /\ appended' = Created(appended, 0) /\ index' = 1
    /\ \E found \in {readAll} \cup (IF Garbled THEN {Append(readAll, NobodysRow)} ELSE {}) :
          IF found = <<>>
          THEN phase' = "open" /\ UNCHANGED op
          ELSE phase' = "recovering" /\ op' = [NoOp EXCEPT !.pc = "create", !.rows = found]
    /\ UNCHANGED <<setting, buf, rows, crashes>>

(* ... or NewStorage ends there: readAll finds an unknown operation, or the *)
(* length of a metric name that make refuses with a panic.                  *)
OpenFails ==
    /\ phase = "down" /\ Garbled
    /\ phase' = "failed"
    /\ UNCHANGED <<setting, files, index, buf, op, appended, rows, crashes>>

(* refresh: removeAll, then a new segment. *)
refresh ==
    /\ op.pc = "refresh"
    /\ files' = NoFiles /\ appended' = NoFiles /\ buf' = <<>>
    /\ op' = [NoOp EXCEPT !.pc = "create"]
    /\ UNCHANGED <<setting, index, phase, rows, crashes>>

Finished == phase \in {"closed", "failed"} /\ UNCHANGED vars

Next ==
    \/ \E n \in 1..MaxBatch : append(n)
    \/ Write \/ AppendReturns
    \/ punctuate \/ createSegmentFile \/ removeOldest \/ Close
    \/ Crash \/ Open \/ OpenFails \/ refresh
    \/ Finished

Spec == Init /\ [][Next]_vars

(* The process is started again, and NewStorage runs on from there. *)
FairSpec ==
    /\ Spec
    /\ WF_vars(Open) /\ WF_vars(createSegmentFile)
    /\ WF_vars(Write) /\ WF_vars(AppendReturns) /\ WF_vars(refresh)

-----------------------------------------------------------------------------
(* Properties *)

Kept == UNION {Range(appended[i]) : i \in DOMAIN appended}

(* Written through, the log can give back after a crash at any moment every *)
(* row whose append has returned and whose segment is still wanted.         *)
Readable == setting.writeThrough /\ phase = "open" => Kept \subseteq Range(readAll)

(* The rows of the appends in the order of the segments, the current append included *)
Sequence ==
    LET segment(i) == appended[i] \o (IF i = Active THEN op.rows ELSE <<>>)
        from[i \in 0..MaxSegments + 4] ==
            IF i = MaxSegments + 4 THEN <<>>
            ELSE IF i \in DOMAIN appended THEN segment(i) \o from[i + 1] ELSE from[i + 1]
    IN  from[0]

(* One sequence begins another. *)
Begin(s, t) == Len(s) <= Len(t) /\ \A k \in 1..Len(s) : s[k] = t[k]

(* A crash cuts the log short and nothing else: what is read back is the    *)
(* beginning of what was appended, however buffer, segments and crashes     *)
(* fall together.                                                           *)
NoHoles == phase = "open" => Begin(readAll, Sequence)

(* The rows read back can all be read again *)
Again == Range(op.rows) \ {NobodysRow} \subseteq Range(readAll)

(* The records a recovery logs again fit the bufio.Writer together ... *)
Fits == 2 * Len(op.rows) <= setting.capacity

(* ... or it has only segment 0 to lose, in front of the one it writes to. *)
NothingBehind == \A i \in DOMAIN files : i > 1 => files[i] = <<>>

(* Written through, a recovery that has not refreshed the log yet can be    *)
(* repeated: a crash in the middle of it loses none of the rows it has read *)
(* as long as they fit the buffer, or no segment behind the one they are    *)
(* logged to holds any.  A recovery of more rows than that spills half a    *)
(* record into segment 1, and readAll stops there, in front of segment 2.   *)
RecoveryKeeps == setting.writeThrough /\ phase = "recovering" /\ (Fits \/ NothingBehind) => Again

(* Whatever a crash leaves, the next NewStorage comes to an end: the log is *)
(* open again, or reading it has failed.                                    *)
Recovers == phase = "down" ~> phase \in {"open", "failed"}

(* "removes only the oldest segment": no segment goes before an older one.  *)
OldestFirst ==
    [][phase = "open" /\ phase' = "open" =>
         \A i \in DOMAIN files \ DOMAIN files' : \A j \in DOMAIN files' : i < j]_vars
=============================================================================
