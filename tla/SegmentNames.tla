---------------------------- MODULE SegmentNames ----------------------------
(***************************************************************************)
(* The order in which os.ReadDir lists the segment files of the write-     *)
(* ahead log.  A segment is named by its number in decimal (disk_wal.go,   *)
(* createSegmentFile), and the names are sorted as strings: 10 comes       *)
(* before 9.                                                               *)
(***************************************************************************)
EXTENDS Integers

(* The powers of ten up to the first digit of the largest uint32 *)
Powers == <<1, 10, 100, 1000, 10000, 100000, 1000000, 10000000, 100000000, 1000000000>>

(* The number of digits of a number *)
Digits(n) == CHOOSE w \in 1..10 : (w = 1 \/ Powers[w] <= n) /\ (w = 10 \/ n < Powers[w + 1])

(* One name is before another: the first digits of the longer of the two    *)
(* are compared with the shorter, which comes first when they are the same. *)
NameBefore(i, j) ==
    \/ Digits(i) < Digits(j) /\ i <= j \div Powers[Digits(j) - Digits(i) + 1]
    \/ Digits(i) >= Digits(j) /\ i \div Powers[Digits(i) - Digits(j) + 1] < j

(* The first name of a directory *)
FirstName(numbers) == CHOOSE i \in numbers : \A j \in numbers \ {i} : NameBefore(i, j)
=============================================================================
