---------------------------- MODULE DiskWALProofs ----------------------------
(* The theorems of DiskWAL: while the number of a segment has one digit, the *)
(* first name of the directory is the oldest segment, what is read of the    *)
(* log has no holes, and it has every row that the log owes to its callers.  *)
EXTENDS DiskWAL, FiniteSetTheorems, DataLemmas, TLAPS

(* The numbers with one digit *)
Numbers == 0..9

(* The calls and the segments that a storage can be at.  A recovery comes to *)
(* refresh from its second segment, so that it makes three; punctuate makes  *)
(* no more than MaxSegments.  Only a recovery refreshes, which is why an open *)
(* log loses a segment in removeOldest alone.                                *)
Inv ==
    /\ DOMAIN files \subseteq Numbers
    /\ index \in 0..10
    /\ op = [pc |-> op.pc, rows |-> op.rows, rest |-> op.rest]
    /\ op.pc \in {"idle", "write", "create", "refresh"}
    /\ op.pc = "create" => index \in Numbers
    /\ op.pc = "refresh" => phase = "recovering"
    /\ phase = "recovering" => index <= IF op.pc = "create" /\ op.rows # <<>> THEN 1 ELSE 2
    /\ phase \notin {"open", "recovering"} => op.pc = "idle"

-----------------------------------------------------------------------------
(* A set of such numbers that has a member has a least one. *)
LEMMA Least ==
    ASSUME NEW S \in SUBSET Numbers, S # {}
    PROVE  \E i \in S : \A j \in S : i <= j
  <1> DEFINE none(n) == \A i \in S : i >= n
  <1>1. SUFFICES ASSUME \A i \in S : \E j \in S : j < i
                 PROVE  FALSE
    BY DEF Numbers
  <1>2. none(0)
    BY DEF Numbers
  <1>3. ASSUME NEW n \in Numbers, none(n)
        PROVE  none(n + 1)
    <2>1. n \notin S
      BY <1>1, <1>3 DEF Numbers
    <2> QED
      BY <1>3, <2>1 DEF Numbers
  <1> HIDE DEF none
  <1>4. none(5)
    <2>1. none(0 + 1)  BY <1>2, <1>3 DEF Numbers
    <2>2. none(1 + 1)  BY <2>1, <1>3 DEF Numbers
    <2>3. none(2 + 1)  BY <2>2, <1>3 DEF Numbers
    <2>4. none(3 + 1)  BY <2>3, <1>3 DEF Numbers
    <2>5. none(4 + 1)  BY <2>4, <1>3 DEF Numbers
    <2> QED  BY <2>5
  <1>5. none(10)
    <2>1. none(5 + 1)  BY <1>4, <1>3 DEF Numbers
    <2>2. none(6 + 1)  BY <2>1, <1>3 DEF Numbers
    <2>3. none(7 + 1)  BY <2>2, <1>3 DEF Numbers
    <2>4. none(8 + 1)  BY <2>3, <1>3 DEF Numbers
    <2>5. none(9 + 1)  BY <2>4, <1>3 DEF Numbers
    <2> QED  BY <2>5
  <1>6. PICK i \in S : TRUE
    OBVIOUS
  <1>7. i >= 10
    BY <1>5 DEF none
  <1> QED
    BY <1>7 DEF Numbers

(* files[0] of the directory, which removeOldest takes, is the least number. *)
LEMMA FirstIsLeast ==
    ASSUME DOMAIN files \subseteq Numbers, DOMAIN files # {}
    PROVE  ReadDir[1] \in DOMAIN files /\ \A j \in DOMAIN files : ReadDir[1] <= j
  <1> DEFINE before(i) == {j \in DOMAIN files : NameBefore(j, i)}
  <1>1. IsFiniteSet(Numbers)
    <2>1. 0 \in Int /\ 9 \in Int
      OBVIOUS
    <2> QED
      BY <2>1, FS_Interval, Zenon DEF Numbers
  <1>2. IsFiniteSet(DOMAIN files) /\ Cardinality(DOMAIN files) \in Nat
    BY <1>1, FS_Subset, FS_CardinalityType
  <1>3. Cardinality(DOMAIN files) # 0
    BY <1>2, FS_EmptySet, Zenon
  <1>4. \A i \in DOMAIN files : Cardinality(before(i)) = 0 <=> \A j \in DOMAIN files : i <= j
    <2> SUFFICES ASSUME NEW i \in DOMAIN files
                 PROVE  Cardinality(before(i)) = 0 <=> \A j \in DOMAIN files : i <= j
      OBVIOUS
    <2>1. IsFiniteSet(before(i))
      BY <1>2, FS_Subset
    <2>2. Cardinality(before(i)) = 0 <=> before(i) = {}
      BY <2>1, FS_EmptySet
    <2>3. before(i) = {j \in DOMAIN files : j < i}
      BY OneDigit DEF Numbers
    <2>4. \A j \in DOMAIN files : ~(j < i) <=> i <= j
      BY DEF Numbers
    <2> QED
      BY <2>2, <2>3, <2>4
  <1>5. PICK least \in DOMAIN files : \A j \in DOMAIN files : least <= j
    BY Least
  <1>6. Cardinality(before(least)) = 0
    BY <1>4, <1>5
  <1>7. ReadDir[1] = CHOOSE i \in DOMAIN files : Cardinality(before(i)) = 0
    <2>1. 1 \in 1..Cardinality(DOMAIN files)
      BY <1>2, <1>3
    <2>2. ReadDir[1] = CHOOSE i \in DOMAIN files : Cardinality(before(i)) = 1 - 1
      BY <2>1, Zenon DEF ReadDir
    <2>3. 1 - 1 = 0
      OBVIOUS
    <2> QED
      BY <2>2, <2>3
  <1>8. ReadDir[1] \in DOMAIN files /\ Cardinality(before(ReadDir[1])) = 0
    BY <1>6, <1>7, Zenon
  <1> QED
    BY <1>4, <1>8

-----------------------------------------------------------------------------
(* newDiskWAL in an empty directory is at the first segment, with no call.   *)
LEMMA Begins ==
    Init => Inv
  BY DEF Init, Inv, NoOp, Numbers

(* Each step of a call, of a crash or of a recovery keeps to that. *)
LEMMA Preserves ==
    ASSUME MaxSegments <= 10, Inv, [Next]_vars
    PROVE  Inv'
  <1> USE DEF NoOp, NoFiles, Idle, Numbers
  <1>0. MaxSegments \in Nat
    BY BoundsAssumption
  <1>1. ASSUME NEW n \in 1..MaxBatch, append(n)  PROVE Inv'
    BY <1>1 DEF append, Inv
  <1>2. CASE Write
    BY <1>2, Zenon DEF Write, Written, Inv
  <1>3. CASE AppendReturns
    BY <1>3, Zenon DEF AppendReturns, Written, Inv
  <1>4. CASE punctuate
    BY <1>0, <1>4 DEF punctuate, Written, Inv
  <1>5. CASE createSegmentFile
    BY <1>5 DEF createSegmentFile, Created, Inv
  <1>6. CASE removeOldest
    BY <1>6 DEF removeOldest, Inv
  <1>7. CASE Close
    BY <1>7 DEF Close, Inv
  <1>8. CASE Crash
    BY <1>8 DEF Crash, Inv
  <1>9. CASE Open
    <2>1. files' = Created(files, 0) /\ index' = 1
      BY <1>9 DEF Open
    <2>2. op.pc = "idle"
      BY <1>9, SMTT(30) DEF Open, Inv
    <2>3. \/ phase' = "open" /\ op' = op
          \/ /\ phase' = "recovering"
             /\ \E found : op' = [NoOp EXCEPT !.pc = "create", !.rows = found]
      <3>1. PICK found : IF found = <<>>
                         THEN phase' = "open" /\ UNCHANGED op
                         ELSE phase' = "recovering" /\ op' = [NoOp EXCEPT !.pc = "create", !.rows = found]
        BY <1>9, Zenon DEF Open
      <3> QED
        BY <3>1, Zenon
    <2>4. CASE phase' = "open" /\ op' = op
      BY <2>1, <2>2, <2>4 DEF Created, Inv
    <2>5. ASSUME phase' = "recovering",
                 NEW found, op' = [NoOp EXCEPT !.pc = "create", !.rows = found]
          PROVE  Inv'
      <3>1. op' = [pc |-> "create", rows |-> found, rest |-> <<>>]
        BY <2>5, Zenon
      <3>2. op'.pc = "create" /\ op' = [pc |-> op'.pc, rows |-> op'.rows, rest |-> op'.rest]
        BY <3>1
      <3>3. DOMAIN files' \subseteq Numbers
        BY <2>1 DEF Created, Inv
      <3> QED
        BY <2>1, <2>5, <3>2, <3>3 DEF Inv
    <2> QED
      BY <2>3, <2>4, <2>5, Zenon
  <1>10. CASE OpenFails
    BY <1>10 DEF OpenFails, Inv
  <1>11. CASE refresh
    BY <1>11 DEF refresh, Inv
  <1>12. CASE UNCHANGED vars
    BY <1>12 DEF vars, Inv
  <1> QED
    BY <1>1, <1>2, <1>3, <1>4, <1>5, <1>6, <1>7, <1>8, <1>9, <1>10, <1>11, <1>12 DEF Next, Finished

(* removeOldest takes the least number, and no other step of an open log     *)
(* takes a segment.                                                          *)
LEMMA RemovesLeast ==
    ASSUME Inv, [Next]_vars, phase = "open", phase' = "open"
    PROVE  \A i \in DOMAIN files \ DOMAIN files' : \A j \in DOMAIN files' : i < j
  <1> USE DEF NoOp, NoFiles, Idle, Numbers
  <1>1. CASE removeOldest
    <2>1. CASE DOMAIN files = {}
      BY <2>1
    <2>2. CASE DOMAIN files # {}
      <3>1. DOMAIN files' = DOMAIN files \ {ReadDir[1]}
        BY <1>1, <2>2 DEF removeOldest
      <3>2. ReadDir[1] \in DOMAIN files /\ \A j \in DOMAIN files : ReadDir[1] <= j
        BY <2>2, FirstIsLeast DEF Inv
      <3> QED
        BY <3>1, <3>2 DEF Inv
    <2> QED
      BY <2>1, <2>2
  <1>2. CASE ~removeOldest
    <2>1. DOMAIN files \subseteq DOMAIN files'
      BY <1>2, Zenon DEF Next, append, Write, AppendReturns, punctuate, createSegmentFile, Close, Crash,
                  Open, OpenFails, refresh, Finished, vars, Written, Created, Inv
    <2> QED
      BY <2>1
  <1> QED
    BY <1>1, <1>2

(* removeOldest "removes only the oldest segment": as long as a process      *)
(* makes no more than ten segments, for any batches, buffer, crashes and     *)
(* recoveries.  The run wal_tenth shows that ten is the limit.               *)
THEOREM AlwaysOldestFirst ==
    ASSUME MaxSegments <= 10
    PROVE  Spec => OldestFirst
  <1>1. Inv /\ [Next]_vars => Inv'
    BY Preserves
  <1>2. Inv /\ [Next]_vars => [phase = "open" /\ phase' = "open" =>
            \A i \in DOMAIN files \ DOMAIN files' : \A j \in DOMAIN files' : i < j]_vars
    BY RemovesLeast
  <1> QED
    BY <1>1, <1>2, Begins, PTL DEF Spec, OldestFirst

-----------------------------------------------------------------------------
(* Records *)

Piece == Nat \X {1, 2}

(* The pieces p are the records of the rows s. *)
Codes(p, s) ==
    /\ Len(p) = 2 * Len(s)
    /\ \A k \in 1..Len(s) : p[2 * k - 1] = <<s[k], 1>> /\ p[2 * k] = <<s[k], 2>>

(* append encodes its rows so. *)
LEMMA EncodedCodes ==
    ASSUME NEW s \in Seq(Nat)
    PROVE  Encoded(s) \in Seq(Piece) /\ Codes(Encoded(s), s)
<1> DEFINE n == Len(s)
<1>1. n \in Nat /\ DOMAIN s = 1..n /\ \A k \in 1..n : s[k] \in Nat
  OBVIOUS
<1> HIDE DEF n
<1>2. ASSUME NEW k \in 1..(2 * n) PROVE (k + 1) \div 2 \in 1..n
  BY <1>1
<1>3. \A k \in 1..(2 * n) : s[(k + 1) \div 2] \in Nat
  BY <1>1, <1>2
<1>4. Encoded(s) = [k \in 1..(2 * n) |-> <<s[(k + 1) \div 2], IF k % 2 = 1 THEN 1 ELSE 2>>]
  BY DEF Encoded, n
<1>5. Encoded(s) \in [1..(2 * n) -> Piece]
  BY <1>3, <1>4 DEF Piece
<1>6. 2 * n \in Nat
  BY <1>1
<1>7. Encoded(s) \in Seq(Piece) /\ Len(Encoded(s)) = 2 * n
  BY <1>5, <1>6
<1>8. ASSUME NEW k \in 1..n PROVE Encoded(s)[2 * k - 1] = <<s[k], 1>> /\ Encoded(s)[2 * k] = <<s[k], 2>>
  <2>1. 2 * k - 1 \in 1..(2 * n) /\ 2 * k \in 1..(2 * n)
    BY <1>1
  <2>2. ((2 * k - 1) + 1) \div 2 = k /\ (2 * k - 1) % 2 = 1
    BY <1>1
  <2>3. (2 * k + 1) \div 2 = k /\ (2 * k) % 2 = 0
    BY <1>1
  <2> QED BY <1>4, <2>1, <2>2, <2>3
<1> QED BY <1>7, <1>8 DEF Codes, n

(* One sequence behind another *)
LEMMA ConcatAt ==
    ASSUME NEW S, NEW p \in Seq(S), NEW q \in Seq(S)
    PROVE  /\ p \o q \in Seq(S) /\ Len(p) \in Nat /\ Len(q) \in Nat /\ Len(p \o q) = Len(p) + Len(q)
           /\ \A k \in 1..Len(p) : (p \o q)[k] = p[k]
           /\ \A j \in 1..Len(q) : (p \o q)[Len(p) + j] = q[j]
OBVIOUS

(* Records behind records *)
LEMMA CodesConcat ==
    ASSUME NEW p \in Seq(Piece), NEW s \in Seq(Nat), Codes(p, s),
           NEW q \in Seq(Piece), NEW t \in Seq(Nat), Codes(q, t)
    PROVE  Codes(p \o q, s \o t)
<1>1. /\ Len(p) = 2 * Len(s)
      /\ \A k \in 1..Len(s) : p[2 * k - 1] = <<s[k], 1>> /\ p[2 * k] = <<s[k], 2>>
  BY Zenon DEF Codes
<1>2. /\ Len(q) = 2 * Len(t)
      /\ \A k \in 1..Len(t) : q[2 * k - 1] = <<t[k], 1>> /\ q[2 * k] = <<t[k], 2>>
  BY Zenon DEF Codes
<1> DEFINE u == p \o q
           v == s \o t
<1>3. /\ Len(p) \in Nat /\ Len(q) \in Nat /\ Len(u) = Len(p) + Len(q)
      /\ \A k \in 1..Len(p) : u[k] = p[k]
      /\ \A j \in 1..Len(q) : u[Len(p) + j] = q[j]
  BY ConcatAt
<1>4. /\ Len(s) \in Nat /\ Len(t) \in Nat /\ Len(v) = Len(s) + Len(t)
      /\ \A k \in 1..Len(s) : v[k] = s[k]
      /\ \A j \in 1..Len(t) : v[Len(s) + j] = t[j]
  BY ConcatAt
<1> HIDE DEF u, v
<1>5. ASSUME NEW k \in 1..(Len(s) + Len(t)) PROVE u[2 * k - 1] = <<v[k], 1>> /\ u[2 * k] = <<v[k], 2>>
  <2>1. CASE k <= Len(s)
    <3>1. k \in 1..Len(s) /\ 2 * k - 1 \in 1..Len(p) /\ 2 * k \in 1..Len(p)
      BY <1>1, <1>4, <2>1
    <3> QED BY <1>1, <1>3, <1>4, <3>1, Zenon
  <2>2. CASE k > Len(s)
    <3>1. PICK j : j = k - Len(s)
      OBVIOUS
    <3>2. /\ j \in 1..Len(t) /\ k = Len(s) + j
          /\ 2 * k - 1 = Len(p) + (2 * j - 1) /\ 2 * k = Len(p) + 2 * j
          /\ 2 * j - 1 \in 1..Len(q) /\ 2 * j \in 1..Len(q)
      BY <1>1, <1>2, <1>4, <2>2, <3>1
    <3>3. u[2 * k - 1] = q[2 * j - 1] /\ u[2 * k] = q[2 * j] /\ v[k] = t[j]
      BY <1>3, <1>4, <3>2, Zenon
    <3> QED BY <1>2, <3>2, <3>3, Zenon
  <2> QED BY <1>4, <2>1, <2>2, SMTT(30)
<1>6. Len(u) = 2 * Len(v)
  BY <1>1, <1>2, <1>3, <1>4
<1>7. Codes(u, v)
  BY <1>4, <1>5, <1>6, Zenon DEF Codes
<1> QED BY <1>7 DEF u, v

(* What segment.next reads until it fails: n records, up to the first place *)
(* where it finds no record.                                                *)
Record(p, k) == p[2 * k - 1][2] # 2 /\ p[2 * k] = <<p[2 * k - 1][1], 2>>
Reads(p, n) ==
    /\ n \in Nat /\ 2 * n <= Len(p)
    /\ Parse(p) = [rows |-> [k \in 1..n |-> p[2 * k][1]], clean |-> Len(p) = 2 * n]
    /\ \A k \in 1..n : Record(p, k)
    /\ 2 * (n + 1) <= Len(p) => ~ Record(p, n + 1)

(* Reading a file gives so many records. *)
LEMMA ParseReads ==
    ASSUME NEW p \in Seq(Piece)
    PROVE  \E n \in Nat : Reads(p, n)
<1> DEFINE pairs == Len(p) \div 2
           broken == {k \in 1..pairs : p[2 * k - 1][2] = 2 \/ p[2 * k] # <<p[2 * k - 1][1], 2>>}
           T == broken \cup {pairs + 1}
           n == Min(T) - 1
<1>1. pairs \in Nat /\ Len(p) \in Nat /\ 2 * pairs <= Len(p) /\ Len(p) < 2 * pairs + 2
  OBVIOUS
<1>2. Parse(p) = [rows |-> [k \in 1..n |-> p[2 * k][1]], clean |-> Len(p) = 2 * n]
  BY DEF Parse
<1>3. \A k \in 1..pairs : k \in broken <=> ~ Record(p, k)
  BY DEF Record
<1>4. broken \subseteq 1..pairs
  OBVIOUS
<1> HIDE DEF broken, pairs
<1>5. T \in SUBSET Nat /\ T # {} /\ pairs + 1 \in T
  BY <1>1, <1>4
<1>6. Min(T) \in T /\ \A y \in T : Min(T) <= y
  <2>1. PICK x \in T : \A y \in T : x <= y
    <3> HIDE DEF T
    <3> QED BY <1>5, NatMin, Zenon
  <2> QED BY <2>1, Zenon DEF Min
<1>7. PICK x : x = Min(T)
  BY Zenon
<1>8. x \in T /\ (\A y \in T : x <= y) /\ x \in 1..(pairs + 1) /\ n = x - 1
  <2>1. x \in T /\ (\A y \in T : x <= y)
    BY <1>6, <1>7, Zenon
  <2>2. x \in 1..(pairs + 1)
    BY <1>1, <1>4, <2>1
  <2> QED BY <1>7, <2>1, <2>2, Zenon
<1>9. n \in Nat /\ 2 * n <= Len(p)
  BY <1>1, <1>8
<1>10. ASSUME NEW k \in 1..n PROVE Record(p, k)
  <2>1. k \in 1..pairs /\ k < x
    BY <1>1, <1>8, <1>10
  <2>2. k \notin T
    BY <1>1, <1>8, <2>1
  <2> QED BY <1>3, <2>1, <2>2, Zenon
<1>11. ASSUME 2 * (n + 1) <= Len(p) PROVE ~ Record(p, n + 1)
  <2>1. n + 1 = x /\ x <= pairs /\ x \in 1..pairs
    BY <1>1, <1>8, <1>11
  <2>2. x # pairs + 1
    BY <1>1, <2>1
  <2>3. x \in broken
    BY <1>8, <2>2
  <2> QED BY <1>3, <2>1, <2>3
<1> HIDE DEF n
<1> QED BY <1>2, <1>9, <1>10, <1>11, Zenon DEF Reads

(* Reading gives rows, n of them. *)
LEMMA ReadsType ==
    ASSUME NEW p \in Seq(Piece), NEW n \in Nat, Reads(p, n)
    PROVE  /\ Parse(p).rows \in Seq(Nat) /\ Len(Parse(p).rows) = n
           /\ Parse(p).clean <=> Len(p) = 2 * n
           /\ \A k \in 1..n : Parse(p).rows[k] = p[2 * k][1]
<1> DEFINE r == [k \in 1..n |-> p[2 * k][1]]
<1>1. Parse(p).rows = r /\ Parse(p).clean = (Len(p) = 2 * n) /\ 2 * n <= Len(p)
  BY DEF Reads
<1>2. \A k \in 1..n : 2 * k \in 1..Len(p)
  BY <1>1
<1>3. \A k \in 1..n : p[2 * k][1] \in Nat
  BY <1>2 DEF Piece
<1>4. r \in [1..n -> Nat]
  BY <1>3
<1>5. r \in Seq(Nat) /\ Len(r) = n
  BY <1>4
<1> QED BY <1>1, <1>5, Zenon

(* Of the beginning of a file of records everything is read but half a      *)
(* record at the end.                                                       *)
LEMMA ReadsCodes ==
    ASSUME NEW p \in Seq(Piece), NEW q \in Seq(Piece), NEW s \in Seq(Nat), Codes(p \o q, s),
           NEW n \in Nat, Reads(p, n)
    PROVE  /\ n <= Len(s) /\ 2 * n <= Len(p) /\ Len(p) <= 2 * n + 1
           /\ \A k \in 1..n : Parse(p).rows[k] = s[k]
<1>1. /\ Len(p) \in Nat /\ Len(q) \in Nat /\ Len(p \o q) = Len(p) + Len(q)
      /\ \A k \in 1..Len(p) : (p \o q)[k] = p[k]
  BY ConcatAt
<1>2. /\ Len(p \o q) = 2 * Len(s) /\ Len(s) \in Nat
      /\ \A k \in 1..Len(s) : (p \o q)[2 * k - 1] = <<s[k], 1>> /\ (p \o q)[2 * k] = <<s[k], 2>>
  <2>1. Len(s) \in Nat
    OBVIOUS
  <2> QED BY <2>1, Zenon DEF Codes
<1>3. 2 * n <= Len(p) /\ (2 * (n + 1) <= Len(p) => ~ Record(p, n + 1))
  BY DEF Reads
<1>4. ASSUME NEW k \in Nat \ {0}, 2 * k <= Len(p)
      PROVE  k \in 1..Len(s) /\ p[2 * k - 1] = <<s[k], 1>> /\ p[2 * k] = <<s[k], 2>>
  <2>1. k \in 1..Len(s) /\ 2 * k - 1 \in 1..Len(p) /\ 2 * k \in 1..Len(p)
    BY <1>1, <1>2, <1>4, SMTT(30)
  <2> QED BY <1>1, <1>2, <2>1, Zenon
<1>5. ASSUME 2 * (n + 1) <= Len(p) PROVE FALSE
  <2>1. PICK m : m = n + 1
    OBVIOUS
  <2>2. m \in Nat \ {0} /\ 2 * m <= Len(p) /\ ~ Record(p, m)
    BY <1>3, <1>5, <2>1
  <2>3. p[2 * m - 1] = <<s[m], 1>> /\ p[2 * m] = <<s[m], 2>>
    BY <1>4, <2>2, Zenon
  <2> QED BY <2>2, <2>3 DEF Record
<1>6. Len(p) <= 2 * n + 1 /\ n <= Len(s)
  BY <1>1, <1>2, <1>3, <1>5, SMTT(30)
<1>7. ASSUME NEW k \in 1..n PROVE Parse(p).rows[k] = s[k]
  <2>1. k \in Nat \ {0} /\ 2 * k <= Len(p)
    BY <1>3
  <2>2. p[2 * k] = <<s[k], 2>>
    BY <1>4, <2>1, Zenon
  <2>3. Parse(p).rows[k] = p[2 * k][1]
    BY ReadsType
  <2> QED BY <2>2, <2>3
<1> QED BY <1>3, <1>6, <1>7

-----------------------------------------------------------------------------
(* The segments in the order of their names *)

Stored == files \in [DOMAIN files -> Seq(Piece)] /\ DOMAIN files \subseteq Numbers

Below(i) == {j \in DOMAIN files : j < i}
Place(i) == Cardinality(Below(i)) + 1

(* A segment is followed by the next place. *)
LEMMA PlaceStep ==
    ASSUME DOMAIN files \subseteq Numbers, NEW i \in Nat
    PROVE  /\ IsFiniteSet(Below(i)) /\ Cardinality(Below(i)) \in Nat /\ Place(i) \in Nat
           /\ Place(i + 1) = IF i \in DOMAIN files THEN Place(i) + 1 ELSE Place(i)
<1>1. IsFiniteSet(Numbers)
  <2>1. 0 \in Int /\ 9 \in Int
    OBVIOUS
  <2> QED BY <2>1, FS_Interval, Zenon DEF Numbers
<1>2. Below(i) \subseteq Numbers
  BY DEF Below
<1>3. IsFiniteSet(Below(i)) /\ Cardinality(Below(i)) \in Nat
  BY <1>1, <1>2, FS_Subset, FS_CardinalityType
<1>4. Below(i + 1) = IF i \in DOMAIN files THEN Below(i) \cup {i} ELSE Below(i)
  BY DEF Below, Numbers
<1>5. i \notin Below(i)
  BY DEF Below
<1>6. i \in DOMAIN files => Cardinality(Below(i + 1)) = Cardinality(Below(i)) + 1
  BY <1>3, <1>4, <1>5, FS_AddElement
<1> QED BY <1>3, <1>4, <1>6 DEF Place

(* Before the first segment and behind the last *)
LEMMA PlaceEnds ==
    ASSUME DOMAIN files \subseteq Numbers, NEW B \in Nat, \A i \in DOMAIN files : i < B
    PROVE  /\ Place(0) = 1 /\ Place(B) = Cardinality(DOMAIN files) + 1
           /\ Cardinality(DOMAIN files) \in Nat
<1>1. Below(0) = {} /\ Below(B) = DOMAIN files
  BY DEF Below, Numbers
<1>2. Cardinality(Below(0)) = 0
  BY <1>1, FS_EmptySet
<1>3. Cardinality(Below(B)) \in Nat
  BY PlaceStep
<1> QED BY <1>1, <1>2, <1>3 DEF Place

(* Places go up with the numbers. *)
LEMMA PlaceMonotone ==
    ASSUME DOMAIN files \subseteq Numbers, NEW i \in DOMAIN files, NEW j \in Nat, i < j
    PROVE  Place(i) < Place(j)
<1>1. i \in Nat
  BY DEF Numbers
<1>2. Below(i + 1) \subseteq Below(j)
  BY <1>1 DEF Below, Numbers
<1>3. Cardinality(Below(i + 1)) <= Cardinality(Below(j))
  BY <1>2, PlaceStep, FS_Subset
<1>4. Place(i + 1) = Place(i) + 1 /\ Place(i) \in Nat
  BY <1>1, PlaceStep
<1>5. Cardinality(Below(i + 1)) \in Nat /\ Cardinality(Below(j)) \in Nat
  BY <1>1, PlaceStep
<1> QED BY <1>3, <1>4, <1>5 DEF Place

(* os.ReadDir puts each segment at its place. *)
LEMMA ReadDirPlace ==
    ASSUME DOMAIN files \subseteq Numbers, NEW i \in DOMAIN files
    PROVE  Place(i) \in 1..Cardinality(DOMAIN files) /\ ReadDir[Place(i)] = i
<1>1. i \in Nat /\ \A j \in DOMAIN files : j < 10
  BY DEF Numbers
<1>2. Place(10) = Cardinality(DOMAIN files) + 1 /\ Cardinality(DOMAIN files) \in Nat
  BY <1>1, PlaceEnds
<1>3. Place(i) < Place(10) /\ Place(i) \in Nat /\ Cardinality(Below(i)) \in Nat
  BY <1>1, PlaceMonotone, PlaceStep
<1>4. Place(i) \in 1..Cardinality(DOMAIN files) /\ Place(i) - 1 = Cardinality(Below(i))
  BY <1>2, <1>3 DEF Place
<1>5. ASSUME NEW j \in DOMAIN files PROVE {m \in DOMAIN files : NameBefore(m, j)} = Below(j)
  BY OneDigit DEF Below, Numbers
<1> DEFINE at(j) == Cardinality({m \in DOMAIN files : NameBefore(m, j)}) = Place(i) - 1
<1>6. at(i)
  BY <1>4, <1>5
<1>7. ASSUME NEW j \in DOMAIN files, at(j) PROVE j = i
  <2>1. Cardinality(Below(j)) = Cardinality(Below(i))
    BY <1>4, <1>5, <1>7
  <2>2. Place(j) = Place(i)
    BY <2>1 DEF Place
  <2>3. j \in Nat
    BY DEF Numbers
  <2>4. ~ (i < j) /\ ~ (j < i)
    BY <1>1, <1>3, <2>2, <2>3, PlaceMonotone
  <2> QED BY <1>1, <2>3, <2>4
<1>8. ReadDir[Place(i)] = CHOOSE j \in DOMAIN files : at(j)
  BY <1>4, Zenon DEF ReadDir
<1>9. (CHOOSE j \in DOMAIN files : at(j)) = i
  <2> HIDE DEF at
  <2> QED BY <1>6, <1>7, Zenon
<1> QED BY <1>4, <1>8, <1>9, Zenon

(* Every place has a segment. *)
LEMMA ReadDirType ==
    ASSUME DOMAIN files \subseteq Numbers
    PROVE  /\ Cardinality(DOMAIN files) \in Nat /\ Len(ReadDir) = Cardinality(DOMAIN files)
           /\ \A k \in 1..Cardinality(DOMAIN files) : ReadDir[k] \in DOMAIN files
<1> DEFINE n == Cardinality(DOMAIN files)
<1>1. /\ Place(0) = 1 /\ Place(10) = n + 1 /\ n \in Nat
  <2>1. \A i \in DOMAIN files : i < 10
    BY DEF Numbers
  <2> QED BY <2>1, PlaceEnds
<1>2. ASSUME NEW k \in 1..n PROVE ReadDir[k] \in DOMAIN files
  <2> DEFINE T == {i \in Nat : Place(i) > k}
  <2>1. T \in SUBSET Nat /\ 10 \in T
    BY <1>1
  <2>2. PICK m \in T : \A y \in T : m <= y
    <3> HIDE DEF T
    <3> QED BY <2>1, NatMin
  <2>3. m \in Nat /\ Place(m) > k /\ m # 0
    BY <1>1
  <2>4. PICK i \in Nat : m = i + 1
    <3>1. m - 1 \in Nat /\ m = (m - 1) + 1
      BY <2>3
    <3> QED BY <3>1
  <2>5. ~ (Place(i) > k)
    BY <2>2, <2>4
  <2>6. Place(m) = (IF i \in DOMAIN files THEN Place(i) + 1 ELSE Place(i)) /\ Place(i) \in Nat
    BY <2>4, PlaceStep
  <2>7. i \in DOMAIN files /\ Place(i) = k
    BY <2>3, <2>5, <2>6
  <2> QED BY <2>7, ReadDirPlace
<1>3. ReadDir = [k \in 1..n |-> ReadDir[k]]
  BY SMTT(30) DEF ReadDir
<1>4. ReadDir \in [1..n -> DOMAIN files]
  BY <1>2, <1>3
<1>5. Len(ReadDir) = n
  BY <1>1, <1>4
<1> QED BY <1>1, <1>2, <1>5

-----------------------------------------------------------------------------
(* readAll *)

(* A loop from n down to 1, in the form of LoopExists *)
LEMMA BackLoopExists ==
    ASSUME NEW n \in Nat, NEW V, NEW base, NEW step, Stepping(n, V, base, step)
    PROVE  \E f \in [1..(n + 1) -> V] : f[n + 1] = base /\ \A k \in 1..n : f[k] = step[<<k, f[k + 1]>>]
<1> DEFINE back == [x \in (1..n) \X V |-> step[<<n + 1 - x[1], x[2]>>]]
<1>1. base \in V /\ step \in [(1..n) \X V -> V]
  BY DEF Stepping
<1>2. \A k \in 1..n : n + 1 - k \in 1..n
  OBVIOUS
<1>3. \A k \in 1..n : \A v \in V : back[<<k, v>>] = step[<<n + 1 - k, v>>] /\ back[<<k, v>>] \in V
  BY <1>1, <1>2
<1>4. back \in [(1..n) \X V -> V]
  BY <1>1, <1>2
<1>5. Stepping(n, V, base, back)
  BY <1>1, <1>4 DEF Stepping
<1> HIDE DEF back
<1>6. PICK g \in [0..n -> V] : g[0] = base /\ \A k \in 1..n : g[k] = back[<<k, g[k - 1]>>]
  BY <1>5, LoopExists
<1> DEFINE f == [k \in 1..(n + 1) |-> g[n + 1 - k]]
<1>7. f \in [1..(n + 1) -> V] /\ f[n + 1] = base
  BY <1>6
<1>8. ASSUME NEW k \in 1..n PROVE f[k] = step[<<k, f[k + 1]>>]
  <2>1. PICK j \in 1..n : j = n + 1 - k
    BY <1>2
  <2>2. k = n + 1 - j /\ j - 1 \in 0..n /\ n + 1 - (k + 1) = j - 1 /\ k \in 1..(n + 1) /\ k + 1 \in 1..(n + 1)
    BY <2>1
  <2>3. f[k] = g[j] /\ f[k + 1] = g[j - 1]
    BY <2>1, <2>2
  <2>4. g[j] = back[<<j, g[j - 1]>>] /\ g[j - 1] \in V
    BY <1>6, <2>2
  <2>5. back[<<j, g[j - 1]>>] = step[<<k, g[j - 1]>>]
    BY <1>3, <2>2, <2>4, Zenon
  <2> QED BY <2>3, <2>4, <2>5, Zenon
<1> HIDE DEF f
<1> QED BY <1>7, <1>8

(* What holds at n + 1 and passes down holds on the whole way. *)
LEMMA Downwards ==
    ASSUME NEW a \in Int, NEW b \in Int, NEW P \in SUBSET (a..b), b \in P,
           \A k \in a..(b - 1) : k + 1 \in P => k \in P
    PROVE  P = a..b
<1> DEFINE S == {m \in Nat : b - m >= a => b - m \in P}
<1>1. S \in SUBSET Nat /\ 0 \in S
  OBVIOUS
<1>2. ASSUME NEW m \in S PROVE m + 1 \in S
  <2>1. SUFFICES ASSUME b - (m + 1) >= a PROVE b - (m + 1) \in P
    OBVIOUS
  <2>2. b - m \in P /\ b - (m + 1) \in a..(b - 1) /\ (b - (m + 1)) + 1 = b - m
    BY <2>1
  <2> QED BY <2>2
<1>3. S = Nat
  <2> HIDE DEF S
  <2> QED BY <1>1, <1>2, SetInduction
<1>4. ASSUME NEW k \in a..b PROVE k \in P
  <2>1. b - k \in Nat /\ b - (b - k) = k
    OBVIOUS
  <2>2. b - k \in S
    BY <1>3, <2>1, Zenon
  <2> QED BY <2>1, <2>2
<1> QED BY <1>4, Zenon

ReadStep(g, k) ==
    LET read == Parse(files[ReadDir[k]])
    IN  IF k > Len(ReadDir) THEN <<>>
        ELSE IF read.clean THEN read.rows \o g[k + 1] ELSE read.rows
Reading == CHOOSE g : g = [k \in 1..(Len(ReadDir) + 1) |-> ReadStep(g, k)]

(* The loop of readAll ends, with rows. *)
LEMMA ReadingDef ==
    ASSUME Stored
    PROVE  /\ readAll = Reading[1]
           /\ \A k \in 1..(Len(ReadDir) + 1) : Reading[k] = ReadStep(Reading, k) /\ Reading[k] \in Seq(Nat)
<1>1. readAll = Reading[1]
  BY Zenon DEF readAll, Reading, ReadStep
<1>2. PICK n : n = Len(ReadDir)
  BY Zenon
<1>3. n \in Nat /\ \A k \in 1..n : ReadDir[k] \in DOMAIN files
  BY <1>2, ReadDirType DEF Stored
<1>4. ASSUME NEW k \in 1..n PROVE Parse(files[ReadDir[k]]).rows \in Seq(Nat)
  <2>1. files[ReadDir[k]] \in Seq(Piece)
    BY <1>3 DEF Stored
  <2> QED BY <2>1, ParseReads, ReadsType
<1> DEFINE V == Seq(Nat)
           read(k) == Parse(files[ReadDir[k]])
           step == [x \in (1..n) \X V |-> IF read(x[1]).clean THEN read(x[1]).rows \o x[2] ELSE read(x[1]).rows]
<1>5. \A k \in 1..n : \A v \in V :
         (IF read(k).clean THEN read(k).rows \o v ELSE read(k).rows) \in V
  BY <1>4
<1>6. step \in [(1..n) \X V -> V]
  <2> HIDE DEF V, read
  <2> QED BY <1>5
<1>7. \A k \in 1..n : \A v \in V :
         step[<<k, v>>] = IF read(k).clean THEN read(k).rows \o v ELSE read(k).rows
  <2> HIDE DEF V, read
  <2> QED OBVIOUS
<1>8. <<>> \in V
  OBVIOUS
<1>9. Stepping(n, V, <<>>, step)
  BY <1>6, <1>8 DEF Stepping
<1> HIDE DEF V, step
<1>10. PICK f \in [1..(n + 1) -> V] : f[n + 1] = <<>> /\ \A k \in 1..n : f[k] = step[<<k, f[k + 1]>>]
  BY <1>3, <1>9, BackLoopExists
<1>11. ASSUME NEW k \in 1..(n + 1) PROVE f[k] = ReadStep(f, k)
  <2>1. CASE k = n + 1
    BY <1>2, <1>3, <1>10, <2>1 DEF ReadStep
  <2>2. CASE k \in 1..n
    <3>1. f[k + 1] \in V /\ ~ (k > n)
      BY <1>3, <1>10, <2>2
    <3>2. f[k] = IF read(k).clean THEN read(k).rows \o f[k + 1] ELSE read(k).rows
      BY <1>7, <1>10, <2>2, <3>1, Zenon
    <3> QED BY <1>2, <3>1, <3>2, Zenon DEF ReadStep
  <2> QED BY <1>3, <2>1, <2>2
<1>12. f = [k \in 1..(n + 1) |-> ReadStep(f, k)]
  <2>1. f = [k \in 1..(n + 1) |-> f[k]]
    OBVIOUS
  <2> QED BY <1>11, <2>1, Zenon
<1>13. Reading = [k \in 1..(n + 1) |-> ReadStep(Reading, k)]
  BY <1>2, <1>12, Zenon DEF Reading
<1>14. \A k \in 1..(n + 1) : Reading[k] = ReadStep(Reading, k)
  <2>1. PICK g : g = Reading
    OBVIOUS
  <2>2. g = [k \in 1..(n + 1) |-> ReadStep(g, k)]
    BY <1>13, <2>1, Zenon
  <2>3. \A k \in 1..(n + 1) : g[k] = ReadStep(g, k)
    BY <2>2, Zenon
  <2> QED BY <2>1, <2>3, Zenon
<1> DEFINE P == {k \in 1..(n + 1) : Reading[k] \in V}
<1>15. n + 1 \in P
  <2>1. n + 1 \in 1..(n + 1) /\ n + 1 > n
    BY <1>3
  <2>2. Reading[n + 1] = <<>>
    BY <1>2, <1>14, <2>1, Zenon DEF ReadStep
  <2> QED BY <1>8, <2>1, <2>2, Zenon
<1>16. ASSUME NEW k \in 1..((n + 1) - 1), k + 1 \in P PROVE k \in P
  <2>1. k \in 1..n /\ k \in 1..(n + 1) /\ ~ (k > n)
    BY <1>3
  <2>2. Reading[k] = IF read(k).clean THEN read(k).rows \o Reading[k + 1] ELSE read(k).rows
    BY <1>2, <1>14, <2>1, Zenon DEF ReadStep
  <2>3. Reading[k + 1] \in V
    BY <1>16, Zenon
  <2>4. Reading[k] \in V
    BY <1>5, <2>1, <2>2, <2>3, Zenon
  <2> QED BY <2>1, <2>4, Zenon
<1>17. P = 1..(n + 1)
  <2>1. P \in SUBSET (1..(n + 1)) /\ 1 \in Int /\ n + 1 \in Int
    BY <1>3
  <2> HIDE DEF P
  <2> QED BY <1>15, <1>16, <2>1, Downwards
<1> QED BY <1>1, <1>2, <1>14, <1>17, Zenon DEF V

(* What is read from segment i on *)
ReadFrom(i) == Reading[Place(i)]

(* The same, by the numbers of the segments *)
LEMMA ReadFromDef ==
    ASSUME Stored, NEW B \in Nat, \A i \in DOMAIN files : i < B
    PROVE  /\ readAll = ReadFrom(0) /\ ReadFrom(B) = <<>>
           /\ \A i \in Nat :
                 /\ ReadFrom(i) \in Seq(Nat)
                 /\ i \in DOMAIN files =>
                       ReadFrom(i) = IF Parse(files[i]).clean THEN Parse(files[i]).rows \o ReadFrom(i + 1)
                                     ELSE Parse(files[i]).rows
                 /\ i \notin DOMAIN files => ReadFrom(i) = ReadFrom(i + 1)
<1>0. DOMAIN files \subseteq Numbers
  BY DEF Stored
<1>1. PICK n : n = Cardinality(DOMAIN files)
  OBVIOUS
<1>2. n \in Nat /\ Len(ReadDir) = n /\ Place(0) = 1 /\ Place(B) = n + 1
  BY <1>0, <1>1, ReadDirType, PlaceEnds
<1>3. /\ readAll = Reading[1]
      /\ \A k \in 1..(n + 1) : Reading[k] = ReadStep(Reading, k) /\ Reading[k] \in Seq(Nat)
  BY <1>2, ReadingDef
<1>4. readAll = ReadFrom(0)
  BY <1>2, <1>3 DEF ReadFrom
<1>5. ReadFrom(B) = <<>>
  <2>1. n + 1 \in 1..(n + 1) /\ n + 1 > n
    BY <1>2
  <2> QED BY <1>2, <1>3, <2>1, Zenon DEF ReadFrom, ReadStep
<1>6. ASSUME NEW i \in Nat PROVE ReadFrom(i) \in Seq(Nat)
  <2>1. IsFiniteSet(DOMAIN files) /\ Cardinality(Below(i)) \in Nat
    <3>1. \A j \in DOMAIN files : j < 10
      BY <1>0 DEF Numbers
    <3>2. Below(10) = DOMAIN files
      BY <3>1 DEF Below
    <3>3. IsFiniteSet(Below(10)) /\ Cardinality(Below(i)) \in Nat
      BY <1>0, PlaceStep
    <3> QED BY <3>2, <3>3
  <2>2. Below(i) \subseteq DOMAIN files
    BY DEF Below
  <2>3. Cardinality(Below(i)) <= n
    BY <1>1, <2>1, <2>2, FS_Subset
  <2>4. Place(i) \in 1..(n + 1)
    BY <1>2, <2>1, <2>3 DEF Place
  <2> QED BY <1>3, <2>4, Zenon DEF ReadFrom
<1>7. ASSUME NEW i \in DOMAIN files
      PROVE  ReadFrom(i) = IF Parse(files[i]).clean THEN Parse(files[i]).rows \o ReadFrom(i + 1)
                           ELSE Parse(files[i]).rows
  <2>1. i \in Nat /\ Place(i) \in 1..n /\ ReadDir[Place(i)] = i
    BY <1>0, <1>1, ReadDirPlace DEF Numbers
  <2>2. Place(i + 1) = Place(i) + 1
    BY <1>0, <2>1, PlaceStep
  <2>3. Place(i) \in 1..(n + 1) /\ ~ (Place(i) > n)
    BY <1>2, <2>1
  <2>4. Reading[Place(i)] = ReadStep(Reading, Place(i))
    BY <1>3, <2>3, Zenon
  <2> QED BY <1>2, <2>1, <2>2, <2>3, <2>4, Zenon DEF ReadFrom, ReadStep
<1>8. ASSUME NEW i \in Nat, i \notin DOMAIN files PROVE ReadFrom(i) = ReadFrom(i + 1)
  BY <1>0, <1>8, PlaceStep DEF ReadFrom
<1> QED BY <1>4, <1>5, <1>6, <1>7, <1>8, Zenon

-----------------------------------------------------------------------------
(* The rows that were appended, in order *)

Segment(i) == appended[i] \o (IF i = Active THEN op.rows ELSE <<>>)
SeqStep(g, i) ==
    IF i = MaxSegments + 4 THEN <<>>
    ELSE IF i \in DOMAIN appended THEN Segment(i) \o g[i + 1] ELSE g[i + 1]
Sequencing == CHOOSE g : g = [i \in 0..(MaxSegments + 4) |-> SeqStep(g, i)]

(* Sequence is a sequence of rows. *)
LEMMA SequencingDef ==
    ASSUME appended \in [DOMAIN appended -> Seq(Nat)], op.rows \in Seq(Nat)
    PROVE  /\ Sequence = Sequencing[0]
           /\ \A i \in 0..(MaxSegments + 4) :
                 Sequencing[i] = SeqStep(Sequencing, i) /\ Sequencing[i] \in Seq(Nat)
<1>1. Sequence = Sequencing[0]
  BY Zenon DEF Sequence, Sequencing, SeqStep, Segment
<1>2. PICK n : n = MaxSegments + 4
  OBVIOUS
<1>3. n \in Nat
  BY <1>2, BoundsAssumption
<1> DEFINE V == Seq(Nat)
<1>4. \A i \in DOMAIN appended : Segment(i) \in V
  BY DEF Segment
<1> DEFINE step == [x \in (1..n) \X V |-> IF x[1] - 1 \in DOMAIN appended THEN Segment(x[1] - 1) \o x[2] ELSE x[2]]
<1>5. \A i \in 0..n : \A v \in V : (IF i \in DOMAIN appended THEN Segment(i) \o v ELSE v) \in V
  BY <1>4
<1>6. \A k \in 1..n : k - 1 \in 0..n
  BY <1>3
<1>7. step \in [(1..n) \X V -> V]
  <2>1. \A k \in 1..n : \A v \in V : (IF k - 1 \in DOMAIN appended THEN Segment(k - 1) \o v ELSE v) \in V
    BY <1>5, <1>6, Zenon
  <2> HIDE DEF V
  <2> QED BY <2>1
<1>8. \A k \in 1..n : \A v \in V :
         step[<<k, v>>] = IF k - 1 \in DOMAIN appended THEN Segment(k - 1) \o v ELSE v
  <2> HIDE DEF V
  <2> QED OBVIOUS
<1>9. Stepping(n, V, <<>>, step)
  BY <1>7 DEF Stepping
<1> HIDE DEF V, step
<1>10. PICK f \in [1..(n + 1) -> V] : f[n + 1] = <<>> /\ \A k \in 1..n : f[k] = step[<<k, f[k + 1]>>]
  BY <1>3, <1>9, BackLoopExists
<1> DEFINE h == [i \in 0..n |-> f[i + 1]]
<1>11. \A i \in 0..n : h[i] = f[i + 1] /\ h[i] \in V
  BY <1>3, <1>10
<1>12. h = [i \in 0..n |-> h[i]]
  OBVIOUS
<1> HIDE DEF h
<1>13. ASSUME NEW i \in 0..n PROVE h[i] = SeqStep(h, i)
  <2>1. CASE i = n
    <3>1. h[i] = <<>>
      BY <1>3, <1>10, <1>11, <2>1
    <3> QED BY <1>2, <2>1, <3>1, Zenon DEF SeqStep
  <2>2. CASE i # n
    <3>1. PICK k : k = i + 1
      OBVIOUS
    <3>2. k \in 1..n /\ k - 1 = i /\ k \in 0..n /\ k + 1 \in 1..(n + 1)
      BY <1>3, <2>2, <3>1
    <3>3. h[i] = f[k] /\ h[k] = f[k + 1] /\ f[k + 1] \in V
      BY <1>10, <1>11, <3>1, <3>2
    <3>4. f[k] = IF i \in DOMAIN appended THEN Segment(i) \o f[k + 1] ELSE f[k + 1]
      BY <1>8, <1>10, <3>2, <3>3, Zenon
    <3>5. h[i] = IF i \in DOMAIN appended THEN Segment(i) \o h[i + 1] ELSE h[i + 1]
      BY <3>1, <3>3, <3>4, Zenon
    <3> QED BY <1>2, <2>2, <3>5, Zenon DEF SeqStep
  <2> QED BY <2>1, <2>2
<1>14. h = [i \in 0..n |-> SeqStep(h, i)]
  BY <1>12, <1>13, Zenon
<1>15. Sequencing = [i \in 0..n |-> SeqStep(Sequencing, i)]
  BY <1>2, <1>14, Zenon DEF Sequencing
<1>16. \A i \in 0..n : Sequencing[i] = SeqStep(Sequencing, i)
  <2>1. PICK g : g = Sequencing
    OBVIOUS
  <2>2. g = [i \in 0..n |-> SeqStep(g, i)]
    BY <1>15, <2>1, Zenon
  <2>3. \A i \in 0..n : g[i] = SeqStep(g, i)
    BY <2>2, Zenon
  <2> QED BY <2>1, <2>3, Zenon
<1> DEFINE P == {i \in 0..n : Sequencing[i] \in V}
<1>17. n \in P
  <2>1. n \in 0..n
    BY <1>3
  <2>2. Sequencing[n] = <<>>
    BY <1>2, <1>16, <2>1, Zenon DEF SeqStep
  <2>3. <<>> \in V
    BY DEF V
  <2> QED BY <2>1, <2>2, <2>3, Zenon
<1>18. ASSUME NEW i \in 0..(n - 1), i + 1 \in P PROVE i \in P
  <2>1. i \in 0..n /\ i # n
    BY <1>3
  <2>2. Sequencing[i] = IF i \in DOMAIN appended THEN Segment(i) \o Sequencing[i + 1] ELSE Sequencing[i + 1]
    BY <1>2, <1>16, <2>1, Zenon DEF SeqStep
  <2>3. Sequencing[i + 1] \in V
    BY <1>18, Zenon
  <2>4. Sequencing[i] \in V
    BY <1>5, <2>1, <2>2, <2>3, Zenon
  <2> QED BY <2>1, <2>4, Zenon
<1>19. P = 0..n
  <2>1. P \in SUBSET (0..n) /\ 0 \in Int /\ n \in Int
    BY <1>3
  <2> HIDE DEF P
  <2> QED BY <1>17, <1>18, <2>1, Downwards, Zenon
<1> QED BY <1>1, <1>2, <1>16, <1>19, Zenon DEF V

-----------------------------------------------------------------------------
(* A file and the pieces that are still to come to it *)

(* The file begins with a record. *)
Starts(p) == Len(p) >= 2 /\ p[1][2] = 1 /\ p[2] = <<p[1][1], 2>>

(* f is written, c still to come. *)
Sound(f, c) == Len(f) # 1 /\ (f \o c = <<>> \/ Starts(f \o c))

(* An empty file is read to its end, and a file that begins with a record   *)
(* gives at least that one.                                                 *)
LEMMA ParseStarts ==
    ASSUME NEW p \in Seq(Piece)
    PROVE  /\ Parse(p).rows \in Seq(Nat)
           /\ p = <<>> => Parse(p).rows = <<>> /\ Parse(p).clean
           /\ Starts(p) => Len(Parse(p).rows) >= 1
<1>1. PICK n \in Nat : Reads(p, n)
  BY ParseReads
<1>2. /\ Parse(p).rows \in Seq(Nat) /\ Len(Parse(p).rows) = n
      /\ Parse(p).clean <=> Len(p) = 2 * n
  BY <1>1, ReadsType
<1>3. 2 * n <= Len(p) /\ (2 * (n + 1) <= Len(p) => ~ Record(p, n + 1))
  BY <1>1 DEF Reads
<1>4. ASSUME p = <<>> PROVE Parse(p).rows = <<>> /\ Parse(p).clean
  <2>1. n = 0 /\ Len(p) = 0
    BY <1>3, <1>4
  <2> QED BY <1>2, <2>1
<1>5. ASSUME Starts(p), n = 0 PROVE FALSE
  <2>1. Len(p) >= 2 /\ p[1][2] = 1 /\ p[2] = <<p[1][1], 2>>
    BY <1>5 DEF Starts
  <2>2. Record(p, 1)
    <3>1. 2 * 1 - 1 = 1 /\ 2 * 1 = 2
      OBVIOUS
    <3> QED BY <2>1, <3>1 DEF Record
  <2>3. 2 * (n + 1) <= Len(p) /\ n + 1 = 1
    BY <1>5, <2>1
  <2> QED BY <1>3, <2>2, <2>3
<1> QED BY <1>2, <1>4, <1>5

(* Without rows to read there is nothing in the files. *)
LEMMA NothingRead ==
    ASSUME Stored, NEW B \in Nat, \A i \in DOMAIN files : i < B,
           \A i \in DOMAIN files : files[i] = <<>> \/ Starts(files[i]),
           readAll = <<>>
    PROVE  \A i \in DOMAIN files : files[i] = <<>>
<1>0. \A i \in DOMAIN files : i \in Nat /\ files[i] \in Seq(Piece)
  BY DEF Stored, Numbers
<1>1. /\ readAll = ReadFrom(0)
      /\ \A i \in Nat :
            /\ ReadFrom(i) \in Seq(Nat)
            /\ i \in DOMAIN files =>
                  ReadFrom(i) = IF Parse(files[i]).clean THEN Parse(files[i]).rows \o ReadFrom(i + 1)
                                ELSE Parse(files[i]).rows
            /\ i \notin DOMAIN files => ReadFrom(i) = ReadFrom(i + 1)
  BY ReadFromDef, Zenon
<1> DEFINE S == {i \in Nat : ReadFrom(i) = <<>>}
<1>2. ASSUME NEW i \in DOMAIN files, ReadFrom(i) = <<>>
      PROVE  files[i] = <<>> /\ ReadFrom(i + 1) = <<>>
  <2>1. PICK r : r = Parse(files[i]).rows
    OBVIOUS
  <2>2. r \in Seq(Nat) /\ (files[i] = <<>> => r = <<>> /\ Parse(files[i]).clean) /\ (Starts(files[i]) => Len(r) >= 1)
    BY <1>0, <2>1, ParseStarts
  <2>3. PICK t : t = ReadFrom(i + 1)
    OBVIOUS
  <2>4. i \in Nat /\ i + 1 \in Nat
    BY <1>0
  <2>5. r = <<>>
    <3>1. t \in Seq(Nat)
      BY <1>1, <2>3, <2>4, Zenon
    <3>2. <<>> = IF Parse(files[i]).clean THEN r \o t ELSE r
      BY <1>1, <1>2, <2>1, <2>3, <2>4, Zenon
    <3>3. r \o t = <<>> => r = <<>>
      <4>1. Len(r \o t) = Len(r) + Len(t) /\ Len(r) \in Nat /\ Len(t) \in Nat
        BY <2>2, <3>1
      <4>2. Len(r) = 0 => r = <<>>
        BY <2>2
      <4> QED BY <4>1, <4>2
    <3> QED BY <3>2, <3>3, Zenon
  <2>6. files[i] = <<>>
    BY <2>2, <2>5
  <2>7. <<>> = r \o t /\ t \in Seq(Nat)
    <3>1. Parse(files[i]).clean
      BY <2>2, <2>6
    <3> QED BY <1>1, <1>2, <2>1, <2>3, <2>4, <3>1, Zenon
  <2> QED BY <2>3, <2>5, <2>6, <2>7
<1>3. S \in SUBSET Nat /\ 0 \in S
  BY <1>1
<1>4. ASSUME NEW i \in S PROVE i + 1 \in S
  <2>1. i \in Nat /\ i + 1 \in Nat /\ ReadFrom(i) = <<>>
    OBVIOUS
  <2>2. CASE i \in DOMAIN files
    BY <1>2, <2>1, <2>2, Zenon
  <2>3. CASE i \notin DOMAIN files
    BY <1>1, <2>1, <2>3, Zenon
  <2> QED BY <2>2, <2>3
<1>5. S = Nat
  <2> HIDE DEF S
  <2> QED BY <1>3, <1>4, SetInduction
<1> QED BY <1>0, <1>2, <1>5

(* Concatenations *)
LEMMA SameSeq ==
    ASSUME NEW S, NEW u \in Seq(S), NEW v \in Seq(S), Len(u) = Len(v), \A k \in 1..Len(u) : u[k] = v[k]
    PROVE  u = v
<1>1. u = [k \in 1..Len(u) |-> u[k]] /\ v = [k \in 1..Len(v) |-> v[k]]
  OBVIOUS
<1> QED BY <1>1, Zenon

LEMMA ConcatForms ==
    ASSUME NEW S, NEW p \in Seq(S), NEW q \in Seq(S), NEW r \in Seq(S)
    PROVE  /\ p \o <<>> = p /\ <<>> \o p = p
           /\ (p \o q) \o r = p \o (q \o r)
           /\ r # <<>> => /\ <<Head(r)>> \o Tail(r) = r /\ Append(p, Head(r)) \o Tail(r) = p \o r
                          /\ Head(r) \in S /\ Tail(r) \in Seq(S)
<1>1. p \o <<>> = p
  <2>1. /\ p \o <<>> \in Seq(S) /\ Len(p \o <<>>) = Len(p)
        /\ \A k \in 1..Len(p) : (p \o <<>>)[k] = p[k]
    OBVIOUS
  <2> QED BY <2>1, SameSeq
<1>2. <<>> \o p = p
  <2>1. /\ <<>> \o p \in Seq(S) /\ Len(<<>> \o p) = Len(p)
        /\ \A k \in 1..Len(p) : (<<>> \o p)[k] = p[k]
    OBVIOUS
  <2> QED BY <2>1, SameSeq
<1>3. (p \o q) \o r = p \o (q \o r)
  <2> DEFINE u == (p \o q) \o r
             v == p \o (q \o r)
  <2>1. u \in Seq(S) /\ v \in Seq(S) /\ Len(u) = Len(v)
    OBVIOUS
  <2>2. \A k \in 1..Len(u) : u[k] = v[k]
    OBVIOUS
  <2> HIDE DEF u, v
  <2>3. u = v
    BY <2>1, <2>2, SameSeq
  <2> QED BY <2>3 DEF u, v
<1>4. ASSUME r # <<>>
      PROVE  /\ <<Head(r)>> \o Tail(r) = r /\ Append(p, Head(r)) \o Tail(r) = p \o r
             /\ Head(r) \in S /\ Tail(r) \in Seq(S)
  <2>1. /\ Head(r) = r[1] /\ Head(r) \in S /\ Tail(r) \in Seq(S) /\ Len(r) \in Nat \ {0}
        /\ Len(Tail(r)) = Len(r) - 1 /\ \A k \in 1..(Len(r) - 1) : Tail(r)[k] = r[k + 1]
    BY <1>4
  <2>2. PICK h, t : h = Head(r) /\ t = Tail(r)
    BY Zenon
  <2>3. <<h>> \o t = r
    <3>1. /\ <<h>> \o t \in Seq(S) /\ Len(<<h>> \o t) = Len(r)
          /\ \A k \in 1..Len(r) : (<<h>> \o t)[k] = r[k]
      BY <2>1, <2>2
    <3> QED BY <3>1, SameSeq
  <2>4. Append(p, h) \o t = p \o r
    <3> DEFINE u == Append(p, h) \o t
               v == p \o r
    <3>1. u \in Seq(S) /\ v \in Seq(S) /\ Len(u) = Len(v)
      BY <2>1, <2>2
    <3>2. \A k \in 1..Len(u) : u[k] = v[k]
      BY <2>1, <2>2
    <3> HIDE DEF u, v
    <3>3. u = v
      BY <3>1, <3>2, SameSeq
    <3> QED BY <3>3 DEF u, v
  <2> QED BY <2>1, <2>2, <2>3, <2>4, Zenon
<1> QED BY <1>1, <1>2, <1>3, <1>4, Zenon

LEMMA ConcatAssoc ==
    ASSUME NEW S, NEW p \in Seq(S), NEW q \in Seq(S), NEW r \in Seq(S)
    PROVE  (p \o q) \o r = p \o (q \o r)
BY ConcatForms

LEMMA HeadTail ==
    ASSUME NEW S, NEW p \in Seq(S), NEW r \in Seq(S), r # <<>>
    PROVE  /\ <<Head(r)>> \o Tail(r) = r /\ Append(p, Head(r)) \o Tail(r) = p \o r
           /\ Head(r) \in S /\ Tail(r) \in Seq(S) /\ Append(p, Head(r)) \in Seq(S) /\ <<Head(r)>> \in Seq(S)
<1>1. /\ <<Head(r)>> \o Tail(r) = r /\ Append(p, Head(r)) \o Tail(r) = p \o r
      /\ Head(r) \in S /\ Tail(r) \in Seq(S)
  BY ConcatForms
<1> QED BY <1>1

(* More pieces do not change how a file begins. *)
LEMMA StartsOn ==
    ASSUME NEW p \in Seq(Piece), NEW q \in Seq(Piece)
    PROVE  /\ Starts(p) => Starts(p \o q)
           /\ Len(p) >= 2 /\ Starts(p \o q) => Starts(p)
<1>1. /\ p \o q \in Seq(Piece) /\ Len(p) \in Nat /\ Len(q) \in Nat /\ Len(p \o q) = Len(p) + Len(q)
      /\ \A k \in 1..Len(p) : (p \o q)[k] = p[k]
  BY ConcatAt
<1>2. Len(p) >= 2 => (p \o q)[1] = p[1] /\ (p \o q)[2] = p[2] /\ Len(p \o q) >= 2
  BY <1>1
<1> QED BY <1>2 DEF Starts

(* The records of rows begin with one. *)
LEMMA CodesStart ==
    ASSUME NEW s \in Seq(Nat), NEW p \in Seq(Piece), Codes(p, s)
    PROVE  p = <<>> \/ Starts(p)
<1>1. /\ Len(p) = 2 * Len(s)
      /\ \A k \in 1..Len(s) : p[2 * k - 1] = <<s[k], 1>> /\ p[2 * k] = <<s[k], 2>>
  BY Zenon DEF Codes
<1>2. Len(s) \in Nat
  OBVIOUS
<1>3. CASE Len(s) = 0
  BY <1>1, <1>3
<1>4. CASE Len(s) # 0
  <2>1. 1 \in 1..Len(s) /\ 2 * 1 - 1 = 1 /\ 2 * 1 = 2 /\ Len(p) >= 2
    BY <1>1, <1>2, <1>4
  <2>2. p[1] = <<s[1], 1>> /\ p[2] = <<s[1], 2>>
    BY <1>1, <2>1
  <2> QED BY <2>1, <2>2 DEF Starts
<1> QED BY <1>3, <1>4

(* append hands its records to the writer. *)
LEMMA SoundAppend ==
    ASSUME NEW f \in Seq(Piece), NEW c \in Seq(Piece), Sound(f, c), NEW s \in Seq(Nat)
    PROVE  Sound(f, c \o Encoded(s))
<1> DEFINE e == Encoded(s)
           g == f \o c
<1>1. e \in Seq(Piece) /\ (e = <<>> \/ Starts(e))
  BY EncodedCodes, CodesStart
<1> HIDE DEF e
<1>2. g \in Seq(Piece) /\ g \o e = f \o (c \o e) /\ <<>> \o e = e
  BY <1>1, ConcatForms, SMTT(30)
<1>3. Len(f) # 1 /\ (g = <<>> \/ Starts(g))
  BY DEF Sound
<1> HIDE DEF g
<1>4. g \o e = <<>> \/ Starts(g \o e)
  BY <1>1, <1>2, <1>3, StartsOn, Zenon
<1> QED BY <1>2, <1>3, <1>4 DEF Sound, e

(* The buffer goes to the file. *)
LEMMA SoundSpill ==
    ASSUME NEW f \in Seq(Piece), NEW b \in Seq(Piece), NEW r \in Seq(Piece), Sound(f, b \o r),
           Len(b) >= 2 \/ r = <<>>
    PROVE  Sound(f \o b, r)
<1>1. (f \o b) \o r = f \o (b \o r)
  BY ConcatForms
<1>2. f \o (b \o r) = <<>> \/ Starts(f \o (b \o r))
  BY DEF Sound
<1>3. Len(f \o b) # 1
  <2>1. f \o b \in Seq(Piece) /\ Len(f) \in Nat /\ Len(b) \in Nat /\ Len(f \o b) = Len(f) + Len(b)
    BY ConcatAt
  <2>2. CASE Len(b) >= 2
    BY <2>1, <2>2
  <2>3. CASE r = <<>>
    <3>1. (f \o b) \o r = f \o b
      BY <2>1, <2>3, ConcatForms
    <3>2. f \o b = <<>> \/ Len(f \o b) >= 2
      BY <1>1, <1>2, <3>1 DEF Starts
    <3> QED BY <3>2
  <2> QED BY <2>2, <2>3
<1> QED BY <1>1, <1>2, <1>3 DEF Sound

(* What a crash leaves of it *)
LEMMA SoundCut ==
    ASSUME NEW f \in Seq(Piece), NEW c \in Seq(Piece), Sound(f, c)
    PROVE  (f = <<>> \/ Starts(f)) /\ Sound(f, <<>>)
<1>1. f \o c \in Seq(Piece) /\ Len(f) \in Nat /\ Len(c) \in Nat /\ Len(f \o c) = Len(f) + Len(c)
  BY ConcatAt
<1>2. Len(f) # 1 /\ (f \o c = <<>> \/ Starts(f \o c))
  BY DEF Sound
<1>3. Len(f) = 0 => f = <<>>
  OBVIOUS
<1>4. f \o c = <<>> => Len(f) = 0
  BY <1>1
<1>5. f = <<>> \/ Starts(f)
  <2>1. Starts(f \o c) => Starts(f) \/ Len(f) < 2
    BY <1>1, StartsOn
  <2>2. Len(f) < 2 => f = <<>>
    <3>1. PICK n : n = Len(f)
      OBVIOUS
    <3>2. n # 1 /\ n \in Nat
      BY <1>1, <1>2, <3>1, Zenon
    <3>3. n < 2 => n = 0
      BY <3>2
    <3> QED BY <1>3, <3>1, <3>3, Zenon
  <2> QED BY <1>2, <1>3, <1>4, <2>1, <2>2
<1>6. f \o <<>> = f
  BY ConcatForms
<1> QED BY <1>2, <1>5, <1>6 DEF Sound

-----------------------------------------------------------------------------
(* The invariant of the log *)

Typing ==
    /\ setting \in Settings /\ Stored /\ appended \in [DOMAIN appended -> Seq(Nat)]
    /\ buf \in Seq(Piece) /\ op.rest \in Seq(Piece) /\ op.rows \in Seq(Nat) /\ rows \in Nat
    /\ \A i \in DOMAIN files : i < MaxSegments + 4
    /\ op.pc = "create" => index < MaxSegments + 4

(* Where a call has rows and pieces, and where the buffer is empty.  A      *)
(* recovery that creates a segment without rows has just removed the files. *)
Calls ==
    /\ op.pc # "write" => op.rest = <<>>
    /\ op.pc = "idle" => op.rows = <<>>
    /\ op.pc = "create" /\ phase = "open" => op.rows = <<>>
    /\ phase \notin {"open", "recovering"} \/ op.pc = "create" => buf = <<>>
    /\ phase = "recovering" /\ op.pc = "create" /\ op.rows = <<>> =>
          DOMAIN files = {} /\ DOMAIN appended = {}

(* What is still to come to segment i: pieces, and the rows they are of *)
Coming(i) == IF i = Active THEN buf \o op.rest ELSE <<>>
ComingRows(i) == IF i = Active THEN op.rows ELSE <<>>

(* A file that is not empty begins with a record, crash or not: the buffer  *)
(* holds at least one, so that the first write to the file brings it whole. *)
Heads == \A i \in DOMAIN files : Sound(files[i], Coming(i))

(* In an open log a file and what is to come to it are the records of the   *)
(* rows that were appended to the segment; the segments after the active    *)
(* one, which an earlier process left, are empty.  Written through, the     *)
(* rows of the appends that are over are in the file.                       *)
Settled ==
    /\ DOMAIN appended = DOMAIN files
    /\ \A i \in DOMAIN files :
          /\ i <= Active => Codes(files[i] \o Coming(i), appended[i] \o ComingRows(i))
          /\ i > Active => files[i] = <<>> /\ appended[i] = <<>>
    /\ setting.writeThrough /\ op.pc # "write" => buf = <<>>
    /\ setting.writeThrough => \A i \in DOMAIN files : i = Active => 2 * Len(appended[i]) <= Len(files[i])

(* What a crash leaves *)
Fallen == DOMAIN appended = DOMAIN files /\ \A i \in DOMAIN files : files[i] = <<>> => appended[i] = <<>>

Log ==
    /\ Inv /\ Typing /\ Calls /\ Heads
    /\ phase = "open" => Settled
    /\ phase = "down" => Fallen

(* The buffer holds a record. *)
Roomy == MaxSegments <= 10 /\ \A s \in Settings : s.capacity >= 2

(* What is read at the start of a process is rows. *)
LEMMA FoundType ==
    ASSUME Stored
    PROVE  readAll \in Seq(Nat) /\ Append(readAll, NobodysRow) \in Seq(Nat)
<1>1. \A i \in DOMAIN files : i < 10
  BY DEF Stored, Numbers
<1>2. readAll = ReadFrom(0) /\ \A i \in Nat : ReadFrom(i) \in Seq(Nat)
  BY <1>1, ReadFromDef, Zenon
<1>3. readAll \in Seq(Nat)
  BY <1>2
<1> HIDE DEF readAll
<1> QED BY <1>3 DEF NobodysRow

LEMMA CreateWith ==
    ASSUME NEW found
    PROVE  [NoOp EXCEPT !.pc = "create", !.rows = found] = [pc |-> "create", rows |-> found, rest |-> <<>>]
<1> DEFINE r == [NoOp EXCEPT !.pc = "create", !.rows = found]
<1>1. r.pc = "create" /\ r.rows = found /\ r.rest = <<>> /\ DOMAIN r = {"pc", "rows", "rest"}
  BY DEF NoOp
<1>2. r = [x \in {"pc", "rows", "rest"} |-> r[x]]
  BY Zenon DEF NoOp
<1> HIDE DEF r
<1>3. r = [pc |-> "create", rows |-> found, rest |-> <<>>]
  BY <1>1, <1>2
<1> QED BY <1>3 DEF r

(* A step of Open: the rows it found *)
LEMMA OpenFound ==
    ASSUME Open, Stored, Inv
    PROVE  \E found \in Seq(Nat) :
              /\ found = readAll \/ found = Append(readAll, NobodysRow)
              /\ found = <<>> => readAll = <<>> /\ phase' = "open" /\ op' = op
              /\ found # <<>> => phase' = "recovering" /\ op' = [pc |-> "create", rows |-> found, rest |-> <<>>]
<1>1. PICK found \in {readAll} \cup (IF Garbled THEN {Append(readAll, NobodysRow)} ELSE {}) :
          IF found = <<>>
          THEN phase' = "open" /\ UNCHANGED op
          ELSE phase' = "recovering" /\ op' = [NoOp EXCEPT !.pc = "create", !.rows = found]
  BY Zenon DEF Open
<1>2. found = readAll \/ found = Append(readAll, NobodysRow)
  BY <1>1
<1>3. readAll \in Seq(Nat) /\ Append(readAll, NobodysRow) \in Seq(Nat)
  BY FoundType
<1> HIDE DEF readAll
<1>4. found = <<>> => readAll = <<>>
  BY <1>2, <1>3 DEF NobodysRow
<1>5. found \in Seq(Nat)
  BY <1>2, <1>3, Zenon
<1>6. [NoOp EXCEPT !.pc = "create", !.rows = found] = [pc |-> "create", rows |-> found, rest |-> <<>>]
  BY CreateWith, Zenon
<1> QED BY <1>1, <1>2, <1>4, <1>5, <1>6

(* The shape of what Written gives *)
LEMMA WrittenFacts ==
    ASSUME Stored, NEW p \in Seq(Piece)
    PROVE  /\ DOMAIN Written(p) = DOMAIN files
           /\ Written(p) \in [DOMAIN files -> Seq(Piece)]
           /\ \A i \in DOMAIN files :
                 /\ i = Active => Written(p)[i] = files[i] \o p
                 /\ i # Active => Written(p)[i] = files[i]
<1>1. \A i \in DOMAIN files : files[i] \in Seq(Piece) /\ files[i] \o p \in Seq(Piece)
  BY DEF Stored
<1> QED BY <1>1 DEF Written

(* The invariant, taken apart *)
LEMMA LogFacts ==
    ASSUME Log
    PROVE  /\ Inv /\ setting \in Settings /\ Stored
           /\ buf \in Seq(Piece) /\ op.rest \in Seq(Piece) /\ op.rows \in Seq(Nat) /\ rows \in Nat
           /\ \A i \in DOMAIN files : i \in Nat /\ files[i] \in Seq(Piece) /\ i < MaxSegments + 4
           /\ \A i \in DOMAIN appended : appended[i] \in Seq(Nat)
           /\ \A i : Coming(i) \in Seq(Piece) /\ ComingRows(i) \in Seq(Nat)
           /\ \A i \in DOMAIN files : Sound(files[i], Coming(i))
           /\ index \in 0..10 /\ Active \in Int
<1>1. Inv /\ Typing /\ Heads
  BY DEF Log
<1>2. /\ setting \in Settings /\ Stored /\ appended \in [DOMAIN appended -> Seq(Nat)]
      /\ buf \in Seq(Piece) /\ op.rest \in Seq(Piece) /\ op.rows \in Seq(Nat) /\ rows \in Nat
      /\ \A i \in DOMAIN files : i < MaxSegments + 4
  BY <1>1 DEF Typing
<1>3. \A i \in DOMAIN files : i \in Nat /\ files[i] \in Seq(Piece)
  <2>1. files \in [DOMAIN files -> Seq(Piece)] /\ DOMAIN files \subseteq 0..9
    BY <1>2, Zenon DEF Stored, Numbers
  <2> QED BY <2>1
<1>4. \A i : Coming(i) \in Seq(Piece) /\ ComingRows(i) \in Seq(Nat)
  <2>1. buf \o op.rest \in Seq(Piece) /\ <<>> \in Seq(Piece) /\ <<>> \in Seq(Nat)
    BY <1>2
  <2> QED BY <1>2, <2>1, Zenon DEF Coming, ComingRows
<1>5. index \in 0..10 /\ Active \in Int
  BY <1>1 DEF Inv, Active
<1>6. \A i \in DOMAIN appended : appended[i] \in Seq(Nat)
  BY <1>2
<1>7. \A i \in DOMAIN files : Sound(files[i], Coming(i))
  BY <1>1, Zenon DEF Heads
<1> QED BY <1>1, <1>2, <1>3, <1>4, <1>5, <1>6, <1>7, Zenon

(* append takes its rows. *)
LEMMA AppendKeeps ==
    ASSUME Roomy, Log, NEW n \in 1..MaxBatch, append(n)
    PROVE  Log'
<1> DEFINE batch == [k \in 1..n |-> rows + k]
           e == Encoded(batch)
<1>1. Inv'
  BY Preserves DEF Roomy, Log, Next
<1>2. /\ phase = "open" /\ op.pc = "idle" /\ op' = [pc |-> "write", rows |-> batch, rest |-> e]
      /\ rows' = rows + n /\ setting' = setting /\ files' = files /\ index' = index /\ buf' = buf
      /\ phase' = phase /\ appended' = appended
  BY DEF append, Idle
<1>3. /\ setting \in Settings /\ Stored
      /\ buf \in Seq(Piece) /\ rows \in Nat
      /\ \A i \in DOMAIN files : i \in Nat /\ files[i] \in Seq(Piece) /\ i < MaxSegments + 4
      /\ \A i \in DOMAIN appended : appended[i] \in Seq(Nat)
      /\ \A i \in DOMAIN files : Sound(files[i], Coming(i))
  BY LogFacts
<1>4. n \in Nat /\ batch \in Seq(Nat)
  BY <1>3, BoundsAssumption
<1>5. e \in Seq(Piece) /\ Codes(e, batch)
  BY <1>4, EncodedCodes
<1> HIDE DEF batch, e
<1>6. op'.pc = "write" /\ op'.rows = batch /\ op'.rest = e
  BY <1>2
<1>7. op.rest = <<>> /\ op.rows = <<>> /\ Settled
  BY <1>2 DEF Log, Calls
<1>8. /\ \A i : i = Active => Coming(i) = buf /\ Coming(i)' = buf \o e /\ ComingRows(i) = <<>> /\ ComingRows(i)' = batch
      /\ \A i : i # Active => Coming(i)' = <<>> /\ Coming(i) = <<>> /\ ComingRows(i) = <<>> /\ ComingRows(i)' = <<>>
  <2>1. buf \o <<>> = buf
    BY <1>3, ConcatForms
  <2> QED BY <1>2, <1>6, <1>7, <2>1, Zenon DEF Coming, ComingRows, Active
<1>9. Typing'
  BY <1>2, <1>3, <1>4, <1>5, <1>6, SMTT(30) DEF Typing, Stored, Numbers, Log
<1>10. Calls'
  BY <1>2, <1>6 DEF Calls
<1>11. Heads'
  <2>1. ASSUME NEW i \in DOMAIN files PROVE Sound(files[i], Coming(i)')
    <3>1. CASE i = Active
      <4>1. Sound(files[i], buf)
        BY <1>3, <1>8, <3>1
      <4>2. Sound(files[i], buf \o Encoded(batch))
        BY <1>3, <1>4, <4>1, SoundAppend
      <4> QED BY <1>8, <3>1, <4>2, Zenon DEF e
    <3>2. CASE i # Active
      BY <1>3, <1>8, <3>2, Zenon
    <3> QED BY <3>1, <3>2
  <2>2. \A i \in DOMAIN files' : Sound(files'[i], Coming(i)')
    BY <1>2, <2>1, Zenon
  <2> QED BY <2>2, Zenon DEF Heads
<1>12. Settled'
  <2>1. /\ DOMAIN appended = DOMAIN files
        /\ \A i \in DOMAIN files :
              /\ i <= Active => Codes(files[i] \o Coming(i), appended[i] \o ComingRows(i))
              /\ i > Active => files[i] = <<>> /\ appended[i] = <<>>
        /\ setting.writeThrough => \A i \in DOMAIN files : i = Active => 2 * Len(appended[i]) <= Len(files[i])
    BY <1>7, Zenon DEF Settled
  <2>2. ASSUME NEW i \in DOMAIN files, i <= Active
        PROVE  Codes(files[i] \o Coming(i)', appended[i] \o ComingRows(i)')
    <3>1. Codes(files[i] \o Coming(i), appended[i] \o ComingRows(i)) /\ appended[i] \in Seq(Nat)
      BY <1>3, <2>1, <2>2, Zenon
    <3>2. CASE i = Active
      <4>1. appended[i] \o <<>> = appended[i]
        BY <3>1, ConcatForms
      <4>2. Codes(files[i] \o buf, appended[i])
        BY <1>8, <3>1, <3>2, <4>1, Zenon
      <4>3. files[i] \o buf \in Seq(Piece) /\ (files[i] \o buf) \o e = files[i] \o (buf \o e)
        BY <1>3, <1>5, ConcatAt, ConcatForms, SMTT(30)
      <4>4. Codes((files[i] \o buf) \o e, appended[i] \o batch)
        BY <1>4, <1>5, <3>1, <4>2, <4>3, CodesConcat, Zenon
      <4> QED BY <1>8, <3>2, <4>3, <4>4, Zenon
    <3>3. CASE i # Active
      BY <1>8, <3>1, <3>3, Zenon
    <3> QED BY <3>2, <3>3
  <2>3. Active' = Active
    BY <1>2 DEF Active
  <2> QED BY <1>2, <1>6, <2>1, <2>2, <2>3, Zenon DEF Settled
<1>13. phase' # "down"
  BY <1>2
<1> QED BY <1>1, <1>9, <1>10, <1>11, <1>12, <1>13, Zenon DEF Log

(* Write: what is in the file and what is to come are the same pieces. *)
LEMMA WriteKeeps ==
    ASSUME Roomy, Log, Write
    PROVE  Log'
<1>1. Inv'
  BY Preserves DEF Roomy, Log, Next
<1>2. /\ op.pc = "write" /\ op.rest # <<>> /\ op' = [op EXCEPT !.rest = Tail(@)]
      /\ setting' = setting /\ index' = index /\ phase' = phase /\ appended' = appended /\ rows' = rows
  BY DEF Write
<1>3. /\ Inv /\ setting \in Settings /\ Stored
      /\ buf \in Seq(Piece) /\ op.rest \in Seq(Piece) /\ op.rows \in Seq(Nat) /\ rows \in Nat
      /\ \A i \in DOMAIN files : i \in Nat /\ files[i] \in Seq(Piece) /\ i < MaxSegments + 4
      /\ \A i \in DOMAIN appended : appended[i] \in Seq(Nat)
      /\ \A i \in DOMAIN files : Sound(files[i], Coming(i))
  BY LogFacts
<1>4. op'.pc = "write" /\ op'.rows = op.rows /\ op'.rest = Tail(op.rest)
  BY <1>1, <1>2, <1>3 DEF Inv
<1>5. PICK h, t, r : h = Head(op.rest) /\ t = Tail(op.rest) /\ r = op.rest
  BY Zenon
<1>6. /\ r \in Seq(Piece) /\ h \in Piece /\ t \in Seq(Piece) /\ <<h>> \o t = r /\ Append(buf, h) \o t = buf \o r
      /\ Append(buf, h) \in Seq(Piece) /\ <<h>> \in Seq(Piece)
  <2>1. PICK b : b = buf
    OBVIOUS
  <2>2. r \in Seq(Piece) /\ r # <<>> /\ h = Head(r) /\ t = Tail(r) /\ b \in Seq(Piece)
    BY <1>2, <1>3, <1>5, <2>1, Zenon
  <2>3. /\ <<Head(r)>> \o Tail(r) = r /\ Append(b, Head(r)) \o Tail(r) = b \o r
        /\ Head(r) \in Piece /\ Tail(r) \in Seq(Piece) /\ Append(b, Head(r)) \in Seq(Piece) /\ <<Head(r)>> \in Seq(Piece)
    BY <2>2, HeadTail, Zenon
  <2> QED BY <2>1, <2>2, <2>3, Zenon
<1>7. setting.capacity >= 2 /\ setting.capacity \in Nat
  BY <1>3, BoundsAssumption, Zenon DEF Roomy
<1>8. \/ Len(buf) >= 2 /\ files' = Written(buf) /\ buf' = <<h>>
      \/ files' = files /\ buf' = Append(buf, h)
  BY <1>5, <1>7 DEF Write
<1>9. /\ DOMAIN files' = DOMAIN files /\ files' \in [DOMAIN files -> Seq(Piece)] /\ buf' \in Seq(Piece)
      /\ \A i : i # Active => Coming(i) = <<>> /\ Coming(i)' = <<>>
      /\ \A i \in DOMAIN files : i # Active => files'[i] = files[i]
      /\ \A i \in DOMAIN files : i = Active =>
            /\ files'[i] \o Coming(i)' = files[i] \o Coming(i)
            /\ Len(files'[i]) >= Len(files[i]) /\ Sound(files'[i], Coming(i)')
  <2>0. Active' = Active
    BY <1>2 DEF Active
  <2>1. /\ \A i : i # Active => Coming(i) = <<>> /\ Coming(i)' = <<>>
        /\ \A i : i = Active => Coming(i) = buf \o r /\ Coming(i)' = buf' \o t
    BY <1>4, <1>5, <2>0, Zenon DEF Coming
  <2>2. CASE Len(buf) >= 2 /\ files' = Written(buf) /\ buf' = <<h>>
    <3>1. /\ DOMAIN files' = DOMAIN files /\ files' \in [DOMAIN files -> Seq(Piece)]
          /\ \A i \in DOMAIN files :
                 /\ i = Active => files'[i] = files[i] \o buf
                 /\ i # Active => files'[i] = files[i]
      BY <1>3, <2>2, WrittenFacts, Zenon
    <3>2. ASSUME NEW i \in DOMAIN files, i = Active
          PROVE  /\ files'[i] \o Coming(i)' = files[i] \o Coming(i)
                 /\ Len(files'[i]) >= Len(files[i]) /\ Sound(files'[i], Coming(i)')
      <4>1. files'[i] = files[i] \o buf /\ Coming(i)' = r /\ Coming(i) = buf \o r /\ files[i] \in Seq(Piece)
        BY <1>3, <1>6, <2>1, <2>2, <3>1, <3>2, Zenon
      <4>2. (files[i] \o buf) \o r = files[i] \o (buf \o r)
        <5>1. PICK f, b : f = files[i] /\ b = buf
          OBVIOUS
        <5>2. f \in Seq(Piece) /\ b \in Seq(Piece) /\ r \in Seq(Piece)
          BY <1>3, <1>6, <4>1, <5>1, Zenon
        <5>3. (f \o b) \o r = f \o (b \o r)
          BY <5>2, ConcatAssoc, SMTT(30)
        <5> QED BY <5>1, <5>3, Zenon
      <4>3. Len(files[i] \o buf) >= Len(files[i])
        <5>1. Len(files[i] \o buf) = Len(files[i]) + Len(buf) /\ Len(files[i]) \in Nat /\ Len(buf) \in Nat
          BY <1>3, <4>1, ConcatAt
        <5> QED BY <5>1
      <4>4. Sound(files[i], buf \o r)
        BY <1>3, <4>1, Zenon
      <4>5. Sound(files[i] \o buf, r)
        BY <1>3, <1>6, <2>2, <4>1, <4>4, SoundSpill, Zenon
      <4> QED BY <4>1, <4>2, <4>3, <4>5, Zenon
    <3>3. buf' \in Seq(Piece)
      BY <1>6, <2>2
    <3> QED BY <2>1, <3>1, <3>2, <3>3, Zenon
  <2>3. CASE files' = files /\ buf' = Append(buf, h)
    <3>1. \A i : i = Active => Coming(i)' = Coming(i)
      BY <1>6, <2>1, <2>3, Zenon
    <3>2. files' \in [DOMAIN files -> Seq(Piece)] /\ buf' \in Seq(Piece)
      BY <1>3, <1>6, <2>3, Zenon DEF Stored
    <3>3. \A i \in DOMAIN files : Len(files'[i]) >= Len(files[i])
      BY <1>3, <2>3
    <3> QED BY <1>3, <2>1, <2>3, <3>1, <3>2, <3>3, Zenon
  <2> QED BY <1>8, <2>2, <2>3, Zenon
<1>10. Typing'
  <2>1. Stored' /\ \A i \in DOMAIN files' : i < MaxSegments + 4
    BY <1>3, <1>9, Zenon DEF Stored
  <2>2. appended' \in [DOMAIN appended' -> Seq(Nat)]
    BY <1>2 DEF Log, Typing
  <2> QED BY <1>2, <1>3, <1>4, <1>5, <1>6, <1>9, <2>1, <2>2, ZenonT(60) DEF Typing
<1>11. Calls'
  <2>1. phase' \in {"open", "recovering"}
    BY <1>2, <1>3 DEF Inv
  <2> QED BY <1>4, <2>1 DEF Calls
<1>12. Heads'
  <2>1. ASSUME NEW i \in DOMAIN files PROVE Sound(files'[i], Coming(i)')
    <3>1. CASE i = Active
      BY <1>9, <3>1, Zenon
    <3>2. CASE i # Active
      BY <1>3, <1>9, <3>2
    <3> QED BY <3>1, <3>2
  <2> QED BY <1>9, <2>1, Zenon DEF Heads
<1>13. ASSUME phase' = "open" PROVE Settled'
  <2>1. Settled
    BY <1>2, <1>13 DEF Log
  <2>2. Active' = Active /\ \A i : ComingRows(i)' = ComingRows(i)
    BY <1>2, <1>4 DEF Active, ComingRows
  <2>3. /\ DOMAIN appended = DOMAIN files
        /\ \A i \in DOMAIN files :
              /\ i <= Active => Codes(files[i] \o Coming(i), appended[i] \o ComingRows(i))
              /\ i > Active => files[i] = <<>> /\ appended[i] = <<>>
        /\ setting.writeThrough => \A i \in DOMAIN files : i = Active => 2 * Len(appended[i]) <= Len(files[i])
    BY <2>1, Zenon DEF Settled
  <2>4. ASSUME NEW i \in DOMAIN files PROVE files'[i] \o Coming(i)' = files[i] \o Coming(i)
    BY <1>9, Zenon
  <2>5. ASSUME NEW i \in DOMAIN files, i > Active PROVE files'[i] = <<>> /\ appended'[i] = <<>>
    <3>1. i # Active
      BY <1>3, <2>5, LogFacts
    <3> QED BY <1>2, <1>9, <2>3, <2>5, <3>1, Zenon
  <2>6. ASSUME setting.writeThrough, NEW i \in DOMAIN files, i = Active PROVE 2 * Len(appended'[i]) <= Len(files'[i])
    <3>1. 2 * Len(appended[i]) <= Len(files[i]) /\ Len(files'[i]) >= Len(files[i]) /\ i \in DOMAIN appended
      BY <1>9, <2>3, <2>6, Zenon
    <3>2. appended[i] \in Seq(Nat) /\ files[i] \in Seq(Piece) /\ files'[i] \in Seq(Piece)
      BY <1>3, <1>9, <3>1
    <3> QED BY <1>2, <3>1, <3>2
  <2> QED BY <1>2, <1>4, <1>9, <2>2, <2>3, <2>4, <2>5, <2>6, ZenonT(60) DEF Settled
<1>14. phase' # "down"
  BY <1>2, <1>3 DEF Inv
<1> QED BY <1>1, <1>10, <1>11, <1>12, <1>13, <1>14, Zenon DEF Log

(* A flush between two records brings everything to the file. *)
LEMMA FlushFacts ==
    ASSUME Log, op.rest = <<>>, files' = Written(buf), buf' = <<>>, op'.rest = <<>>, index' = index
    PROVE  /\ DOMAIN files' = DOMAIN files /\ Stored'
           /\ \A i : Coming(i)' = <<>>
           /\ \A i \in DOMAIN files :
                 /\ files'[i] = files[i] \o Coming(i) /\ files'[i] \o <<>> = files'[i]
                 /\ files'[i] \in Seq(Piece) /\ Sound(files'[i], <<>>)
                 /\ i # Active => files'[i] = files[i]
<1>1. /\ Stored /\ buf \in Seq(Piece)
      /\ \A i \in DOMAIN files : i \in Nat /\ files[i] \in Seq(Piece)
      /\ \A i \in DOMAIN files : Sound(files[i], Coming(i))
  BY LogFacts
<1>2. /\ DOMAIN files' = DOMAIN files /\ files' \in [DOMAIN files -> Seq(Piece)]
      /\ \A i \in DOMAIN files :
             /\ i = Active => files'[i] = files[i] \o buf
             /\ i # Active => files'[i] = files[i]
  BY <1>1, WrittenFacts, Zenon
<1>3. Stored'
  BY <1>1, <1>2, Zenon DEF Stored
<1>4. <<>> \o <<>> = <<>> /\ buf \o <<>> = buf
  BY <1>1, ConcatForms
<1>5. /\ \A i : Coming(i)' = <<>>
      /\ \A i : i = Active => Coming(i) = buf
      /\ \A i : i # Active => Coming(i) = <<>>
  BY <1>4, Zenon DEF Coming
<1>6. ASSUME NEW i \in DOMAIN files
      PROVE  /\ files'[i] = files[i] \o Coming(i) /\ files'[i] \o <<>> = files'[i]
             /\ files'[i] \in Seq(Piece) /\ Sound(files'[i], <<>>)
  <2>1. PICK f, b : f = files[i] /\ b = Coming(i)
    OBVIOUS
  <2>2. f \in Seq(Piece) /\ b \in Seq(Piece) /\ Sound(f, b)
    BY <1>1, <2>1, LogFacts, Zenon
  <2>3. f \o <<>> = f /\ b \o <<>> = b /\ f \o b \in Seq(Piece)
    BY <2>2, ConcatForms, ConcatAt
  <2>4. (f \o b) \o <<>> = f \o b
    BY <2>3, ConcatForms
  <2>5. Sound(f \o b, <<>>)
    <3>1. Sound(f, b \o <<>>)
      BY <2>2, <2>3, Zenon
    <3>2. <<>> \in Seq(Piece)
      OBVIOUS
    <3> QED BY <2>2, <3>1, <3>2, SoundSpill, Zenon
  <2>6. files'[i] = f \o b
    BY <1>2, <1>5, <2>1, <2>3, ZenonT(60)
  <2> QED BY <2>1, <2>3, <2>4, <2>5, <2>6, Zenon
<1> QED BY <1>2, <1>3, <1>5, <1>6, Zenon

(* append returns. *)
LEMMA AppendReturnsKeeps ==
    ASSUME Roomy, Log, AppendReturns
    PROVE  Log'
<1>1. Inv'
  BY Preserves DEF Roomy, Log, Next
<1>2. /\ op.pc = "write" /\ op.rest = <<>>
      /\ setting.writeThrough => files' = Written(buf) /\ buf' = <<>>
      /\ ~ setting.writeThrough => files' = files /\ buf' = buf
      /\ appended' = [i \in DOMAIN appended |->
                       IF i = Active /\ phase = "open" THEN appended[i] \o op.rows ELSE appended[i]]
      /\ op' = IF phase = "open" THEN NoOp ELSE [op EXCEPT !.pc = "refresh"]
      /\ setting' = setting /\ index' = index /\ phase' = phase /\ rows' = rows
  BY DEF AppendReturns
<1>3. /\ Inv /\ setting \in Settings /\ Stored
      /\ buf \in Seq(Piece) /\ op.rest \in Seq(Piece) /\ op.rows \in Seq(Nat) /\ rows \in Nat
      /\ \A i \in DOMAIN files : i \in Nat /\ files[i] \in Seq(Piece) /\ i < MaxSegments + 4
      /\ \A i \in DOMAIN appended : appended[i] \in Seq(Nat)
      /\ \A i \in DOMAIN files : Sound(files[i], Coming(i))
  BY LogFacts
<1>4. /\ op'.pc \in {"idle", "refresh"} /\ op'.rest = <<>> /\ op'.rows \in Seq(Nat)
      /\ phase = "open" \/ op'.pc = "idle" => op'.rows = <<>>
  <2>1. CASE phase = "open"
    BY <1>2, <2>1 DEF NoOp
  <2>2. CASE phase # "open"
    <3>1. op' = [op EXCEPT !.pc = "refresh"] /\ DOMAIN op = {"pc", "rows", "rest"}
      BY <1>2, <1>3, <2>2 DEF Inv
    <3>2. op'.pc = "refresh" /\ op'.rows = op.rows /\ op'.rest = op.rest
      BY <3>1
    <3> QED BY <1>2, <1>3, <2>2, <3>2
  <2> QED BY <2>1, <2>2
<1>5. Active' = Active
  BY <1>2 DEF Active
<1>6. /\ DOMAIN files' = DOMAIN files /\ Stored' /\ buf' \in Seq(Piece)
      /\ \A i \in DOMAIN files :
            /\ files'[i] \o Coming(i)' = files[i] \o Coming(i)
            /\ Sound(files'[i], Coming(i)')
            /\ i # Active => files'[i] = files[i]
            /\ setting.writeThrough => files'[i] = files[i] \o Coming(i)
  <2>1. CASE setting.writeThrough
    <3>1. files' = Written(buf) /\ buf' = <<>>
      BY <1>2, <2>1
    <3>2. buf' \in Seq(Piece)
      BY <3>1
    <3>3. /\ DOMAIN files' = DOMAIN files /\ Stored'
          /\ \A i : Coming(i)' = <<>>
          /\ \A i \in DOMAIN files :
                 /\ files'[i] = files[i] \o Coming(i) /\ files'[i] \o <<>> = files'[i]
                 /\ Sound(files'[i], <<>>)
                 /\ i # Active => files'[i] = files[i]
      BY <1>2, <1>4, <3>1, FlushFacts
    <3> QED BY <3>2, <3>3, Zenon
  <2>2. CASE ~ setting.writeThrough
    <3>1. files' = files /\ buf' = buf
      BY <1>2, <2>2
    <3>2. \A i : Coming(i)' = Coming(i)
      <4>1. op'.rest = op.rest
        BY <1>2, <1>4, Zenon
      <4> QED BY <1>5, <3>1, <4>1, Zenon DEF Coming
    <3>3. Stored'
      BY <1>3, <3>1 DEF Stored
    <3> QED BY <1>3, <2>2, <3>1, <3>2, <3>3, Zenon
  <2> QED BY <2>1, <2>2, Zenon
<1>7. /\ DOMAIN appended' = DOMAIN appended /\ appended' \in [DOMAIN appended -> Seq(Nat)]
      /\ \A i \in DOMAIN appended :
            phase = "open" => appended'[i] = appended[i] \o ComingRows(i)
  <2>1. \A i \in DOMAIN appended : appended[i] \o op.rows \in Seq(Nat) /\ appended[i] \o <<>> = appended[i]
    BY <1>3, ConcatForms, ConcatAt
  <2>2. DOMAIN appended' = DOMAIN appended /\ appended' \in [DOMAIN appended -> Seq(Nat)]
    BY <1>2, <1>3, <2>1
  <2>3. ASSUME NEW i \in DOMAIN appended, phase = "open"
        PROVE  appended'[i] = appended[i] \o ComingRows(i)
    <3>1. appended'[i] = IF i = Active THEN appended[i] \o op.rows ELSE appended[i]
      BY <1>2, <2>3
    <3> QED BY <2>1, <3>1, Zenon DEF ComingRows
  <2> QED BY <2>2, <2>3
<1>8. Typing'
  <2>1. \A i \in DOMAIN files' : i < MaxSegments + 4
    BY <1>3, <1>6
  <2>2. op'.rest \in Seq(Piece) /\ op'.rows \in Seq(Nat) /\ op'.pc # "create"
    BY <1>4
  <2> QED BY <1>2, <1>3, <1>6, <1>7, <2>1, <2>2, ZenonT(60) DEF Typing
<1>9. Calls'
  <2>1. phase' \in {"open", "recovering"} /\ op'.pc # "create"
    BY <1>2, <1>3, <1>4 DEF Inv
  <2> QED BY <1>4, <2>1, Zenon DEF Calls
<1>10. Heads'
  BY <1>6, Zenon DEF Heads
<1>11. ASSUME phase' = "open" PROVE Settled'
  <2>1. phase = "open" /\ Settled
    BY <1>2, <1>11 DEF Log
  <2>2. \A i : ComingRows(i)' = <<>>
    BY <1>4, <2>1, Zenon DEF ComingRows
  <2>3. /\ DOMAIN appended = DOMAIN files
        /\ \A i \in DOMAIN files :
              /\ i <= Active => Codes(files[i] \o Coming(i), appended[i] \o ComingRows(i))
              /\ i > Active => files[i] = <<>> /\ appended[i] = <<>>
    BY <2>1, Zenon DEF Settled
  <2>4. \A i \in DOMAIN files : appended'[i] = appended[i] \o ComingRows(i) /\ appended'[i] \o <<>> = appended'[i]
    <3>1. \A i \in DOMAIN files : appended'[i] \in Seq(Nat)
      BY <1>7, <2>3
    <3>2. \A i \in DOMAIN files : appended'[i] \o <<>> = appended'[i]
      BY <3>1, ConcatForms
    <3> QED BY <1>7, <2>1, <2>3, <3>2, Zenon
  <2>5. ASSUME NEW i \in DOMAIN files, i <= Active
        PROVE  Codes(files'[i] \o Coming(i)', appended'[i] \o ComingRows(i)')
    BY <1>6, <2>2, <2>3, <2>4, <2>5, Zenon
  <2>6. ASSUME NEW i \in DOMAIN files, i > Active PROVE files'[i] = <<>> /\ appended'[i] = <<>>
    <3>1. i # Active
      BY <1>3, <2>6, LogFacts
    <3>2. ComingRows(i) = <<>> /\ appended[i] = <<>> /\ files[i] = <<>> /\ <<>> \o <<>> = <<>>
      BY <2>3, <2>6, <3>1 DEF ComingRows
    <3> QED BY <1>6, <2>4, <3>1, <3>2, ZenonT(60)
  <2>7. ASSUME setting.writeThrough, NEW i \in DOMAIN files, i = Active PROVE 2 * Len(appended'[i]) <= Len(files'[i])
    <3>1. i <= Active
      BY <1>3, <2>7
    <3>2. Codes(files'[i], appended'[i])
      BY <1>6, <2>3, <2>4, <2>7, <3>1, ZenonT(60)
    <3>3. Len(files'[i]) = 2 * Len(appended'[i]) /\ appended'[i] \in Seq(Nat)
      BY <1>7, <2>3, <3>2 DEF Codes
    <3> QED BY <3>3
  <2>8. setting'.writeThrough => buf' = <<>>
    BY <1>2
  <2> QED BY <1>2, <1>5, <1>6, <1>7, <2>3, <2>5, <2>6, <2>7, <2>8, ZenonT(60) DEF Settled
<1>12. phase' # "down"
  BY <1>2, <1>3 DEF Inv
<1> QED BY <1>1, <1>8, <1>9, <1>10, <1>11, <1>12, Zenon DEF Log

(* punctuate flushes the segment that it closes. *)
LEMMA PunctuateKeeps ==
    ASSUME Roomy, Log, punctuate
    PROVE  Log'
<1>1. Inv'
  BY Preserves DEF Roomy, Log, Next
<1>2. /\ phase = "open" /\ op.pc = "idle" /\ index < MaxSegments /\ files' = Written(buf) /\ buf' = <<>>
      /\ op' = [NoOp EXCEPT !.pc = "create"]
      /\ setting' = setting /\ index' = index /\ phase' = phase /\ appended' = appended /\ rows' = rows
  BY DEF punctuate, Idle
<1>3. /\ Inv /\ setting \in Settings /\ rows \in Nat /\ index \in 0..10
      /\ \A i \in DOMAIN files : i \in Nat /\ files[i] \in Seq(Piece) /\ i < MaxSegments + 4
      /\ \A i \in DOMAIN appended : appended[i] \in Seq(Nat)
  BY LogFacts
<1>4. op'.pc = "create" /\ op'.rows = <<>> /\ op'.rest = <<>>
  BY <1>2 DEF NoOp
<1>5. Active' = Active
  BY <1>2 DEF Active
<1>6. op.rest = <<>> /\ op.rows = <<>> /\ Settled
  BY <1>2 DEF Log, Calls
<1>7. /\ DOMAIN files' = DOMAIN files /\ Stored'
      /\ \A i : Coming(i)' = <<>>
      /\ \A i \in DOMAIN files :
            /\ files'[i] = files[i] \o Coming(i) /\ files'[i] \o <<>> = files'[i]
            /\ Sound(files'[i], <<>>) /\ files'[i] \in Seq(Piece)
            /\ i # Active => files'[i] = files[i]
  BY <1>2, <1>4, <1>6, FlushFacts
<1>8. Typing'
  <2>1. \A i \in DOMAIN files' : i < MaxSegments + 4
    BY <1>3, <1>7
  <2>2. op'.rest \in Seq(Piece) /\ op'.rows \in Seq(Nat) /\ buf' \in Seq(Piece)
    <3>1. <<>> \in Seq(Piece) /\ <<>> \in Seq(Nat)
      OBVIOUS
    <3> QED BY <1>2, <1>4, <3>1, Zenon
  <2>4. index' < MaxSegments + 4
    <3>1. MaxSegments \in Nat /\ index \in Nat
      BY <1>3, BoundsAssumption
    <3> QED BY <1>2, <3>1
  <2>3. appended' \in [DOMAIN appended' -> Seq(Nat)]
    BY <1>2 DEF Log, Typing
  <2> QED BY <1>2, <1>3, <1>7, <2>1, <2>2, <2>3, <2>4, ZenonT(60) DEF Typing
<1>9. Calls'
  <2>1. phase' # "recovering"
    BY <1>2
  <2> QED BY <1>2, <1>4, <2>1 DEF Calls
<1>10. Heads'
  BY <1>7, Zenon DEF Heads
<1>11. Settled'
  <2>1. \A i : ComingRows(i)' = <<>> /\ ComingRows(i) = <<>>
    BY <1>4, <1>6, Zenon DEF ComingRows
  <2>2. /\ DOMAIN appended = DOMAIN files
        /\ \A i \in DOMAIN files :
              /\ i <= Active => Codes(files[i] \o Coming(i), appended[i] \o ComingRows(i))
              /\ i > Active => files[i] = <<>> /\ appended[i] = <<>>
        /\ setting.writeThrough => \A i \in DOMAIN files : i = Active => 2 * Len(appended[i]) <= Len(files[i])
    BY <1>6, Zenon DEF Settled
  <2>3. ASSUME NEW i \in DOMAIN files, i <= Active
        PROVE  Codes(files'[i] \o Coming(i)', appended'[i] \o ComingRows(i)')
    BY <1>2, <1>7, <2>1, <2>2, <2>3, Zenon
  <2>4. ASSUME NEW i \in DOMAIN files, i > Active PROVE files'[i] = <<>> /\ appended'[i] = <<>>
    <3>1. i # Active
      BY <1>3, <2>4, LogFacts
    <3> QED BY <1>2, <1>7, <2>2, <2>4, <3>1, Zenon
  <2>5. ASSUME setting.writeThrough, NEW i \in DOMAIN files, i = Active PROVE 2 * Len(appended'[i]) <= Len(files'[i])
    <3>1. i <= Active /\ appended[i] \in Seq(Nat)
      BY <1>3, <2>2, <2>5
    <3>2. appended[i] \o <<>> = appended[i]
      BY <3>1, ConcatForms
    <3>3. Codes(files'[i], appended[i])
      BY <1>7, <2>1, <2>2, <3>1, <3>2, Zenon
    <3>4. Len(files'[i]) = 2 * Len(appended[i])
      BY <3>3 DEF Codes
    <3> QED BY <1>2, <3>1, <3>4
  <2> QED BY <1>2, <1>5, <1>7, <2>2, <2>3, <2>4, <2>5, ZenonT(60) DEF Settled
<1>12. phase' # "down"
  BY <1>2, Zenon
<1> QED BY <1>1, <1>8, <1>9, <1>10, <1>11, <1>12, Zenon DEF Log

(* removeOldest takes a file away, with its rows. *)
LEMMA RemoveOldestKeeps ==
    ASSUME Roomy, Log, removeOldest
    PROVE  Log'
<1>1. Inv'
  BY Preserves DEF Roomy, Log, Next
<1>2. PICK rest : /\ rest \subseteq DOMAIN files
                  /\ files' = [i \in rest |-> files[i]]
                  /\ appended' = [i \in DOMAIN appended \cap rest |-> appended[i]]
  <2>1. CASE DOMAIN files = {}
    <3>1. files' = files /\ appended' = appended /\ DOMAIN appended = {}
      BY <2>1 DEF removeOldest, Log, Settled
    <3>2. files' = [i \in {} |-> files[i]] /\ appended' = [i \in DOMAIN appended \cap {} |-> appended[i]]
      <4>1. files = [i \in DOMAIN files |-> files[i]] /\ appended = [i \in DOMAIN appended |-> appended[i]]
        BY Zenon DEF Log, Typing, Stored
      <4> QED BY <2>1, <3>1, <4>1
    <3>3. {} \subseteq DOMAIN files
      OBVIOUS
    <3> QED BY <3>2, <3>3, Zenon
  <2>2. CASE DOMAIN files # {}
    <3>1. PICK r : r = DOMAIN files \ {ReadDir[1]}
      BY Zenon
    <3>2. r \subseteq DOMAIN files
      BY <3>1
    <3> QED BY <2>2, <3>1, <3>2, Zenon DEF removeOldest
  <2> QED BY <2>1, <2>2, Zenon
<1>3. /\ phase = "open" /\ op.pc = "idle"
      /\ setting' = setting /\ index' = index /\ buf' = buf /\ op' = op /\ phase' = phase /\ rows' = rows
  BY DEF removeOldest, Idle
<1>4. /\ setting \in Settings /\ Stored
      /\ buf \in Seq(Piece) /\ op.rest \in Seq(Piece) /\ op.rows \in Seq(Nat) /\ rows \in Nat
      /\ \A i \in DOMAIN files : i \in Nat /\ files[i] \in Seq(Piece) /\ i < MaxSegments + 4
      /\ \A i \in DOMAIN appended : appended[i] \in Seq(Nat)
      /\ \A i \in DOMAIN files : Sound(files[i], Coming(i))
  BY LogFacts
<1>5. /\ DOMAIN files' = rest /\ \A i \in rest : files'[i] = files[i]
      /\ DOMAIN appended' = DOMAIN appended \cap rest
      /\ \A i \in DOMAIN appended \cap rest : appended'[i] = appended[i]
      /\ files' \in [rest -> Seq(Piece)] /\ appended' \in [DOMAIN appended \cap rest -> Seq(Nat)]
  BY <1>2, <1>4
<1>6. Active' = Active /\ \A i : Coming(i)' = Coming(i) /\ ComingRows(i)' = ComingRows(i)
  BY <1>3 DEF Active, Coming, ComingRows
<1>7. Typing'
  <2>1. Stored'
    BY <1>2, <1>4, <1>5, Zenon DEF Stored
  <2>2. op'.pc # "create"
    BY <1>3
  <2> QED BY <1>2, <1>3, <1>4, <1>5, <2>1, <2>2, Zenon DEF Typing
<1>8. Calls'
  BY <1>3 DEF Calls, Log
<1>9. Heads'
  BY <1>2, <1>4, <1>5, <1>6, Zenon DEF Heads
<1>10. Settled'
  <2>1. Settled
    BY <1>3 DEF Log
  <2>2. /\ DOMAIN appended = DOMAIN files
        /\ \A i \in DOMAIN files :
              /\ i <= Active => Codes(files[i] \o Coming(i), appended[i] \o ComingRows(i))
              /\ i > Active => files[i] = <<>> /\ appended[i] = <<>>
        /\ setting.writeThrough /\ op.pc # "write" => buf = <<>>
        /\ setting.writeThrough => \A i \in DOMAIN files : i = Active => 2 * Len(appended[i]) <= Len(files[i])
    BY <2>1, Zenon DEF Settled
  <2>3. DOMAIN appended \cap rest = rest
    BY <1>2, <2>2
  <2>4. \A i \in rest : i \in DOMAIN files /\ files'[i] = files[i] /\ appended'[i] = appended[i]
    BY <1>2, <1>5, <2>3
  <2>5. DOMAIN files' = rest /\ DOMAIN appended' = rest
    BY <1>5, <2>3
  <2> QED BY <1>3, <1>6, <2>2, <2>4, <2>5, Zenon DEF Settled
<1>11. phase' # "down"
  BY <1>3, Zenon
<1> QED BY <1>1, <1>7, <1>8, <1>9, <1>10, <1>11, Zenon DEF Log

(* createSegmentFile opens the next segment. *)
LEMMA CreateKeeps ==
    ASSUME Roomy, Log, createSegmentFile
    PROVE  Log'
<1>1. Inv'
  BY Preserves DEF Roomy, Log, Next
<1>2. /\ op.pc = "create" /\ files' = Created(files, index) /\ appended' = Created(appended, index)
      /\ index' = index + 1 /\ buf' = <<>>
      /\ op.rows = <<>> => op' = NoOp /\ phase' = "open"
      /\ op.rows # <<>> => op' = [pc |-> "write", rows |-> op.rows, rest |-> Encoded(op.rows)] /\ phase' = phase
      /\ setting' = setting /\ rows' = rows
  BY DEF createSegmentFile
<1>3. /\ Inv /\ setting \in Settings /\ Stored /\ op.rows \in Seq(Nat) /\ rows \in Nat /\ index \in 0..10
      /\ \A i \in DOMAIN files : i \in Nat /\ files[i] \in Seq(Piece) /\ i < MaxSegments + 4
      /\ \A i \in DOMAIN appended : appended[i] \in Seq(Nat)
      /\ \A i \in DOMAIN files : Sound(files[i], Coming(i))
  BY LogFacts
<1>4. op.rest = <<>> /\ buf = <<>> /\ index < MaxSegments + 4 /\ index \in Numbers /\ phase \in {"open", "recovering"}
  <2>1. index \in Numbers /\ phase \in {"open", "recovering"}
    BY <1>2, <1>3 DEF Inv
  <2>2. op.rest = <<>> /\ buf = <<>> /\ index < MaxSegments + 4
    BY <1>2 DEF Log, Calls, Typing
  <2> QED BY <2>1, <2>2
<1>5. PICK e : e = IF op.rows = <<>> THEN <<>> ELSE Encoded(op.rows)
  OBVIOUS
<1>6. e \in Seq(Piece) /\ (e = <<>> \/ e = Encoded(op.rows)) /\ op'.rest = e /\ op'.rows = op.rows
      /\ (op'.pc = "write" \/ (op'.pc = "idle" /\ op.rows = <<>> /\ e = <<>>))
  <2>1. CASE op.rows = <<>>
    BY <1>2, <1>5, <2>1 DEF NoOp
  <2>2. CASE op.rows # <<>>
    <3>1. e = Encoded(op.rows)
      BY <1>5, <2>2
    <3>2. e \in Seq(Piece)
      BY <1>3, <3>1, EncodedCodes
    <3>3. op'.rest = Encoded(op.rows) /\ op'.rows = op.rows /\ op'.pc = "write"
      BY <1>2, <2>2
    <3> QED BY <3>1, <3>2, <3>3
  <2> QED BY <2>1, <2>2
<1>7. Active' = index
  BY <1>2, <1>3 DEF Active
<1>8. <<>> \o <<>> = <<>> /\ <<>> \o e = e
  BY <1>6, ConcatForms
<1>9. /\ \A i : i # index => Coming(i)' = <<>> /\ ComingRows(i)' = <<>>
      /\ \A i : i = index => Coming(i)' = e /\ ComingRows(i)' = op.rows
      /\ \A i : Coming(i) = <<>>
  BY <1>2, <1>4, <1>6, <1>7, <1>8, Zenon DEF Coming, ComingRows
<1>10. /\ DOMAIN files' = DOMAIN files \cup {index} /\ files' \in [DOMAIN files \cup {index} -> Seq(Piece)]
       /\ \A i \in DOMAIN files : files'[i] = files[i]
       /\ index \notin DOMAIN files => files'[index] = <<>>
  <2>1. files \in [DOMAIN files -> Seq(Piece)] /\ <<>> \in Seq(Piece)
    BY <1>3 DEF Stored
  <2>2. PICK D, g, k : D = DOMAIN files /\ g = files /\ k = index
    OBVIOUS
  <2>3. g \in [D -> Seq(Piece)]
    BY <2>1, <2>2, Zenon
  <2>4. /\ DOMAIN Created(g, k) = D \cup {k} /\ Created(g, k) \in [D \cup {k} -> Seq(Piece)]
        /\ \A i \in D : Created(g, k)[i] = g[i]
        /\ k \notin D => Created(g, k)[k] = <<>>
    <3>1. PICK V : V = Seq(Piece)
      OBVIOUS
    <3>2. <<>> \in V /\ g \in [D -> V]
      BY <2>1, <2>3, <3>1, Zenon
    <3>3. /\ DOMAIN Created(g, k) = D \cup {k} /\ Created(g, k) \in [D \cup {k} -> V]
          /\ \A i \in D : Created(g, k)[i] = g[i]
          /\ k \notin D => Created(g, k)[k] = <<>>
      BY <3>2 DEF Created
    <3> QED BY <3>1, <3>3, Zenon
  <2> QED BY <1>2, <2>2, <2>4, Zenon
<1>11. /\ DOMAIN appended' = DOMAIN appended \cup {index} /\ appended' \in [DOMAIN appended \cup {index} -> Seq(Nat)]
       /\ \A i \in DOMAIN appended : appended'[i] = appended[i]
       /\ index \notin DOMAIN appended => appended'[index] = <<>>
  <2>1. appended \in [DOMAIN appended -> Seq(Nat)] /\ <<>> \in Seq(Nat)
    BY DEF Log, Typing
  <2>2. PICK D, g, k : D = DOMAIN appended /\ g = appended /\ k = index
    OBVIOUS
  <2>3. g \in [D -> Seq(Nat)]
    BY <2>1, <2>2, Zenon
  <2>4. /\ DOMAIN Created(g, k) = D \cup {k} /\ Created(g, k) \in [D \cup {k} -> Seq(Nat)]
        /\ \A i \in D : Created(g, k)[i] = g[i]
        /\ k \notin D => Created(g, k)[k] = <<>>
    <3>1. PICK V : V = Seq(Nat)
      OBVIOUS
    <3>2. <<>> \in V /\ g \in [D -> V]
      BY <2>1, <2>3, <3>1, Zenon
    <3>3. /\ DOMAIN Created(g, k) = D \cup {k} /\ Created(g, k) \in [D \cup {k} -> V]
          /\ \A i \in D : Created(g, k)[i] = g[i]
          /\ k \notin D => Created(g, k)[k] = <<>>
      BY <3>2 DEF Created
    <3> QED BY <3>1, <3>3, Zenon
  <2> QED BY <1>2, <2>2, <2>4, Zenon
<1>12. Typing'
  <2>1. Stored'
    <3>1. DOMAIN files' \subseteq Numbers
      BY <1>3, <1>4, <1>10 DEF Stored
    <3> QED BY <1>10, <3>1, Zenon DEF Stored
  <2>2. \A i \in DOMAIN files' : i < MaxSegments + 4
    BY <1>3, <1>4, <1>10, Zenon
  <2>3. buf' \in Seq(Piece) /\ op'.pc # "create"
    BY <1>2, <1>6
  <2> QED BY <1>2, <1>3, <1>6, <1>11, <2>1, <2>2, <2>3, Zenon DEF Typing
<1>13. Calls'
  <2>1. phase' \in {"open", "recovering"} /\ op'.pc \in {"idle", "write"} /\ (op'.pc = "idle" => op'.rest = <<>> /\ op'.rows = <<>>)
    BY <1>2, <1>4, <1>6, Zenon
  <2> QED BY <2>1 DEF Calls
<1>14. Heads'
  <2>1. ASSUME NEW i \in DOMAIN files, i # index PROVE Sound(files'[i], Coming(i)')
    BY <1>3, <1>9, <1>10, <2>1, Zenon
  <2>2. \A s \in Seq(Nat) : Sound(<<>>, <<>> \o Encoded(s)) /\ Sound(<<>>, <<>>)
    <3>1. <<>> \in Seq(Piece) /\ Len(<<>>) # 1
      OBVIOUS
    <3>2. Sound(<<>>, <<>>)
      BY <1>8, <3>1, Zenon DEF Sound
    <3> QED BY <3>1, <3>2, SoundAppend, Zenon
  <2>3. ASSUME NEW i, i = index PROVE Sound(files'[i], Coming(i)')
    <3>0. Coming(i)' = e
      BY <1>9, <2>3, Zenon
    <3>1. <<>> \o Encoded(op.rows) = Encoded(op.rows) /\ Encoded(op.rows) \in Seq(Piece)
      <4>1. Encoded(op.rows) \in Seq(Piece)
        BY <1>3, EncodedCodes
      <4> QED BY <4>1, ConcatForms, Zenon
    <3>2. CASE i \in DOMAIN files
      <4>1. PICK f : f = files[i]
        OBVIOUS
      <4>2. f \in Seq(Piece) /\ Sound(f, <<>>) /\ files'[i] = f
        BY <1>3, <1>9, <1>10, <3>2, <4>1, Zenon
      <4>3. Sound(f, Encoded(op.rows))
        <5>1. <<>> \in Seq(Piece)
          OBVIOUS
        <5>2. Sound(f, <<>> \o Encoded(op.rows))
          BY <1>3, <4>2, <5>1, SoundAppend, Zenon
        <5> QED BY <3>1, <5>2, Zenon
      <4> QED BY <1>6, <3>0, <4>2, <4>3, Zenon
    <3>3. CASE i \notin DOMAIN files
      <4>1. files'[i] = <<>>
        BY <1>10, <2>3, <3>3, Zenon
      <4>2. Sound(<<>>, Encoded(op.rows)) /\ Sound(<<>>, <<>>)
        BY <1>3, <2>2, <3>1, Zenon
      <4> QED BY <1>6, <3>0, <4>1, <4>2, Zenon
    <3> QED BY <3>2, <3>3
  <2>4. \A i \in DOMAIN files' : Sound(files'[i], Coming(i)')
    <3> TAKE i \in DOMAIN files'
    <3>1. i = index \/ (i # index /\ i \in DOMAIN files)
      BY <1>10
    <3> QED BY <2>1, <2>3, <3>1, Zenon
  <2> QED BY <2>4, Zenon DEF Heads
<1>15. ASSUME phase' = "open" PROVE Settled'
  <2>1. op.rows = <<>> /\ e = <<>> /\ op' = NoOp
    <3>1. phase = "open" => op.rows = <<>>
      BY <1>2 DEF Log, Calls
    <3>2. op.rows = <<>>
      BY <1>2, <1>15, <3>1, Zenon
    <3> QED BY <1>2, <1>5, <3>2, Zenon
  <2>2. DOMAIN appended = DOMAIN files
    BY <1>2, <1>4, <2>1 DEF Log, Calls, Settled
  <2>3. ASSUME NEW i \in DOMAIN files
        PROVE  /\ i < index => Codes(files[i] \o <<>>, appended[i] \o <<>>)
               /\ i >= index => files[i] = <<>> /\ appended[i] = <<>>
    <3>1. phase = "open" /\ Settled
      BY <1>2, <1>4, <2>1 DEF Log, Calls
    <3>2. /\ i <= Active => Codes(files[i] \o Coming(i), appended[i] \o ComingRows(i))
          /\ i > Active => files[i] = <<>> /\ appended[i] = <<>>
      BY <3>1, Zenon DEF Settled
    <3>3. ComingRows(i) = <<>> /\ Coming(i) = <<>>
      BY <1>9, <2>1 DEF ComingRows
    <3>4. (i < index <=> i <= Active) /\ (i >= index <=> i > Active)
      BY <1>3 DEF Active
    <3> QED BY <3>2, <3>3, <3>4, Zenon
  <2>4. /\ \A i : Coming(i)' = <<>> /\ ComingRows(i)' = <<>>
        /\ op'.pc = "idle" /\ index \in Int
    BY <1>3, <1>9, <2>1 DEF NoOp
  <2>5. files'[index] = <<>> /\ appended'[index] = <<>>
    <3>1. CASE index \in DOMAIN files
      <4>1. index >= index
        BY <1>3
      <4> QED BY <1>10, <1>11, <2>2, <2>3, <3>1, <4>1, ZenonT(60)
    <3>2. CASE index \notin DOMAIN files
      BY <1>10, <1>11, <2>2, <3>2, Zenon
    <3> QED BY <3>1, <3>2
  <2>6. Codes(<<>>, <<>>)
    BY DEF Codes
  <2>7. ASSUME NEW i \in DOMAIN files'
        PROVE  /\ i <= index => Codes(files'[i] \o <<>>, appended'[i] \o <<>>)
               /\ i > index => files'[i] = <<>> /\ appended'[i] = <<>>
    <3>1. CASE i = index
      <4>1. ~ (i > index)
        BY <1>3, <3>1
      <4> QED BY <1>8, <2>5, <2>6, <3>1, <4>1, Zenon
    <3>2. CASE i # index
      <4>1. i \in DOMAIN files /\ i \in Nat
        BY <1>3, <1>10, <3>2
      <4>2. (i <= index => i < index) /\ (i > index => i >= index)
        BY <1>3, <3>2, <4>1
      <4> QED BY <1>10, <1>11, <2>2, <2>3, <4>1, <4>2, Zenon
    <3> QED BY <3>1, <3>2
  <2>8. \A i \in DOMAIN files' : i = index => 2 * Len(appended'[i]) <= Len(files'[i])
    BY <2>5
  <2>9. DOMAIN appended' = DOMAIN files'
    BY <1>10, <1>11, <2>2, Zenon
  <2> QED BY <1>2, <1>7, <2>4, <2>7, <2>8, <2>9, ZenonT(60) DEF Settled
<1>16. phase' # "down"
  BY <1>2, <1>4
<1> QED BY <1>1, <1>12, <1>13, <1>14, <1>15, <1>16, Zenon DEF Log

(* Close and refresh remove every file. *)
LEMMA RemoveAllKeeps ==
    ASSUME Roomy, Log, Close \/ refresh
    PROVE  Log'
<1>1. Inv'
  BY Preserves DEF Roomy, Log, Next
<1>2. /\ files' = NoFiles /\ appended' = NoFiles /\ buf' = <<>>
      /\ setting' = setting /\ index' = index /\ rows' = rows
  BY DEF Close, refresh
<1>3. DOMAIN files' = {} /\ DOMAIN appended' = {} /\ appended' \in [{} -> Seq(Nat)] /\ files' \in [{} -> Seq(Piece)]
  BY <1>2 DEF NoFiles
<1>4. Inv /\ setting \in Settings /\ rows \in Nat /\ op.rows \in Seq(Nat) /\ op.rest \in Seq(Piece) /\ index \in 0..10
  BY LogFacts
<1>5. op'.rest = <<>> /\ op'.rows = <<>> /\ op'.pc \in {"idle", "create"}
  <2>1. CASE Close
    BY <2>1 DEF Close, Idle, Log, Calls
  <2>2. CASE refresh
    BY <2>2 DEF refresh, NoOp
  <2> QED BY <2>1, <2>2
<1>6. phase' # "open" /\ phase' # "down" /\ (op'.pc = "create" => index < MaxSegments + 4)
  <2>1. CASE Close
    <3>1. phase' = "closed" /\ op' = op /\ op.pc = "idle"
      BY <2>1 DEF Close, Idle
    <3> QED BY <3>1
  <2>2. CASE refresh
    <3>1. phase' = phase /\ op.pc = "refresh"
      BY <2>2 DEF refresh
    <3>2. phase = "recovering" /\ index <= 2
      BY <1>4, <3>1 DEF Inv
    <3>3. MaxSegments \in Nat /\ index \in Nat
      BY <1>4, BoundsAssumption
    <3> QED BY <3>1, <3>2, <3>3
  <2> QED BY <2>1, <2>2
<1>7. Typing'
  <2>1. Stored' /\ \A i \in DOMAIN files' : i < MaxSegments + 4
    BY <1>3 DEF Stored
  <2>2. <<>> \in Seq(Piece) /\ <<>> \in Seq(Nat)
    OBVIOUS
  <2> QED BY <1>2, <1>3, <1>4, <1>5, <1>6, <2>1, <2>2, Zenon DEF Typing
<1>8. Calls'
  BY <1>2, <1>3, <1>5, Zenon DEF Calls
<1>9. Heads'
  BY <1>3 DEF Heads
<1> QED BY <1>1, <1>6, <1>7, <1>8, <1>9, Zenon DEF Log

(* A crash: what was in the buffer is gone. *)
LEMMA CrashKeeps ==
    ASSUME Roomy, Log, Crash
    PROVE  Log'
<1>1. Inv'
  BY Preserves DEF Roomy, Log, Next
<1>2. /\ phase' = "down" /\ op' = NoOp /\ buf' = <<>> /\ index' = 0
      /\ appended' = [i \in DOMAIN files |-> Parse(files[i]).rows]
      /\ setting' = setting /\ files' = files /\ rows' = rows
  BY DEF Crash
<1>3. /\ setting \in Settings /\ Stored /\ rows \in Nat
      /\ \A i \in DOMAIN files : i \in Nat /\ files[i] \in Seq(Piece) /\ i < MaxSegments + 4
      /\ \A i : Coming(i) \in Seq(Piece)
      /\ \A i \in DOMAIN files : Sound(files[i], Coming(i))
  BY LogFacts
<1>4. op'.rest = <<>> /\ op'.rows = <<>> /\ op'.pc = "idle"
  BY <1>2, Zenon DEF NoOp
<1>5. \A i \in DOMAIN files : Parse(files[i]).rows \in Seq(Nat) /\ (files[i] = <<>> => Parse(files[i]).rows = <<>>)
  BY <1>3, ParseStarts
<1>6. DOMAIN appended' = DOMAIN files /\ \A i \in DOMAIN files : appended'[i] = Parse(files[i]).rows
  BY <1>2
<1>7. appended' \in [DOMAIN files -> Seq(Nat)]
  BY <1>2, <1>5, Zenon
<1>8. Typing'
  <2>1. <<>> \in Seq(Piece) /\ <<>> \in Seq(Nat) /\ "idle" # "create"
    OBVIOUS
  <2>2. Stored'
    BY <1>2, <1>3 DEF Stored
  <2> QED BY <1>2, <1>3, <1>4, <1>6, <1>7, <2>1, <2>2, Zenon DEF Typing
<1>9. Calls'
  BY <1>2, <1>4 DEF Calls
<1>10. Heads'
  <2>1. \A i : Coming(i)' = <<>>
    <3>1. <<>> \o <<>> = <<>>
      OBVIOUS
    <3> QED BY <1>2, <1>4, <3>1, Zenon DEF Coming
  <2>2. \A i \in DOMAIN files : Sound(files[i], <<>>)
    BY <1>3, SoundCut
  <2> QED BY <1>2, <2>1, <2>2, Zenon DEF Heads
<1>11. Fallen'
  BY <1>2, <1>5, <1>6, Zenon DEF Fallen
<1>12. phase' # "open"
  BY <1>2
<1> QED BY <1>1, <1>8, <1>9, <1>10, <1>11, <1>12, Zenon DEF Log

(* Open: without rows the files are empty, and the log is open; with rows   *)
(* it creates a segment for them.                                           *)
LEMMA OpenKeeps ==
    ASSUME Roomy, Log, Open
    PROVE  Log'
<1>1. Inv'
  BY Preserves DEF Roomy, Log, Next
<1>2. /\ phase = "down" /\ files' = Created(files, 0) /\ appended' = Created(appended, 0) /\ index' = 1
      /\ setting' = setting /\ buf' = buf /\ rows' = rows
  BY DEF Open
<1>3. /\ Inv /\ setting \in Settings /\ Stored /\ rows \in Nat
      /\ \A i \in DOMAIN files : i \in Nat /\ files[i] \in Seq(Piece) /\ i < MaxSegments + 4
      /\ \A i : Coming(i) \in Seq(Piece)
      /\ \A i \in DOMAIN files : Sound(files[i], Coming(i))
  BY LogFacts
<1>4. op.pc = "idle" /\ op.rest = <<>> /\ op.rows = <<>> /\ buf = <<>>
  <2>1. op.pc = "idle"
    BY <1>2, <1>3 DEF Inv
  <2> QED BY <1>2, <2>1 DEF Log, Calls
<1>5. PICK found \in Seq(Nat) :
              /\ found = <<>> => readAll = <<>> /\ phase' = "open" /\ op' = op
              /\ found # <<>> => phase' = "recovering" /\ op' = [pc |-> "create", rows |-> found, rest |-> <<>>]
  BY <1>3, OpenFound, Zenon
<1>6. /\ op'.rest = <<>> /\ op'.rows = found
      /\ op'.pc = IF found = <<>> THEN "idle" ELSE "create"
      /\ phase' = IF found = <<>> THEN "open" ELSE "recovering"
  BY <1>4, <1>5
<1>7. PICK D, g, a : D = DOMAIN files /\ g = files /\ a = appended
  OBVIOUS
<1>8. DOMAIN a = D /\ g \in [D -> Seq(Piece)] /\ a \in [D -> Seq(Nat)] /\ (\A i \in D : g[i] = <<>> => a[i] = <<>>)
  <2>1. Fallen /\ appended \in [DOMAIN appended -> Seq(Nat)]
    BY <1>2 DEF Log, Typing
  <2>2. files \in [DOMAIN files -> Seq(Piece)]
    BY <1>3, Zenon DEF Stored
  <2> QED BY <1>7, <2>1, <2>2, Zenon DEF Fallen
<1>9. /\ DOMAIN files' = D \cup {0} /\ files' \in [D \cup {0} -> Seq(Piece)]
      /\ \A i \in D : files'[i] = g[i]
      /\ 0 \notin D => files'[0] = <<>>
  <2>1. /\ DOMAIN Created(g, 0) = D \cup {0} /\ Created(g, 0) \in [D \cup {0} -> Seq(Piece)]
        /\ \A i \in D : Created(g, 0)[i] = g[i]
        /\ 0 \notin D => Created(g, 0)[0] = <<>>
    BY <1>8 DEF Created
  <2> QED BY <1>2, <1>7, <2>1, Zenon
<1>10. /\ DOMAIN appended' = D \cup {0} /\ appended' \in [D \cup {0} -> Seq(Nat)]
       /\ \A i \in D : appended'[i] = a[i]
       /\ 0 \notin D => appended'[0] = <<>>
  <2>1. /\ DOMAIN Created(a, 0) = D \cup {0} /\ Created(a, 0) \in [D \cup {0} -> Seq(Nat)]
        /\ \A i \in D : Created(a, 0)[i] = a[i]
        /\ 0 \notin D => Created(a, 0)[0] = <<>>
    BY <1>8 DEF Created
  <2> QED BY <1>2, <1>7, <2>1, Zenon
<1>11. Typing'
  <2>1. MaxSegments \in Nat
    BY BoundsAssumption
  <2>2. Stored'
    <3>1. DOMAIN files' \subseteq Numbers
      BY <1>3, <1>7, <1>9, SMTT(30) DEF Stored, Numbers
    <3> QED BY <1>9, <3>1, Zenon DEF Stored
  <2>3. \A i \in DOMAIN files' : i < MaxSegments + 4
    BY <1>3, <1>7, <1>9, <2>1, SMTT(30)
  <2>4. index' < MaxSegments + 4 /\ <<>> \in Seq(Piece)
    BY <1>2, <2>1
  <2> QED BY <1>2, <1>3, <1>4, <1>6, <1>10, <2>2, <2>3, <2>4, ZenonT(60) DEF Typing
<1>12. Calls'
  BY <1>2, <1>4, <1>6 DEF Calls
<1>13. \A i : Coming(i)' = <<>> /\ Coming(i) = <<>>
  <2>1. <<>> \o <<>> = <<>>
    OBVIOUS
  <2> QED BY <1>2, <1>4, <1>6, <2>1, Zenon DEF Coming
<1>14. Heads'
  <2>1. Sound(<<>>, <<>>)
    BY DEF Sound
  <2>2. ASSUME NEW i \in DOMAIN files' PROVE Sound(files'[i], <<>>)
    <3>1. CASE i \in D
      BY <1>3, <1>7, <1>9, <1>13, <3>1, Zenon
    <3>2. CASE i \notin D
      <4>1. i = 0
        BY <1>9, <3>2
      <4> QED BY <1>9, <2>1, <3>2, <4>1, Zenon
    <3> QED BY <3>1, <3>2
  <2> QED BY <1>13, <2>2, Zenon DEF Heads
<1>15. ASSUME phase' = "open" PROVE Settled'
  <2>1. found = <<>> /\ readAll = <<>>
    BY <1>5, <1>6, <1>15, Zenon
  <2>2. \A i \in DOMAIN files : files[i] = <<>> \/ Starts(files[i])
    BY <1>3, SoundCut, Zenon
  <2>3. MaxSegments + 4 \in Nat
    BY BoundsAssumption
  <2>4. \A i \in DOMAIN files : files[i] = <<>>
    BY <1>3, <2>1, <2>2, <2>3, NothingRead, Zenon
  <2>5. ASSUME NEW i \in DOMAIN files' PROVE files'[i] = <<>> /\ appended'[i] = <<>>
    <3>1. CASE i \in D
      BY <1>7, <1>8, <1>9, <1>10, <2>4, <3>1, ZenonT(60)
    <3>2. CASE i \notin D
      <4>1. i = 0
        BY <1>9, <3>2
      <4> QED BY <1>9, <1>10, <3>2, <4>1, ZenonT(60)
    <3> QED BY <3>1, <3>2
  <2>6. \A i : ComingRows(i)' = <<>>
    BY <1>6, <2>1, Zenon DEF ComingRows
  <2>7. Codes(<<>>, <<>>) /\ <<>> \o <<>> = <<>> /\ 2 * Len(<<>>) <= Len(<<>>)
    BY DEF Codes
  <2>8. DOMAIN appended' = DOMAIN files'
    BY <1>9, <1>10, Zenon
  <2>9. \A i \in DOMAIN files' : 2 * Len(appended'[i]) <= Len(files'[i])
    BY <2>5
  <2> QED BY <1>2, <1>4, <1>13, <2>5, <2>6, <2>7, <2>8, <2>9, ZenonT(60) DEF Settled
<1>16. phase' # "down"
  BY <1>6
<1> QED BY <1>1, <1>11, <1>12, <1>14, <1>15, <1>16, Zenon DEF Log

(* The log is made so, and every step keeps it so. *)
LEMMA LogBegins ==
    Init => Log
<1> SUFFICES ASSUME Init PROVE Log
  OBVIOUS
<1>1. Inv
  BY Begins
<1>2. /\ setting \in Settings /\ files = [i \in {0} |-> <<>>] /\ index = 1 /\ buf = <<>>
      /\ op = NoOp /\ phase = "open" /\ appended = [i \in {0} |-> <<>>] /\ rows = 0
  BY DEF Init
<1>3. /\ DOMAIN files = {0} /\ files[0] = <<>> /\ DOMAIN appended = {0} /\ appended[0] = <<>>
      /\ files \in [{0} -> Seq(Piece)] /\ appended \in [{0} -> Seq(Nat)]
  BY <1>2
<1>4. op.pc = "idle" /\ op.rows = <<>> /\ op.rest = <<>> /\ <<>> \o <<>> = <<>> /\ Active = 0
  BY <1>2 DEF NoOp, Active
<1>5. \A i : Coming(i) = <<>> /\ ComingRows(i) = <<>>
  BY <1>2, <1>4, Zenon DEF Coming, ComingRows
<1>6. Typing
  <2>1. MaxSegments \in Nat
    BY BoundsAssumption
  <2>2. Stored /\ \A i \in DOMAIN files : i < MaxSegments + 4
    BY <1>3, <2>1 DEF Stored, Numbers
  <2>3. <<>> \in Seq(Piece) /\ <<>> \in Seq(Nat) /\ 0 \in Nat /\ "idle" # "create"
    OBVIOUS
  <2> QED BY <1>2, <1>3, <1>4, <2>2, <2>3, Zenon DEF Typing
<1>7. Calls
  BY <1>2, <1>4 DEF Calls
<1>8. Heads
  <2>1. Sound(<<>>, <<>>)
    BY DEF Sound
  <2>2. \A i \in DOMAIN files : files[i] = <<>>
    BY <1>3
  <2> QED BY <1>5, <2>1, <2>2, Zenon DEF Heads
<1>9. Settled
  <2>1. Codes(<<>>, <<>>)
    BY DEF Codes
  <2>2. \A i \in DOMAIN files : files[i] = <<>> /\ appended[i] = <<>> /\ 2 * Len(appended[i]) <= Len(files[i])
    BY <1>3
  <2> QED BY <1>2, <1>3, <1>4, <1>5, <2>1, <2>2, Zenon DEF Settled
<1>10. phase # "down"
  BY <1>2
<1> QED BY <1>1, <1>6, <1>7, <1>8, <1>9, <1>10, Zenon DEF Log

LEMMA LogStep ==
    ASSUME Roomy, Log, [Next]_vars
    PROVE  Log'
<1>1. CASE OpenFails
  <2>1. Inv'
    BY Preserves DEF Roomy, Log
  <2>2. /\ phase = "down" /\ phase' = "failed" /\ setting' = setting /\ files' = files /\ index' = index
        /\ buf' = buf /\ op' = op /\ appended' = appended /\ rows' = rows
    BY <1>1 DEF OpenFails
  <2>3. Typing' /\ Heads'
    BY <2>2 DEF Log, Typing, Stored, Heads, Coming, Active
  <2>4. Calls'
    BY <2>2 DEF Log, Calls
  <2>5. phase' # "open" /\ phase' # "down"
    BY <2>2
  <2> QED BY <2>1, <2>3, <2>4, <2>5, Zenon DEF Log
<1>2. CASE UNCHANGED vars
  <2>1. Inv'
    BY Preserves DEF Roomy, Log
  <2>2. /\ setting' = setting /\ files' = files /\ index' = index /\ buf' = buf /\ op' = op
        /\ phase' = phase /\ appended' = appended /\ rows' = rows
    BY <1>2 DEF vars
  <2>3. Typing' /\ Heads'
    BY <2>2 DEF Log, Typing, Stored, Heads, Coming, Active
  <2>4. Calls'
    BY <2>2 DEF Log, Calls
  <2>5. phase' = "open" => Settled'
    BY <2>2 DEF Log, Settled, Coming, ComingRows, Active
  <2>6. phase' = "down" => Fallen'
    BY <2>2 DEF Log, Fallen
  <2> QED BY <2>1, <2>3, <2>4, <2>5, <2>6, Zenon DEF Log
<1> QED BY <1>1, <1>2, AppendKeeps, WriteKeeps, AppendReturnsKeeps, PunctuateKeeps, CreateKeeps,
           RemoveOldestKeeps, RemoveAllKeeps, CrashKeeps, OpenKeeps, ZenonT(60) DEF Next, Finished

-----------------------------------------------------------------------------
(* What is read of an open log *)

(* The file of a segment gives the beginning of its rows; all of them when  *)
(* it is closed, and nothing when it is one an earlier process left.        *)
LEMMA FileRead ==
    ASSUME Log, phase = "open", NEW i \in DOMAIN files
    PROVE  /\ i \in Nat /\ i \in DOMAIN appended /\ appended[i] \in Seq(Nat) /\ Segment(i) \in Seq(Nat)
           /\ Parse(files[i]).rows \in Seq(Nat)
           /\ i <= Active => /\ Len(Parse(files[i]).rows) <= Len(Segment(i))
                             /\ \A k \in 1..Len(Parse(files[i]).rows) : Parse(files[i]).rows[k] = Segment(i)[k]
           /\ i < Active => Parse(files[i]).clean /\ Parse(files[i]).rows = Segment(i)
           /\ i > Active => Parse(files[i]).clean /\ Parse(files[i]).rows = <<>> /\ appended[i] = <<>>
           /\ i <= Active /\ setting.writeThrough =>
                 /\ Len(appended[i]) <= Len(Parse(files[i]).rows)
                 /\ \A k \in 1..Len(appended[i]) : Parse(files[i]).rows[k] = appended[i][k]
<1>1. /\ DOMAIN appended = DOMAIN files
      /\ i <= Active => Codes(files[i] \o Coming(i), appended[i] \o ComingRows(i))
      /\ i > Active => files[i] = <<>> /\ appended[i] = <<>>
      /\ setting.writeThrough /\ i = Active => 2 * Len(appended[i]) <= Len(files[i])
  BY Zenon DEF Log, Settled
<1>2. /\ i \in Nat /\ files[i] \in Seq(Piece) /\ Coming(i) \in Seq(Piece) /\ ComingRows(i) \in Seq(Nat)
      /\ Active \in Int
  BY LogFacts, Zenon
<1>3. appended[i] \in Seq(Nat)
  BY <1>1, LogFacts
<1>4. PICK f, c, a, r : f = files[i] /\ c = Coming(i) /\ a = appended[i] /\ r = ComingRows(i)
  OBVIOUS
<1>5. f \in Seq(Piece) /\ c \in Seq(Piece) /\ a \in Seq(Nat) /\ r \in Seq(Nat)
  BY <1>2, <1>3, <1>4, Zenon
<1>6. Segment(i) = a \o r
  BY <1>4, Zenon DEF Segment, ComingRows
<1>7. /\ a \o r \in Seq(Nat) /\ Len(a) \in Nat /\ Len(r) \in Nat /\ Len(a \o r) = Len(a) + Len(r)
      /\ \A k \in 1..Len(a) : (a \o r)[k] = a[k]
  BY <1>5, ConcatAt
<1>8. PICK n \in Nat : Reads(f, n)
  BY <1>5, ParseReads
<1>9. PICK p : p = Parse(f)
  OBVIOUS
<1>10. p.rows \in Seq(Nat) /\ Len(p.rows) = n /\ (p.clean <=> Len(f) = 2 * n)
  BY <1>5, <1>8, <1>9, ReadsType, Zenon
<1>11. ASSUME i <= Active
       PROVE  /\ n <= Len(a \o r) /\ 2 * n <= Len(f) /\ Len(f) <= 2 * n + 1
              /\ \A k \in 1..n : p.rows[k] = (a \o r)[k]
  <2>1. Codes(f \o c, a \o r)
    BY <1>1, <1>4, <1>11, Zenon
  <2> QED BY <1>5, <1>7, <1>8, <1>9, <2>1, ReadsCodes, ZenonT(60)
<1>12. ASSUME i < Active PROVE p.clean /\ p.rows = a \o r /\ n = Len(a) /\ Len(r) = 0
  <2>1. i <= Active /\ i # Active
    BY <1>2, <1>12, SMTT(30)
  <2>2. c = <<>> /\ r = <<>> /\ f \o <<>> = f
    BY <1>4, <1>5, <2>1, ConcatForms, SMTT(30) DEF Coming, ComingRows
  <2>3. Codes(f, a \o r)
    BY <1>1, <1>4, <2>1, <2>2, Zenon
  <2>4. Len(f) = 2 * Len(a \o r) /\ Len(r) = 0
    BY <2>2, <2>3 DEF Codes
  <2>5. n <= Len(a \o r) /\ 2 * n <= Len(f) /\ Len(f) <= 2 * n + 1 /\ \A k \in 1..n : p.rows[k] = (a \o r)[k]
    BY <1>11, <2>1
  <2>6. PICK m : m = Len(a \o r)
    OBVIOUS
  <2>7. m \in Nat /\ 2 * n <= 2 * m /\ 2 * m <= 2 * n + 1
    BY <1>7, <2>4, <2>5, <2>6
  <2>8. m = n
    BY <2>7
  <2>9. p.rows = a \o r
    BY <1>7, <1>10, <2>5, <2>6, <2>8, SameSeq, Zenon
  <2>10. p.clean
    BY <1>10, <2>4, <2>6, <2>8, Zenon
  <2>11. PICK x, y : x = Len(a) /\ y = Len(r)
    BY Zenon
  <2>12. x \in Nat /\ y = 0 /\ m = x + y
    BY <1>7, <2>4, <2>6, <2>11, Zenon
  <2>13. m = x
    BY <2>12
  <2> QED BY <2>4, <2>8, <2>9, <2>10, <2>11, <2>13, ZenonT(60)
<1>13. ASSUME i > Active PROVE p.clean /\ p.rows = <<>> /\ a = <<>>
  <2>1. f = <<>> /\ a = <<>>
    BY <1>1, <1>4, <1>13, Zenon
  <2> QED BY <1>5, <1>9, <2>1, ParseStarts, Zenon
<1>14. ASSUME i <= Active, setting.writeThrough
       PROVE  Len(a) <= n /\ \A k \in 1..Len(a) : p.rows[k] = a[k]
  <2>1. Len(a) <= n
    <3>1. CASE i = Active
      <4>1. 2 * Len(a) <= Len(f) /\ Len(f) <= 2 * n + 1
        BY <1>1, <1>4, <1>11, <1>14, <3>1, ZenonT(60)
      <4>2. PICK m, l : m = Len(a) /\ l = Len(f)
        BY Zenon
      <4>3. m \in Nat /\ l \in Nat /\ 2 * m <= l /\ l <= 2 * n + 1
        BY <1>5, <1>7, <4>1, <4>2
      <4>4. m <= n
        BY <4>3
      <4> QED BY <4>2, <4>4
    <3>2. CASE i # Active
      <4>1. i < Active
        BY <1>2, <1>14, <3>2
      <4> QED BY <1>12, <4>1
    <3> QED BY <3>1, <3>2
  <2>2. ASSUME NEW k \in 1..Len(a) PROVE p.rows[k] = a[k]
    <3>1. k \in 1..n
      BY <1>7, <2>1
    <3> QED BY <1>7, <1>11, <1>14, <3>1, Zenon
  <2> QED BY <2>1, <2>2
<1>15. Segment(i) = a \o r /\ Parse(files[i]) = p /\ appended[i] = a
  BY <1>4, <1>6, <1>9, Zenon
<1>16. i <= Active => /\ Len(p.rows) <= Len(a \o r)
                      /\ \A k \in 1..Len(p.rows) : p.rows[k] = (a \o r)[k]
  BY <1>10, <1>11, Zenon
<1>17. i <= Active /\ setting.writeThrough =>
          Len(a) <= Len(p.rows) /\ \A k \in 1..Len(a) : p.rows[k] = a[k]
  BY <1>10, <1>14, Zenon
<1> QED BY <1>1, <1>2, <1>5, <1>7, <1>10, <1>12, <1>13, <1>15, <1>16, <1>17, ZenonT(60)

(* Behind the same rows *)
LEMMA BeginBehind ==
    ASSUME NEW a \in Seq(Nat), NEW s \in Seq(Nat), NEW t \in Seq(Nat)
    PROVE  /\ Begin(<<>>, t)
           /\ Begin(s, t) => Begin(a \o s, a \o t)
           /\ Begin(s, a) => Begin(s, a \o t)
<1>1. Begin(<<>>, t)
  BY DEF Begin
<1>2. ASSUME Begin(s, t) PROVE Begin(a \o s, a \o t)
  <2>1. Len(s) <= Len(t) /\ \A k \in 1..Len(s) : s[k] = t[k]
    BY <1>2, Zenon DEF Begin
  <2>2. PICK n, x, y : n = Len(a) /\ x = Len(s) /\ y = Len(t)
    BY Zenon
  <2>3. /\ n \in Nat /\ x \in Nat /\ y \in Nat /\ Len(a \o s) = n + x /\ Len(a \o t) = n + y
        /\ \A k \in 1..n : (a \o s)[k] = a[k] /\ (a \o t)[k] = a[k]
        /\ \A j \in 1..x : (a \o s)[n + j] = s[j]
        /\ \A j \in 1..y : (a \o t)[n + j] = t[j]
    BY <2>2, ConcatAt
  <2>4. x <= y /\ \A j \in 1..x : j \in 1..y /\ s[j] = t[j]
    BY <2>1, <2>2, <2>3
  <2>5. n + x <= n + y
    BY <2>3, <2>4
  <2>6. ASSUME NEW k \in 1..(n + x) PROVE (a \o s)[k] = (a \o t)[k]
    <3>1. CASE k \in 1..n
      BY <2>3, <3>1, Zenon
    <3>2. CASE k \notin 1..n
      <4>1. PICK j : j = k - n
        OBVIOUS
      <4>2. j \in 1..x /\ k = n + j
        BY <2>3, <2>6, <3>2, <4>1
      <4> QED BY <2>3, <2>4, <4>2, Zenon
    <3> QED BY <3>1, <3>2, Zenon
  <2> QED BY <2>3, <2>5, <2>6, Zenon DEF Begin
<1>3. ASSUME Begin(s, a) PROVE Begin(s, a \o t)
  <2>1. Len(s) <= Len(a) /\ \A k \in 1..Len(s) : s[k] = a[k]
    BY <1>3, Zenon DEF Begin
  <2>2. Len(s) <= Len(a \o t) /\ \A k \in 1..Len(s) : s[k] = (a \o t)[k]
    BY <2>1, SMTT(30)
  <2> QED BY <2>2, Zenon DEF Begin
<1> QED BY <1>1, <1>2, <1>3

(* What is read of an open log is the beginning of what was appended. *)
LEMMA LogNoHoles ==
    ASSUME Log
    PROVE  NoHoles
<1> SUFFICES ASSUME phase = "open" PROVE Begin(readAll, Sequence)
  BY Zenon DEF NoHoles
<1>1. PICK B : B = MaxSegments + 4
  OBVIOUS
<1>2. B \in Nat
  BY <1>1, BoundsAssumption
<1>3. Stored /\ Active \in Int /\ (\A i \in DOMAIN files : i < B) /\ op.rows \in Seq(Nat)
  BY <1>1, LogFacts
<1>4. DOMAIN appended = DOMAIN files /\ appended \in [DOMAIN appended -> Seq(Nat)]
  BY DEF Log, Settled, Typing
<1>5. /\ readAll = ReadFrom(0) /\ ReadFrom(B) = <<>>
      /\ \A i \in Nat :
            /\ ReadFrom(i) \in Seq(Nat)
            /\ i \in DOMAIN files =>
                  ReadFrom(i) = IF Parse(files[i]).clean THEN Parse(files[i]).rows \o ReadFrom(i + 1)
                                ELSE Parse(files[i]).rows
            /\ i \notin DOMAIN files => ReadFrom(i) = ReadFrom(i + 1)
  BY <1>2, <1>3, ReadFromDef, Zenon
<1>6. /\ Sequence = Sequencing[0]
      /\ \A i \in 0..B : Sequencing[i] = SeqStep(Sequencing, i) /\ Sequencing[i] \in Seq(Nat)
  BY <1>1, <1>3, <1>4, SequencingDef
<1> DEFINE P == {i \in 0..B : Begin(ReadFrom(i), Sequencing[i]) /\ (i > Active => ReadFrom(i) = <<>>)}
<1>7. B \in P
  <2>1. B \in 0..B /\ <<>> \in Seq(Nat)
    BY <1>2
  <2>2. Begin(<<>>, Sequencing[B])
    BY <1>6, <2>1, BeginBehind, Zenon
  <2> QED BY <1>5, <2>1, <2>2, Zenon
<1>8. ASSUME NEW i \in 0..(B - 1), i + 1 \in P PROVE i \in P
  <2>1. i \in Nat /\ i + 1 \in Nat /\ i \in 0..B /\ i + 1 \in 0..B /\ i # B
    BY <1>2
  <2>2. PICK s, t : s = ReadFrom(i + 1) /\ t = Sequencing[i + 1]
    OBVIOUS
  <2>3. s \in Seq(Nat) /\ t \in Seq(Nat) /\ Begin(s, t) /\ (i + 1 > Active => s = <<>>)
    BY <1>5, <1>6, <1>8, <2>1, <2>2, Zenon
  <2>4. Sequencing[i] = IF i \in DOMAIN appended THEN Segment(i) \o t ELSE t
    BY <1>1, <1>6, <2>1, <2>2, Zenon DEF SeqStep
  <2>5. CASE i \notin DOMAIN files
    <3>1. ReadFrom(i) = s /\ Sequencing[i] = t
      BY <1>4, <1>5, <2>1, <2>2, <2>4, <2>5, Zenon
    <3>2. i > Active => i + 1 > Active
      BY <1>3, <2>1
    <3> QED BY <2>1, <2>3, <3>1, <3>2, Zenon
  <2>6. CASE i \in DOMAIN files
    <3>1. PICK p, a : p = Parse(files[i]) /\ a = Segment(i)
      OBVIOUS
    <3>2. /\ p.rows \in Seq(Nat) /\ a \in Seq(Nat)
          /\ i <= Active => Len(p.rows) <= Len(a) /\ \A k \in 1..Len(p.rows) : p.rows[k] = a[k]
          /\ i < Active => p.clean /\ p.rows = a
          /\ i > Active => p.clean /\ p.rows = <<>>
      <4>1. /\ Segment(i) \in Seq(Nat) /\ Parse(files[i]).rows \in Seq(Nat)
            /\ i <= Active => /\ Len(Parse(files[i]).rows) <= Len(Segment(i))
                              /\ \A k \in 1..Len(Parse(files[i]).rows) : Parse(files[i]).rows[k] = Segment(i)[k]
            /\ i < Active => Parse(files[i]).clean /\ Parse(files[i]).rows = Segment(i)
            /\ i > Active => Parse(files[i]).clean /\ Parse(files[i]).rows = <<>>
        BY <2>6, FileRead
      <4> QED BY <3>1, <4>1, Zenon
    <3>3. ReadFrom(i) = (IF p.clean THEN p.rows \o s ELSE p.rows) /\ Sequencing[i] = a \o t
      BY <1>4, <1>5, <2>1, <2>2, <2>4, <2>6, <3>1, Zenon
    <3>4. CASE i > Active
      <4>1. i + 1 > Active
        BY <1>3, <2>1, <3>4
      <4>2. <<>> \o <<>> = <<>> /\ a \o t \in Seq(Nat)
        BY <2>3, <3>2
      <4>3. ReadFrom(i) = <<>>
        BY <2>3, <3>2, <3>3, <3>4, <4>1, <4>2, ZenonT(60)
      <4>4. Begin(<<>>, a \o t)
        BY <4>2, BeginBehind, Zenon
      <4> QED BY <2>1, <3>3, <4>3, <4>4, Zenon
    <3>5. CASE i < Active
      <4>0. ~ (i > Active)
        BY <1>3, <2>1, <3>5
      <4>1. ReadFrom(i) = a \o s /\ ~ (i > Active)
        BY <3>2, <3>3, <3>5, <4>0, Zenon
      <4>2. Begin(a \o s, a \o t)
        BY <2>3, <3>2, BeginBehind, Zenon
      <4> QED BY <2>1, <3>3, <4>1, <4>2, Zenon
    <3>6. CASE i = Active
      <4>1. i + 1 > Active /\ ~ (i > Active) /\ i <= Active
        BY <1>3, <2>1, <3>6, SMTT(30)
      <4>2. p.rows \o <<>> = p.rows
        BY <3>2, ConcatForms
      <4>3. ReadFrom(i) = p.rows
        BY <2>3, <3>3, <4>1, <4>2, Zenon
      <4>4. Begin(p.rows, a)
        BY <3>2, <4>1, Zenon DEF Begin
      <4>5. Begin(p.rows, a \o t)
        BY <2>3, <3>2, <4>4, BeginBehind, Zenon
      <4> QED BY <2>1, <3>3, <4>1, <4>3, <4>5, Zenon
    <3> QED BY <1>3, <2>1, <3>4, <3>5, <3>6
  <2> QED BY <2>5, <2>6
<1>9. P = 0..B
  <2>1. P \in SUBSET (0..B) /\ 0 \in Int /\ B \in Int
    BY <1>2
  <2> HIDE DEF P
  <2> QED BY <1>7, <1>8, <2>1, Downwards, Zenon
<1>10. 0 \in 0..B /\ 0 \in Nat
  BY <1>2
<1>11. Begin(ReadFrom(0), Sequencing[0])
  BY <1>9, <1>10, Zenon
<1> QED BY <1>5, <1>6, <1>11, Zenon

(* What begins a sequence is found in it. *)
LEMMA BeginRange ==
    ASSUME NEW s \in Seq(Nat), NEW t \in Seq(Nat), Begin(s, t)
    PROVE  Range(s) \subseteq Range(t)
<1>1. Len(s) <= Len(t) /\ \A k \in 1..Len(s) : s[k] = t[k]
  BY Zenon DEF Begin
<1>2. DOMAIN s = 1..Len(s) /\ DOMAIN t = 1..Len(t) /\ \A k \in DOMAIN s : k \in DOMAIN t /\ s[k] = t[k]
  BY <1>1, SMTT(30)
<1> QED BY <1>2, Zenon DEF Range

(* Written through, what is read of an open log holds every row whose       *)
(* append has returned.                                                     *)
LEMMA LogReadable ==
    ASSUME Log
    PROVE  Readable
<1> SUFFICES ASSUME setting.writeThrough, phase = "open" PROVE Kept \subseteq Range(readAll)
  BY Zenon DEF Readable
<1>1. PICK B : B = MaxSegments + 4
  OBVIOUS
<1>2. B \in Nat
  BY <1>1, BoundsAssumption
<1>3. Stored /\ Active \in Int /\ \A i \in DOMAIN files : i < B
  BY <1>1, LogFacts
<1>4. DOMAIN appended = DOMAIN files
  BY Zenon DEF Log, Settled
<1>5. /\ readAll = ReadFrom(0)
      /\ \A i \in Nat :
            /\ ReadFrom(i) \in Seq(Nat)
            /\ i \in DOMAIN files =>
                  ReadFrom(i) = IF Parse(files[i]).clean THEN Parse(files[i]).rows \o ReadFrom(i + 1)
                                ELSE Parse(files[i]).rows
            /\ i \notin DOMAIN files => ReadFrom(i) = ReadFrom(i + 1)
  BY <1>1, <1>2, <1>3, ReadFromDef, Zenon
<1> DEFINE P == {i \in 0..B : \A j \in DOMAIN files : i <= j => Range(appended[j]) \subseteq Range(ReadFrom(i))}
<1>6. \A j \in DOMAIN files : j \in Nat
  BY FileRead
<1>7. B \in P
  <2>1. B \in 0..B /\ \A j \in DOMAIN files : ~ (B <= j)
    BY <1>2, <1>3, <1>6
  <2> QED BY <2>1, Zenon
<1>8. ASSUME NEW i \in 0..(B - 1), i + 1 \in P PROVE i \in P
  <2>1. i \in Nat /\ i + 1 \in Nat /\ i \in 0..B
    BY <1>2
  <2>2. PICK s : s = ReadFrom(i + 1)
    OBVIOUS
  <2>3. s \in Seq(Nat) /\ \A j \in DOMAIN files : i + 1 <= j => Range(appended[j]) \subseteq Range(s)
    BY <1>5, <1>8, <2>1, <2>2, Zenon
  <2>4. SUFFICES ASSUME NEW j \in DOMAIN files, i <= j PROVE Range(appended[j]) \subseteq Range(ReadFrom(i))
    BY <2>1, Zenon
  <2>5. i # j => i + 1 <= j
    BY <1>6, <2>1, <2>4
  <2>6. CASE i \notin DOMAIN files
    BY <1>5, <2>1, <2>2, <2>3, <2>4, <2>5, <2>6, ZenonT(60)
  <2>7. CASE i \in DOMAIN files
    <3>1. PICK p, a : p = Parse(files[i]) /\ a = appended[i]
      OBVIOUS
    <3>2. /\ a \in Seq(Nat) /\ p.rows \in Seq(Nat)
          /\ i <= Active => Begin(a, p.rows)
          /\ i < Active => p.clean
          /\ i > Active => p.clean /\ a = <<>>
      <4>1. /\ appended[i] \in Seq(Nat) /\ Parse(files[i]).rows \in Seq(Nat)
            /\ i < Active => Parse(files[i]).clean
            /\ i > Active => Parse(files[i]).clean /\ appended[i] = <<>>
            /\ i <= Active => /\ Len(appended[i]) <= Len(Parse(files[i]).rows)
                              /\ \A k \in 1..Len(appended[i]) : Parse(files[i]).rows[k] = appended[i][k]
        BY <2>7, FileRead
      <4> QED BY <3>1, <4>1, Zenon DEF Begin
    <3>3. ReadFrom(i) = IF p.clean THEN p.rows \o s ELSE p.rows
      BY <1>5, <2>1, <2>2, <2>7, <3>1, Zenon
    <3>4. Range(p.rows \o s) = Range(p.rows) \cup Range(s)
      BY <2>3, <3>2, RangeConcat
    <3>5. i <= Active \/ i > Active
      BY <1>3, <2>1
    <3>6. Range(<<>>) = {}
      BY DEF Range
    <3>7. Range(a) \subseteq Range(p.rows)
      <4>1. CASE i <= Active
        BY <3>2, <4>1, BeginRange
      <4>2. CASE i > Active
        BY <3>2, <3>6, <4>2, Zenon
      <4> QED BY <3>5, <4>1, <4>2, Zenon
    <3>8. CASE j = i
      BY <3>1, <3>3, <3>4, <3>7, <3>8, Zenon
    <3>9. CASE j # i /\ p.clean
      BY <2>3, <2>4, <2>5, <3>3, <3>4, <3>9, Zenon
    <3>10. CASE j # i /\ ~ p.clean
      <4>1. ~ (i < Active) /\ ~ (i > Active)
        BY <3>2, <3>10, Zenon
      <4>2. j > Active
        BY <1>3, <1>6, <2>1, <2>4, <2>5, <3>10, <4>1, SMTT(30)
      <4>3. appended[j] = <<>>
        BY <2>4, <4>2, FileRead
      <4> QED BY <3>6, <4>3, Zenon
    <3> QED BY <3>8, <3>9, <3>10
  <2> QED BY <2>6, <2>7
<1>9. P = 0..B
  <2>1. P \in SUBSET (0..B) /\ 0 \in Int /\ B \in Int
    BY <1>2
  <2> HIDE DEF P
  <2> QED BY <1>7, <1>8, <2>1, Downwards
<1>10. 0 \in 0..B /\ \A j \in DOMAIN files : 0 <= j
  BY <1>2, <1>6
<1>11. \A j \in DOMAIN files : Range(appended[j]) \subseteq Range(ReadFrom(0))
  BY <1>9, <1>10, Zenon
<1> QED BY <1>4, <1>5, <1>11, ZenonT(60) DEF Kept

(* Whatever sizes the buffer has and wherever the process dies: what is     *)
(* read of the log is the beginning of what was appended, as long as the    *)
(* buffer holds one record and the names of the segments have one digit.    *)
(* The size is needed: in a buffer smaller than a record TLC finds a log    *)
(* with a hole.                                                             *)
THEOREM LogHasNoHoles ==
    ASSUME Roomy PROVE Spec => []NoHoles
<1>1. Init => Log
  BY LogBegins
<1>2. Log /\ [Next]_vars => Log'
  BY LogStep
<1>3. Log => NoHoles
  BY LogNoHoles, Zenon
<1> QED BY <1>1, <1>2, <1>3, PTL DEF Spec

(* Under the same conditions a log that is written through gives back every *)
(* row whose append has returned and whose segment is still wanted.         *)
THEOREM LogIsReadable ==
    ASSUME Roomy PROVE Spec => []Readable
<1>1. Init => Log
  BY LogBegins
<1>2. Log /\ [Next]_vars => Log'
  BY LogStep
<1>3. Log => Readable
  BY LogReadable
<1> QED BY <1>1, <1>2, <1>3, PTL DEF Spec

-----------------------------------------------------------------------------
(* A recovery that can be repeated *)

(* Records, and nothing else *)
Whole(p) == \E s \in Seq(Nat) : Codes(p, s)

(* What was read of the file f is read of the file g, and reading goes on   *)
(* to the next file if it did behind f.                                     *)
ReadOn(f, g) ==
    /\ Range(Parse(f).rows) \subseteq Range(Parse(g).rows)
    /\ Parse(f).clean => Parse(g).clean

(* ... or there is nothing to go on to. *)
Last(fs, i) == \A j \in DOMAIN fs : j > i => fs[j] = <<>>
Follows(fs, gs, i) ==
    /\ Range(Parse(fs[i]).rows) \subseteq Range(Parse(gs[i]).rows)
    /\ Parse(fs[i]).clean => Parse(gs[i]).clean \/ Last(fs, i)

(* The loop of readAll over the files fs, by their numbers *)
Descends(g, fs) ==
    /\ g \in [0..10 -> Seq(Nat)] /\ g[10] = <<>>
    /\ \A i \in 0..9 :
          g[i] = IF i \in DOMAIN fs
                 THEN IF Parse(fs[i]).clean THEN Parse(fs[i]).rows \o g[i + 1] ELSE Parse(fs[i]).rows
                 ELSE g[i + 1]
ReadAllIs == \E g : Descends(g, files) /\ readAll = g[0]

(* A recovery writes to segment 1.  If its records fit the buffer, those    *)
(* that are still to come are all of them, in the buffer or behind it.      *)
Repeatable ==
    /\ phase = "recovering" /\ op.pc = "write" => index = 2
    /\ phase = "recovering" /\ op.pc = "create" /\ op.rows # <<>> => index = 1
    /\ phase = "recovering" /\ op.pc = "write" /\ Fits => Codes(buf \o op.rest, op.rows)
    /\ RecoveryKeeps

(* Pieces behind a file: what was read of it is read. *)
LEMMA ReadsMore ==
    ASSUME NEW p \in Seq(Piece), NEW q \in Seq(Piece), NEW n \in Nat, NEW m \in Nat, Reads(p, n), Reads(p \o q, m)
    PROVE  n <= m /\ Range(Parse(p).rows) \subseteq Range(Parse(p \o q).rows)
<1>1. PICK r, a, b : r = p \o q /\ a = Len(p) /\ b = Len(q)
  BY Zenon
<1>2. /\ r \in Seq(Piece) /\ a \in Nat /\ b \in Nat /\ Len(r) = a + b
      /\ \A k \in 1..a : r[k] = p[k]
  BY <1>1, ConcatAt
<1>3. Reads(r, m)
  BY <1>1, Zenon
<1>5. 2 * n <= a /\ \A k \in 1..n : Record(p, k)
  BY <1>1, Zenon DEF Reads
<1>6. 2 * m <= a + b /\ (2 * (m + 1) <= a + b => ~ Record(r, m + 1))
  BY <1>2, <1>3, Zenon DEF Reads
<1>7. ASSUME NEW k \in 1..n PROVE r[2 * k] = p[2 * k] /\ Record(r, k)
  <2>1. 2 * k - 1 \in 1..a /\ 2 * k \in 1..a
    BY <1>2, <1>5
  <2>2. r[2 * k - 1] = p[2 * k - 1] /\ r[2 * k] = p[2 * k]
    BY <1>2, <2>1, Zenon
  <2> QED BY <1>5, <2>2, Zenon DEF Record
<1>8. n <= m
  <2> SUFFICES ASSUME ~ (n <= m) PROVE FALSE
    OBVIOUS
  <2>1. m + 1 \in 1..n /\ 2 * (m + 1) <= a + b
    BY <1>2, <1>5
  <2> QED BY <1>6, <1>7, <2>1, Zenon
<1>9. PICK u, v : u = Parse(p).rows /\ v = Parse(r).rows
  OBVIOUS
<1>10. u \in Seq(Nat) /\ Len(u) = n /\ \A k \in 1..n : u[k] = p[2 * k][1]
  BY <1>9, ReadsType, ZenonT(60)
<1>11. v \in Seq(Nat) /\ Len(v) = m /\ \A k \in 1..m : v[k] = r[2 * k][1]
  BY <1>2, <1>3, <1>9, ReadsType, ZenonT(60)
<1>12. Begin(u, v)
  <2>1. \A k \in 1..n : k \in 1..m
    BY <1>8
  <2> QED BY <1>7, <1>8, <1>10, <1>11, <2>1, Zenon DEF Begin
<1>13. Range(u) \subseteq Range(v)
  BY <1>10, <1>11, <1>12, BeginRange, Zenon
<1> QED BY <1>1, <1>8, <1>9, <1>13, Zenon

LEMMA MoreRead ==
    ASSUME NEW p \in Seq(Piece), NEW q \in Seq(Piece)
    PROVE  Range(Parse(p).rows) \subseteq Range(Parse(p \o q).rows)
<1>1. p \o q \in Seq(Piece)
  BY ConcatAt, Zenon
<1>2. PICK n \in Nat : Reads(p, n)
  BY ParseReads
<1>3. PICK m \in Nat : Reads(p \o q, m)
  BY <1>1, ParseReads, Zenon
<1> QED BY <1>2, <1>3, ReadsMore, Zenon

(* Records behind a file, whatever is in it: a file that ended with a       *)
(* record does so still.                                                    *)
LEMMA ReadOnConcat ==
    ASSUME NEW p \in Seq(Piece), NEW q \in Seq(Piece), Whole(q)
    PROVE  ReadOn(p, p \o q)
<1>1. PICK r, a, b : r = p \o q /\ a = Len(p) /\ b = Len(q)
  BY Zenon
<1>2. /\ r \in Seq(Piece) /\ a \in Nat /\ b \in Nat /\ Len(r) = a + b
      /\ \A j \in 1..b : r[a + j] = q[j]
  BY <1>1, ConcatAt
<1>3. PICK n \in Nat : Reads(p, n)
  BY ParseReads
<1>4. PICK m \in Nat : Reads(r, m)
  BY <1>2, ParseReads
<1>6. 2 * m <= a + b /\ (2 * (m + 1) <= a + b => ~ Record(r, m + 1))
  BY <1>2, <1>4, Zenon DEF Reads
<1>8. n <= m /\ Range(Parse(p).rows) \subseteq Range(Parse(r).rows)
  BY <1>1, <1>3, <1>4, ReadsMore, Zenon
<1>10. Parse(p).clean <=> a = 2 * n
  BY <1>1, <1>3, ReadsType, ZenonT(60)
<1>11. Parse(r).clean <=> a + b = 2 * m
  <2>1. Parse(r).clean <=> Len(r) = 2 * m
    BY <1>2, <1>4, ReadsType, Zenon
  <2> QED BY <1>2, <2>1, Zenon
<1>14. ASSUME a = 2 * n PROVE a + b = 2 * m
  <2>1. PICK t \in Seq(Nat) : Codes(q, t)
    BY Zenon DEF Whole
  <2>2. PICK c : c = Len(t)
    OBVIOUS
  <2>3. /\ c \in Nat /\ b = 2 * c
        /\ \A j \in 1..c : q[2 * j - 1] = <<t[j], 1>> /\ q[2 * j] = <<t[j], 2>>
    <3>1. c \in Nat
      BY <2>2
    <3> QED BY <1>1, <2>1, <2>2, <3>1, Zenon DEF Codes
  <2>4. ASSUME m < n + c PROVE FALSE
    <3>1. PICK j, i, k : j = (m + 1) - n /\ i = 2 * j - 1 /\ k = 2 * j
      OBVIOUS
    <3>2. /\ j \in 1..c /\ i \in 1..b /\ k \in 1..b /\ 2 * (m + 1) <= a + b
          /\ 2 * (m + 1) - 1 = a + i /\ 2 * (m + 1) = a + k
      BY <1>2, <1>8, <1>14, <2>3, <2>4, <3>1, SMTT(30)
    <3>3. r[a + i] = <<t[j], 1>> /\ r[a + k] = <<t[j], 2>>
      BY <1>2, <2>3, <3>1, <3>2, Zenon
    <3>4. Record(r, m + 1)
      BY <3>2, <3>3 DEF Record
    <3> QED BY <1>6, <3>2, <3>4, Zenon
  <2> QED BY <1>2, <1>6, <1>14, <2>3, <2>4
<1> QED BY <1>1, <1>8, <1>10, <1>11, <1>14, Zenon DEF ReadOn

LEMMA EmptyParse ==
    Parse(<<>>).clean /\ Parse(<<>>).rows = <<>>
<1>1. <<>> \in Seq(Piece)
  OBVIOUS
<1>2. PICK n \in Nat : Reads(<<>>, n)
  BY <1>1, ParseReads, Zenon
<1>3. 2 * n <= 0
  BY <1>2 DEF Reads
<1>4. n = 0 /\ Len(<<>>) = 2 * n
  BY <1>3
<1>5. /\ Parse(<<>>).rows \in Seq(Nat) /\ Len(Parse(<<>>).rows) = 0
      /\ Parse(<<>>).clean
  BY <1>1, <1>2, <1>4, ReadsType, Zenon
<1> QED BY <1>5

(* Nothing is read of empty files. *)
LEMMA EmptyRead ==
    ASSUME NEW f, NEW g, Descends(g, f), NEW i \in 0..9, Last(f, i)
    PROVE  g[i + 1] = <<>>
<1> DEFINE P == {k \in 0..10 : k > i => g[k] = <<>>}
<1>1. 10 \in P
  BY DEF Descends
<1>2. ASSUME NEW k \in 0..(10 - 1), k + 1 \in P PROVE k \in P
  <2>1. k \in 0..9 /\ k \in 0..10 /\ (k > i => k + 1 > i)
    OBVIOUS
  <2>2. SUFFICES ASSUME k > i PROVE g[k] = <<>>
    BY <2>1
  <2>3. g[k + 1] = <<>>
    BY <1>2, <2>1, <2>2
  <2>4. g[k] = IF k \in DOMAIN f
               THEN IF Parse(f[k]).clean THEN Parse(f[k]).rows \o g[k + 1] ELSE Parse(f[k]).rows
               ELSE g[k + 1]
    BY <2>1, Zenon DEF Descends
  <2>5. CASE k \in DOMAIN f
    <3>1. f[k] = <<>>
      BY <2>2, <2>5, Zenon DEF Last
    <3>2. g[k] = <<>> \o <<>>
      BY <2>3, <2>4, <2>5, <3>1, EmptyParse, Zenon
    <3> QED BY <3>2
  <2>6. CASE k \notin DOMAIN f
    BY <2>3, <2>4, <2>6, Zenon
  <2> QED BY <2>5, <2>6
<1>3. P = 0..10
  <2>1. P \in SUBSET (0..10) /\ 0 \in Int /\ 10 \in Int
    OBVIOUS
  <2> HIDE DEF P
  <2> QED BY <1>1, <1>2, <2>1, Downwards, Zenon
<1>4. i + 1 \in 0..10 /\ i + 1 > i
  OBVIOUS
<1> QED BY <1>3, <1>4, Zenon

(* The loop over more files, or longer ones, finds what it found. *)
LEMMA KeepsReading ==
    ASSUME NEW f, NEW h, NEW g, NEW d, Descends(g, f), Descends(d, h),
           DOMAIN f \subseteq DOMAIN h,
           \A i \in DOMAIN f : f[i] \in Seq(Piece) /\ Follows(f, h, i),
           \A i \in DOMAIN h : h[i] \in Seq(Piece),
           \A i \in DOMAIN h \ DOMAIN f : Parse(h[i]).clean
    PROVE  Range(g[0]) \subseteq Range(d[0])
<1>1. \A p \in Seq(Piece) : Parse(p).rows \in Seq(Nat)
  BY ParseReads, ReadsType, Zenon
<1>2. /\ \A i \in 0..10 : g[i] \in Seq(Nat) /\ d[i] \in Seq(Nat)
      /\ g[10] = <<>> /\ d[10] = <<>>
  BY Zenon DEF Descends
<1> DEFINE P == {i \in 0..10 : Range(g[i]) \subseteq Range(d[i])}
<1>3. 10 \in P
  BY <1>2
<1>4. ASSUME NEW i \in 0..(10 - 1), i + 1 \in P PROVE i \in P
  <2>1. i \in 0..9 /\ i \in 0..10 /\ i + 1 \in 0..10
    OBVIOUS
  <2>2. PICK x, y : x = g[i + 1] /\ y = d[i + 1]
    OBVIOUS
  <2>3. x \in Seq(Nat) /\ y \in Seq(Nat) /\ Range(x) \subseteq Range(y)
    BY <1>2, <1>4, <2>1, <2>2, Zenon
  <2>4. /\ i \in DOMAIN f => g[i] = IF Parse(f[i]).clean THEN Parse(f[i]).rows \o x ELSE Parse(f[i]).rows
        /\ i \notin DOMAIN f => g[i] = x
    BY <2>1, <2>2, Zenon DEF Descends
  <2>5. /\ i \in DOMAIN h => d[i] = IF Parse(h[i]).clean THEN Parse(h[i]).rows \o y ELSE Parse(h[i]).rows
        /\ i \notin DOMAIN h => d[i] = y
    BY <2>1, <2>2, Zenon DEF Descends
  <2>6. PICK u, v : u = Parse(f[i]).rows /\ v = Parse(h[i]).rows
    OBVIOUS
  <2>7. /\ i \in DOMAIN f => u \in Seq(Nat) /\ Range(u \o x) = Range(u) \cup Range(x)
        /\ i \in DOMAIN h => v \in Seq(Nat) /\ Range(v \o y) = Range(v) \cup Range(y)
    BY <1>1, <2>3, <2>6, RangeConcat
  <2>8. Range(g[i]) \subseteq Range(d[i])
    <3>1. CASE i \in DOMAIN f
      <4>1. i \in DOMAIN h /\ Follows(f, h, i)
        BY <3>1
      <4>2. Range(u) \subseteq Range(v) /\ (Parse(f[i]).clean => Parse(h[i]).clean \/ Last(f, i))
        BY <2>6, <4>1, Zenon DEF Follows
      <4>3. CASE Parse(f[i]).clean /\ Parse(h[i]).clean
        BY <2>3, <2>4, <2>5, <2>6, <2>7, <3>1, <4>1, <4>2, <4>3, ZenonT(60)
      <4>4. CASE ~ Parse(f[i]).clean \/ x = <<>>
        <5>1. Range(v) \subseteq Range(d[i])
          BY <2>5, <2>6, <2>7, <4>1, Zenon
        <5>2. Range(g[i]) \subseteq Range(u)
          <6>1. Range(<<>>) = {}
            BY DEF Range
          <6> QED BY <2>4, <2>6, <2>7, <3>1, <4>4, <6>1, Zenon
        <5> QED BY <4>2, <5>1, <5>2, Zenon
      <4>5. Last(f, i) => x = <<>>
        BY <2>1, <2>2, EmptyRead, Zenon
      <4> QED BY <4>2, <4>3, <4>4, <4>5, Zenon
    <3>2. CASE i \notin DOMAIN f /\ i \in DOMAIN h
      BY <2>3, <2>4, <2>5, <2>6, <2>7, <3>2, Zenon
    <3>3. CASE i \notin DOMAIN f /\ i \notin DOMAIN h
      BY <2>3, <2>4, <2>5, <3>3, Zenon
    <3> QED BY <3>1, <3>2, <3>3, Zenon
  <2> QED BY <2>1, <2>8
<1>5. P = 0..10
  <2>1. P \in SUBSET (0..10) /\ 0 \in Int /\ 10 \in Int
    OBVIOUS
  <2> HIDE DEF P
  <2> QED BY <1>3, <1>4, <2>1, Downwards, Zenon
<1>6. 0 \in 0..10
  OBVIOUS
<1> QED BY <1>5, <1>6, Zenon

(* readAll is that loop, in every state. *)
LEMMA ReadAllLoops ==
    (Stored => ReadAllIs) /\ (Stored => ReadAllIs)'
<1>1. Stored => ReadAllIs
  <2> SUFFICES ASSUME Stored PROVE ReadAllIs
    OBVIOUS
  <2>1. 10 \in Nat /\ \A i \in DOMAIN files : i < 10
    BY DEF Stored, Numbers
  <2>2. /\ readAll = ReadFrom(0) /\ ReadFrom(10) = <<>>
        /\ \A i \in Nat :
              /\ ReadFrom(i) \in Seq(Nat)
              /\ i \in DOMAIN files =>
                    ReadFrom(i) = IF Parse(files[i]).clean THEN Parse(files[i]).rows \o ReadFrom(i + 1)
                                  ELSE Parse(files[i]).rows
              /\ i \notin DOMAIN files => ReadFrom(i) = ReadFrom(i + 1)
    BY <2>1, ReadFromDef, Zenon
  <2> DEFINE g == [i \in 0..10 |-> ReadFrom(i)]
  <2>3. \A i \in 0..9 : i \in Nat /\ i \in 0..10 /\ i + 1 \in 0..10
    OBVIOUS
  <2>4. 0 \in 0..10 /\ 10 \in 0..10 /\ \A i \in 0..10 : i \in Nat
    OBVIOUS
  <2>5. /\ g \in [0..10 -> Seq(Nat)] /\ \A i \in 0..10 : g[i] = ReadFrom(i)
    BY <2>2, <2>4, Zenon
  <2> HIDE DEF g
  <2>6. ASSUME NEW i \in 0..9
        PROVE  g[i] = IF i \in DOMAIN files
                      THEN IF Parse(files[i]).clean THEN Parse(files[i]).rows \o g[i + 1] ELSE Parse(files[i]).rows
                      ELSE g[i + 1]
    BY <2>2, <2>3, <2>5, Zenon
  <2>7. Descends(g, files) /\ readAll = g[0]
    BY <2>2, <2>4, <2>5, <2>6, Zenon DEF Descends
  <2> QED BY <2>7, Zenon DEF ReadAllIs
<1> QED BY <1>1, PTL

(* A step that only adds to the files *)
LEMMA StillRead ==
    ASSUME Stored, Stored', DOMAIN files \subseteq DOMAIN files',
           \A i \in DOMAIN files : Follows(files, files', i),
           \A i \in DOMAIN files' \ DOMAIN files : files'[i] = <<>>
    PROVE  Range(readAll) \subseteq Range(readAll')
<1>1. PICK g : Descends(g, files) /\ readAll = g[0]
  BY ReadAllLoops, Zenon DEF ReadAllIs
<1>2. PICK d : Descends(d, files') /\ readAll' = d[0]
  <2>1. ReadAllIs'
    BY ReadAllLoops, Zenon
  <2> QED BY <2>1, Zenon DEF ReadAllIs
<1>3. PICK f, h : f = files /\ h = files'
  OBVIOUS
<1>4. /\ \A i \in DOMAIN f : f[i] \in Seq(Piece) /\ Follows(f, h, i)
      /\ \A i \in DOMAIN h : h[i] \in Seq(Piece)
  BY <1>3 DEF Stored
<1>6. \A i \in DOMAIN h \ DOMAIN f : Parse(h[i]).clean
  BY <1>3, EmptyParse, Zenon
<1>7. Range(g[0]) \subseteq Range(d[0])
  BY <1>1, <1>2, <1>3, <1>4, <1>6, KeepsReading, ZenonT(60)
<1> QED BY <1>1, <1>2, <1>7, Zenon

LEMMA SameRead ==
    ASSUME Stored, Stored', files' = files
    PROVE  Range(readAll) \subseteq Range(readAll')
<1>1. DOMAIN files \subseteq DOMAIN files' /\ \A i \in DOMAIN files' : i \in DOMAIN files
  OBVIOUS
<1>2. \A i \in DOMAIN files : Follows(files, files', i)
  BY Zenon DEF Follows
<1> QED BY <1>1, <1>2, StillRead, Zenon

(* A new file is empty. *)
LEMMA CreatedRead ==
    ASSUME Stored, Stored', NEW n, files' = Created(files, n)
    PROVE  Range(readAll) \subseteq Range(readAll')
<1>1. /\ DOMAIN files' = DOMAIN files \cup {n}
      /\ \A i \in DOMAIN files : files'[i] = files[i]
      /\ \A i \in DOMAIN files' \ DOMAIN files : files'[i] = <<>>
  BY DEF Created
<1>2. \A i \in DOMAIN files : Follows(files, files', i)
  BY <1>1, Zenon DEF Follows
<1> QED BY <1>1, <1>2, StillRead, Zenon

(* The buffer goes to segment 1: records, or pieces with nothing behind.    *)
LEMMA SpilledRead ==
    ASSUME Stored, Stored', buf \in Seq(Piece), files' = Written(buf), index = 2, Whole(buf) \/ NothingBehind
    PROVE  Range(readAll) \subseteq Range(readAll')
<1>1. PICK f, b : f = files' /\ b = buf
  OBVIOUS
<1>2. \A i \in DOMAIN files : files[i] \in Seq(Piece)
  BY DEF Stored
<1>3. /\ DOMAIN f = DOMAIN files
      /\ \A i \in DOMAIN files : (i = Active => f[i] = files[i] \o b) /\ (i # Active => f[i] = files[i])
  BY <1>1, WrittenFacts, ZenonT(60)
<1>4. Active = 1
  BY DEF Active
<1>5. ASSUME NEW i \in DOMAIN files PROVE Follows(files, f, i)
  <2>1. CASE i # Active
    BY <1>3, <2>1, Zenon DEF Follows
  <2>2. CASE i = Active
    <3>1. f[i] = files[i] \o b /\ files[i] \in Seq(Piece) /\ b \in Seq(Piece)
      BY <1>1, <1>2, <1>3, <2>2, Zenon
    <3>2. CASE Whole(buf)
      <4>1. ReadOn(files[i], f[i])
        BY <1>1, <3>1, <3>2, ReadOnConcat, Zenon
      <4> QED BY <4>1, Zenon DEF ReadOn, Follows
    <3>3. CASE NothingBehind
      <4>1. Last(files, i)
        BY <1>4, <2>2, <3>3, Zenon DEF NothingBehind, Last
      <4>2. Range(Parse(files[i]).rows) \subseteq Range(Parse(f[i]).rows)
        BY <3>1, MoreRead, Zenon
      <4> QED BY <4>1, <4>2, Zenon DEF Follows
    <3> QED BY <3>2, <3>3
  <2> QED BY <2>1, <2>2
<1> QED BY <1>1, <1>3, <1>5, StillRead, Zenon

(* Behind segment 1 a recovery changes nothing. *)
LEMMA NothingBehindBefore ==
    ASSUME Log, DOMAIN files \subseteq DOMAIN files',
           \A i \in DOMAIN files : i > 1 => files'[i] = files[i]
    PROVE  NothingBehind' => NothingBehind
  BY Zenon DEF NothingBehind

(* Open: the rows are found in the files it leaves. *)
LEMMA OpenRepeats ==
    ASSUME Log, Stored', Open
    PROVE  Repeatable'
<1>1. Inv /\ Stored
  BY LogFacts
<1>2. PICK found \in Seq(Nat) :
          /\ found = readAll \/ found = Append(readAll, NobodysRow)
          /\ found = <<>> => readAll = <<>> /\ phase' = "open" /\ op' = op
          /\ found # <<>> => phase' = "recovering" /\ op' = [pc |-> "create", rows |-> found, rest |-> <<>>]
  BY <1>1, OpenFound, Zenon
<1>3. CASE found = <<>>
  BY <1>2, <1>3 DEF Repeatable, RecoveryKeeps
<1>4. CASE found # <<>>
  <2>1. op'.pc # "write" /\ op'.rows = found /\ index' = 1
    BY <1>2, <1>4 DEF Open
  <2>2. Range(readAll) \subseteq Range(readAll')
    <3>1. files' = Created(files, 0)
      BY DEF Open
    <3> QED BY <1>1, <3>1, CreatedRead, Zenon
  <2>3. Range(found) \ {NobodysRow} \subseteq Range(readAll)
    <3>1. PICK r : r = readAll
      OBVIOUS
    <3>2. r \in Seq(Nat) /\ (found = r \/ found = Append(r, NobodysRow))
      BY <1>1, <1>2, <3>1, FoundType, Zenon
    <3>3. Range(Append(r, NobodysRow)) = Range(r) \cup {NobodysRow}
      <4>1. NobodysRow \in Nat
        BY DEF NobodysRow
      <4> QED BY <3>2, <4>1, RangeAppend
    <3> QED BY <3>1, <3>2, <3>3, Zenon
  <2>4. Again'
    BY <2>1, <2>2, <2>3, Zenon DEF Again
  <2> QED BY <2>1, <2>4, Zenon DEF Repeatable, RecoveryKeeps
<1> QED BY <1>3, <1>4, SMTT(30)

(* createSegmentFile: they are there still, and are about to be appended.   *)
LEMMA CreateRepeats ==
    ASSUME Log, Stored', Repeatable, createSegmentFile
    PROVE  Repeatable'
<1>1. Stored /\ op.rows \in Seq(Nat) /\ index \in Nat
  BY LogFacts
<1>2. /\ op.pc = "create" /\ files' = Created(files, index) /\ buf' = <<>> /\ setting' = setting /\ index' = index + 1
      /\ op.rows = <<>> => phase' = "open"
      /\ op.rows # <<>> => /\ op' = [pc |-> "write", rows |-> op.rows, rest |-> Encoded(op.rows)]
                           /\ phase' = phase
  BY DEF createSegmentFile
<1> SUFFICES ASSUME phase' = "recovering" PROVE Repeatable'
  BY Zenon DEF Repeatable, RecoveryKeeps
<1>3. op.rows # <<>> /\ phase = "recovering"
  BY <1>2, Zenon
<1>4. op'.pc = "write" /\ op'.rows = op.rows /\ op'.rest = Encoded(op.rows)
  BY <1>2, <1>3
<1>5. index = 1 /\ index' = 2
  <2>1. index = 1
    BY <1>2, <1>3, Zenon DEF Repeatable
  <2> QED BY <1>2, <2>1
<1>6. Codes(buf' \o op'.rest, op'.rows)
  <2>1. PICK e : e = Encoded(op.rows)
    OBVIOUS
  <2>2. e \in Seq(Piece) /\ Codes(e, op.rows)
    BY <1>1, <2>1, EncodedCodes, Zenon
  <2>3. <<>> \o e = e
    BY <2>2, ConcatForms
  <2> QED BY <1>2, <1>4, <2>1, <2>2, <2>3, Zenon
<1>7. ASSUME setting'.writeThrough, Fits' \/ NothingBehind' PROVE Again'
  <2>1. DOMAIN files \subseteq DOMAIN files' /\ \A i \in DOMAIN files : files'[i] = files[i]
    BY <1>2 DEF Created
  <2>2. Fits \/ NothingBehind
    BY <1>2, <1>4, <1>7, <2>1, NothingBehindBefore, Zenon DEF Fits
  <2>3. Again
    BY <1>2, <1>3, <1>7, <2>2, Zenon DEF Repeatable, RecoveryKeeps
  <2>4. Range(readAll) \subseteq Range(readAll')
    BY <1>1, <1>2, CreatedRead, Zenon
  <2> QED BY <1>4, <2>3, <2>4, Zenon DEF Again
<1> QED BY <1>4, <1>5, <1>6, <1>7, Zenon DEF Repeatable, RecoveryKeeps

(* What reaches segment 1, spilled or flushed, keeps what is read. *)
LEMMA SpillKeeps ==
    ASSUME Log, Stored', Repeatable, phase = "recovering", op.pc = "write", files' = Written(buf),
           setting' = setting, phase' = phase, op'.rows = op.rows, Fits => Whole(buf)
    PROVE  RecoveryKeeps'
<1>1. /\ Inv /\ Stored /\ buf \in Seq(Piece)
      /\ \A i \in DOMAIN files : i \in Nat /\ files[i] \in Seq(Piece)
  BY LogFacts
<1>2. index = 2
  BY Zenon DEF Repeatable
<1>3. DOMAIN files' = DOMAIN files /\ \A i \in DOMAIN files : i > 1 => files'[i] = files[i]
  <2>1. /\ DOMAIN Written(buf) = DOMAIN files
        /\ \A i \in DOMAIN files : i # Active => Written(buf)[i] = files[i]
    BY <1>1, WrittenFacts, Zenon
  <2>2. \A i \in DOMAIN files : i > 1 => i # Active
    BY <1>1, <1>2 DEF Active
  <2> QED BY <2>1, <2>2, Zenon
<1> SUFFICES ASSUME setting.writeThrough, Fits' \/ NothingBehind' PROVE Again'
  BY Zenon DEF RecoveryKeeps
<1>4. Fits \/ NothingBehind
  <2>1. DOMAIN files \subseteq DOMAIN files'
    BY <1>3, Zenon
  <2>2. NothingBehind' => NothingBehind
    BY <1>3, <2>1, NothingBehindBefore, Zenon
  <2>3. Fits' => Fits
    BY Zenon DEF Fits
  <2> QED BY <2>2, <2>3, Zenon
<1>5. Again
  BY <1>4, Zenon DEF Repeatable, RecoveryKeeps
<1>6. Range(readAll) \subseteq Range(readAll')
  BY <1>1, <1>2, <1>4, SpilledRead, Zenon
<1> QED BY <1>5, <1>6, Zenon DEF Again

(* Write: records that fit the buffer do not fill it before the last piece. *)
LEMMA WriteRepeats ==
    ASSUME Log, Stored', Repeatable, Write
    PROVE  Repeatable'
<1>1. /\ Inv /\ Stored /\ setting \in Settings /\ buf \in Seq(Piece) /\ op.rest \in Seq(Piece) /\ op.rows \in Seq(Nat)
  BY LogFacts
<1>2. /\ op.pc = "write" /\ op.rest # <<>> /\ op' = [op EXCEPT !.rest = Tail(@)]
      /\ setting' = setting /\ phase' = phase /\ index' = index
  BY DEF Write
<1>3. op'.rows = op.rows /\ op'.rest = Tail(op.rest) /\ op'.pc = "write"
  BY <1>1, <1>2 DEF Inv
<1> SUFFICES ASSUME phase = "recovering" PROVE Repeatable'
  BY <1>2, Zenon DEF Repeatable, RecoveryKeeps
<1>4. index' = 2 /\ (Fits' => Fits) /\ (Fits => Codes(buf \o op.rest, op.rows))
  <2>1. index = 2 /\ (Fits => Codes(buf \o op.rest, op.rows))
    BY <1>2, Zenon DEF Repeatable
  <2>2. Fits' => Fits
    BY <1>2, <1>3, Zenon DEF Fits
  <2> QED BY <1>2, <2>1, <2>2, Zenon
<1>5. PICK b, r, h, t : b = buf /\ r = op.rest /\ h = Head(op.rest) /\ t = Tail(op.rest)
  BY Zenon
<1>6. b \in Seq(Piece) /\ r \in Seq(Piece) /\ r # <<>> /\ h = Head(r) /\ t = Tail(r)
  BY <1>1, <1>2, <1>5, Zenon
<1>7. Append(b, h) \o t = b \o r
  BY <1>6, HeadTail, SMTT(30)
<1>8. CASE Len(buf) = setting.capacity
  <2>1. files' = Written(buf)
    BY <1>8 DEF Write
  <2>2. ~ Fits
    <3> SUFFICES ASSUME Fits PROVE FALSE
      OBVIOUS
    <3>1. Len(b \o r) = 2 * Len(op.rows)
      BY <1>4, <1>5, Zenon DEF Codes
    <3>2. Len(b \o r) = Len(b) + Len(r) /\ Len(b) \in Nat /\ Len(r) \in Nat /\ Len(r) # 0
      BY <1>6
    <3>3. Len(b \o r) <= Len(b)
      BY <1>5, <1>8, <3>1, Zenon DEF Fits
    <3> QED BY <3>2, <3>3
  <2>3. RecoveryKeeps'
    BY <1>2, <1>3, <2>1, <2>2, SpillKeeps, Zenon
  <2> QED BY <1>3, <1>4, <2>2, <2>3, Zenon DEF Repeatable
<1>9. CASE Len(buf) # setting.capacity
  <2>1. files' = files /\ buf' = Append(b, h)
    BY <1>5, <1>9 DEF Write
  <2>2. Fits' => Codes(buf' \o op'.rest, op'.rows)
    BY <1>3, <1>4, <1>5, <1>7, <2>1, ZenonT(60)
  <2>3. RecoveryKeeps'
    <3>1. Range(readAll) \subseteq Range(readAll')
      BY <1>1, <2>1, SameRead, Zenon
    <3>2. NothingBehind' => NothingBehind
      BY <2>1, Zenon DEF NothingBehind
    <3>3. Again => Again'
      BY <1>3, <3>1, Zenon DEF Again
    <3> QED BY <1>2, <1>4, <3>2, <3>3, Zenon DEF Repeatable, RecoveryKeeps
  <2> QED BY <1>3, <1>4, <2>2, <2>3, ZenonT(60) DEF Repeatable
<1> QED BY <1>8, <1>9

(* append returns: records that fit the buffer are flushed together. *)
LEMMA AppendReturnsRepeats ==
    ASSUME Log, Stored', Repeatable, AppendReturns
    PROVE  Repeatable'
<1>1. Inv /\ Stored /\ buf \in Seq(Piece) /\ op.rows \in Seq(Nat)
  BY LogFacts
<1>2. /\ op.pc = "write" /\ op.rest = <<>> /\ setting' = setting /\ phase' = phase
      /\ setting.writeThrough => files' = Written(buf)
      /\ phase # "open" => op' = [op EXCEPT !.pc = "refresh"]
  BY DEF AppendReturns
<1> SUFFICES ASSUME phase = "recovering" PROVE Repeatable'
  BY <1>2, Zenon DEF Repeatable, RecoveryKeeps
<1>3. op'.pc = "refresh" /\ op'.rows = op.rows
  BY <1>1, <1>2 DEF Inv
<1>4. RecoveryKeeps'
  <2>1. CASE ~ setting.writeThrough
    BY <1>2, <2>1, Zenon DEF RecoveryKeeps
  <2>2. CASE setting.writeThrough
    <3>1. ASSUME Fits PROVE Whole(buf)
      <4>1. Codes(buf \o <<>>, op.rows)
        BY <1>2, <3>1, Zenon DEF Repeatable
      <4>2. buf \o <<>> = buf
        BY <1>1, ConcatForms, Zenon
      <4> QED BY <1>1, <4>1, <4>2, Zenon DEF Whole
    <3> QED BY <1>2, <1>3, <2>2, <3>1, SpillKeeps, Zenon
  <2> QED BY <2>1, <2>2
<1> QED BY <1>3, <1>4, Zenon DEF Repeatable

(* The other steps end the recovery, or have no rows to append again. *)
LEMMA StepRepeats ==
    ASSUME Log, Log', Repeatable, [Next]_vars
    PROVE  Repeatable'
<1>1. Stored /\ Stored' /\ Inv
  BY LogFacts DEF Log, Typing
<1>2. CASE (\E n \in 1..MaxBatch : append(n)) \/ removeOldest \/ punctuate \/ Close \/ Crash \/ OpenFails
  <2>1. phase' # "recovering"
    BY <1>2, Zenon DEF append, removeOldest, punctuate, Close, Crash, OpenFails
  <2> QED BY <2>1, Zenon DEF Repeatable, RecoveryKeeps
<1>3. CASE refresh
  <2>1. op'.pc = "create" /\ op'.rows = <<>>
    BY <1>3 DEF refresh, NoOp
  <2>2. Range(<<>>) = {}
    BY DEF Range
  <2>3. Again'
    BY <2>1, <2>2, Zenon DEF Again
  <2> QED BY <2>1, <2>3, Zenon DEF Repeatable, RecoveryKeeps
<1>4. CASE UNCHANGED vars
  <2>1. files' = files /\ setting' = setting /\ buf' = buf /\ op' = op /\ phase' = phase /\ index' = index
    BY <1>4 DEF vars
  <2>2. Range(readAll) \subseteq Range(readAll')
    BY <1>1, <2>1, SameRead, Zenon
  <2>3. (NothingBehind' => NothingBehind) /\ (Fits' => Fits) /\ (Again => Again')
    BY <2>1, <2>2, Zenon DEF NothingBehind, Fits, Again
  <2>4. RecoveryKeeps'
    BY <2>1, <2>3, Zenon DEF RecoveryKeeps, Repeatable
  <2> QED BY <2>1, <2>3, <2>4, ZenonT(60) DEF Repeatable
<1> QED BY <1>1, <1>2, <1>3, <1>4, OpenRepeats, CreateRepeats, WriteRepeats, AppendReturnsRepeats, ZenonT(60)
        DEF Next, Finished

(* Written through, a crash in the middle of a recovery loses nothing of    *)
(* what it had read: the next one reads it again, wherever the buffer       *)
(* spills, if the records fit the buffer together or no segment behind the  *)
(* first two holds any.  Without the condition TLC finds a recovery whose   *)
(* rows are not read again.                                                 *)
THEOREM RecoveryIsRepeatable ==
    ASSUME Roomy PROVE Spec => []RecoveryKeeps
<1>1. Init => Log /\ Repeatable
  <2>1. Init => Log
    BY LogBegins
  <2>2. Init => phase = "open"
    BY DEF Init
  <2>3. phase = "open" => Repeatable
    BY DEF Repeatable, RecoveryKeeps
  <2> QED BY <2>1, <2>2, <2>3, Zenon
<1>2. Log /\ Repeatable /\ [Next]_vars => (Log /\ Repeatable)'
  <2> SUFFICES ASSUME Log, Repeatable, [Next]_vars PROVE Log' /\ Repeatable'
    OBVIOUS
  <2>2. Log'
    BY LogStep
  <2> QED BY <2>2, StepRepeats, SMTT(30)
<1>3. Log /\ Repeatable => RecoveryKeeps
  BY Zenon DEF Repeatable
<1> QED BY <1>1, <1>2, <1>3, PTL DEF Spec

=============================================================================
