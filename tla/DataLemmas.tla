----------------------------- MODULE DataLemmas ----------------------------
(* Induction and recursion on the natural numbers, in a form whose          *)
(* parameters are sets and functions, so that every prover can use them,    *)
(* and with it what encodeAllPoints returns for any points; and the order of *)
(* the names of segments.                                                   *)
EXTENDS EncodeAllPoints, SegmentNames, WellFoundedInduction, TLAPS

(* A set of natural numbers that is not empty has a least element. *)
LEMMA NatMin ==
    ASSUME NEW T \in SUBSET Nat, T # {}
    PROVE  \E x \in T : \A y \in T : x <= y
<1> DEFINE R == OpToRel(<, Nat)
<1>1. IsWellFoundedOn(R, Nat)
  BY NatLessThanWellFounded, Zenon
<1>2. \A x, y \in Nat : x < y => <<x, y>> \in R
  BY DEF OpToRel
<1> HIDE DEF R
<1>3. PICK x \in T : \A y \in T : ~ (<<y, x>> \in R)
  BY <1>1, WFMin, Zenon
<1>4. \A y \in T : ~ (y < x)
  BY <1>2, <1>3, Zenon
<1> QED BY <1>4

(* A set that has 0 and with each number the next one has them all. *)
LEMMA SetInduction ==
    ASSUME NEW S \in SUBSET Nat, 0 \in S, \A n \in S : n + 1 \in S
    PROVE  S = Nat
<1>1. SUFFICES ASSUME Nat \ S # {} PROVE FALSE
  BY Zenon
<1>2. PICK m \in Nat \ S : \A y \in Nat \ S : m <= y
  BY <1>1, NatMin, Zenon
<1>3. m - 1 \in Nat /\ m - 1 \notin Nat \ S
  BY <1>2
<1>4. (m - 1) + 1 \in S
  BY <1>3
<1> QED BY <1>2, <1>4

(* What holds at x whenever it holds at all places of a lower rank holds    *)
(* everywhere: P is the set of places where it holds.                       *)
LEMMA RankInduction ==
    ASSUME NEW D, NEW rank \in [D -> Nat], NEW P \in SUBSET D,
           \A x \in D : (\A y \in D : rank[y] < rank[x] => y \in P) => x \in P
    PROVE  P = D
<1>1. SUFFICES ASSUME NEW z \in D, z \notin P PROVE FALSE
  OBVIOUS
<1> DEFINE T == {rank[x] : x \in D \ P}
<1>2. T \in SUBSET Nat /\ T # {}
  BY <1>1
<1>3. PICK k \in T : \A j \in T : k <= j
  <2> HIDE DEF T
  <2> QED BY <1>2, NatMin
<1>4. PICK x \in D \ P : rank[x] = k
  BY <1>3
<1>5. ASSUME NEW y \in D, rank[y] < rank[x] PROVE y \in P
  <2>1. SUFFICES ASSUME y \notin P PROVE FALSE
    OBVIOUS
  <2>2. rank[y] \in T
    BY <2>1
  <2>3. k <= rank[y]
    BY <1>3, <2>2
  <2> QED BY <1>4, <1>5, <2>3
<1> QED BY <1>4, <1>5

(* The same, with its hypotheses under one name *)
Inductive(D, rank, P) ==
    /\ rank \in [D -> Nat] /\ P \in SUBSET D
    /\ \A x \in D : (\A y \in D : rank[y] < rank[x] => y \in P) => x \in P

(* Well-founded induction in the form that the other proofs cite. *)
LEMMA RankInduct ==
    ASSUME NEW D, NEW rank, NEW P, Inductive(D, rank, P)
    PROVE  P = D
<1>1. /\ rank \in [D -> Nat] /\ P \in SUBSET D
      /\ \A x \in D : (\A y \in D : rank[y] < rank[x] => y \in P) => x \in P
  BY DEF Inductive
<1> QED BY <1>1, RankInduction

(* What a recursive definition says of a place only depends on places of a  *)
(* lower rank: F[<<g, x>>] is what it gives at x when g stands for the      *)
(* function that is defined.                                                *)
AgreeBelow(D, rank, g, h, x) == \A y \in D : rank[y] < rank[x] => g[y] = h[y]

Recursive(D, V, rank, F) ==
    /\ V # {} /\ F \in [[D -> V] \X D -> V]
    /\ \A g, h \in [D -> V] : \A x \in D :
          AgreeBelow(D, rank, g, h, x) => F[<<g, x>>] = F[<<h, x>>]

Solvable(D, V, F) == \E f \in [D -> V] : \A x \in D : f[x] = F[<<f, x>>]

(* Such a definition has a solution, if the ranks are bounded. *)
LEMMA RecursionSolvable ==
    ASSUME NEW D, NEW V, NEW N \in Nat, NEW rank, NEW F,
           rank \in [D -> 0..N], Recursive(D, V, rank, F)
    PROVE  Solvable(D, V, F)
<1> USE DEF Recursive, Solvable
<1> DEFINE Upto(f, m) == \A x \in D : rank[x] < m => f[x] = F[<<f, x>>]
           S == {m \in Nat : \E f \in [D -> V] : Upto(f, m)}
<1>1. 0 \in S
  <2>1. PICK v \in V : TRUE
    OBVIOUS
  <2>2. [x \in D |-> v] \in [D -> V]
    OBVIOUS
  <2>3. \A x \in D : ~ (rank[x] < 0)
    OBVIOUS
  <2> QED BY <2>2, <2>3, Zenon
<1>2. ASSUME NEW m \in S PROVE m + 1 \in S
  <2>1. PICK g \in [D -> V] : Upto(g, m)
    OBVIOUS
  <2>2. m \in Nat
    OBVIOUS
  <2> DEFINE h == [x \in D |-> F[<<g, x>>]]
  <2>3. h \in [D -> V]
    OBVIOUS
  <2>4. \A x \in D : h[x] = F[<<g, x>>]
    OBVIOUS
  <2> HIDE DEF h
  <2>5. ASSUME NEW x \in D, rank[x] < m + 1 PROVE h[x] = F[<<h, x>>]
    <3>1. ASSUME NEW y \in D, rank[y] < rank[x] PROVE g[y] = h[y]
      <4>1. rank[y] < m
        BY <2>2, <2>5, <3>1
      <4> QED BY <2>1, <2>4, <4>1, Zenon
    <3>2. AgreeBelow(D, rank, g, h, x)
      BY <3>1 DEF AgreeBelow
    <3> QED BY <2>3, <2>4, <3>2, Zenon
  <2> QED BY <2>2, <2>3, <2>5
<1> HIDE DEF S
<1>3. S \subseteq Nat
  BY DEF S
<1>4. N + 1 \in S
  BY <1>1, <1>2, <1>3, SetInduction
<1>5. PICK f \in [D -> V] : Upto(f, N + 1)
  BY <1>4, Zenon DEF S
<1>6. \A x \in D : rank[x] < N + 1
  OBVIOUS
<1> QED BY <1>5, <1>6

(* A function that a walk along next defines, ranks going down, exists. *)
Downward(n, next, N, rank) ==
    /\ n \in Nat /\ next \in [1..n -> 0..n] /\ N \in Nat /\ rank \in [0..n -> 0..N]
    /\ \A k \in 1..n : rank[next[k]] < rank[k]
Stepping(n, V, base, step) == base \in V /\ step \in [(1..n) \X V -> V]
Walks(f, n, next, V, base, step) ==
    /\ f \in [0..n -> V] /\ f[0] = base
    /\ \A k \in 1..n : f[k] = step[<<k, f[next[k]]>>]

(* Such a walk over the places of a list has a value at every place. *)
LEMMA WalkExists ==
    ASSUME NEW n, NEW next, NEW N, NEW rank, Downward(n, next, N, rank),
           NEW V, NEW base, NEW step, Stepping(n, V, base, step)
    PROVE  \E f : Walks(f, n, next, V, base, step)
<1> USE DEF Downward, Stepping
<1> DEFINE D == 0..n
           R(g, k) == IF k = 0 THEN base ELSE step[<<k, g[next[k]]>>]
           F == [p \in [D -> V] \X D |-> R(p[1], p[2])]
<1>0. \A k \in D : k # 0 => k \in 1..n /\ next[k] \in D
  OBVIOUS
<1> HIDE DEF D
<1>1. ASSUME NEW g \in [D -> V], NEW k \in D PROVE R(g, k) \in V
  BY <1>0
<1>2. F \in [[D -> V] \X D -> V]
  <2> HIDE DEF R
  <2> QED BY <1>1
<1>3. ASSUME NEW g \in [D -> V], NEW h \in [D -> V], NEW k \in D, AgreeBelow(D, rank, g, h, k)
      PROVE  R(g, k) = R(h, k)
  <2>1. k # 0 => g[next[k]] = h[next[k]]
    BY <1>0, <1>3 DEF AgreeBelow
  <2> QED BY <2>1, Zenon
<1>4. \A g, h \in [D -> V] : \A k \in D : AgreeBelow(D, rank, g, h, k) => F[<<g, k>>] = F[<<h, k>>]
  <2> HIDE DEF R
  <2> QED BY <1>3, Zenon
<1>5. Recursive(D, V, rank, F)
  <2> HIDE DEF F
  <2> QED BY <1>2, <1>4, Zenon DEF Recursive
<1>6. PICK f \in [D -> V] : \A k \in D : f[k] = F[<<f, k>>]
  <2>1. rank \in [D -> 0..N]
    BY DEF D
  <2> HIDE DEF F
  <2>2. Solvable(D, V, F)
    BY <1>5, <2>1, RecursionSolvable
  <2> QED BY <2>2, Zenon DEF Solvable
<1>7. \A k \in D : f[k] = R(f, k)
  <2> HIDE DEF R
  <2> QED BY <1>6, Zenon
<1>8. 0 \in D /\ \A k \in 1..n : k \in D /\ k # 0
  BY DEF D
<1> QED BY <1>7, <1>8, Zenon DEF D, Walks

(* The same for a loop over 1..n *)
LEMMA LoopExists ==
    ASSUME NEW n \in Nat, NEW V, NEW base, NEW step, Stepping(n, V, base, step)
    PROVE  \E f \in [0..n -> V] : f[0] = base /\ \A k \in 1..n : f[k] = step[<<k, f[k - 1]>>]
<1> DEFINE next == [k \in 1..n |-> k - 1]
           rank == [k \in 0..n |-> k]
<1>1. Downward(n, next, n, rank)
  BY DEF Downward
<1>2. \A k \in 1..n : next[k] = k - 1
  OBVIOUS
<1> HIDE DEF next, rank
<1>3. PICK f : Walks(f, n, next, V, base, step)
  BY <1>1, WalkExists
<1>4. f \in [0..n -> V] /\ f[0] = base /\ \A k \in 1..n : f[k] = step[<<k, f[next[k]]>>]
  BY <1>3 DEF Walks
<1> QED BY <1>2, <1>4

(* A set of natural numbers with a bound has a largest element. *)
LEMMA NatMax ==
    ASSUME NEW T \in SUBSET Nat, T # {}, NEW B \in Nat, \A x \in T : x <= B
    PROVE  \E x \in T : \A y \in T : y <= x
<1> DEFINE U == {B - x : x \in T}
<1>1. U \in SUBSET Nat /\ U # {}
  <2>1. \A x \in T : B - x \in Nat
    OBVIOUS
  <2>2. PICK x \in T : TRUE
    BY Zenon
  <2>3. B - x \in U
    OBVIOUS
  <2> QED BY <2>1, <2>3
<1>2. PICK u \in U : \A v \in U : u <= v
  <2> HIDE DEF U
  <2> QED BY <1>1, NatMin
<1>3. PICK x \in T : u = B - x
  BY <1>2
<1>4. ASSUME NEW y \in T PROVE y <= x
  <2>1. B - y \in U
    OBVIOUS
  <2>2. u <= B - y
    BY <1>2, <2>1
  <2> QED BY <1>3, <2>2
<1> QED BY <1>4

(* The elements of a sequence have a bound. *)
LEMMA SeqBounded ==
    ASSUME NEW b \in Seq(Int)
    PROVE  \E B \in Nat : \A k \in 1..Len(b) : b[k] <= B
<1> DEFINE S == {n \in Nat : n <= Len(b) => \E B \in Nat : \A k \in 1..n : b[k] <= B}
<1>1. 0 \in S
  <2>1. \A k \in 1..0 : b[k] <= 0
    OBVIOUS
  <2> QED BY <2>1
<1>2. ASSUME NEW n \in S PROVE n + 1 \in S
  <2>1. SUFFICES ASSUME n + 1 <= Len(b) PROVE \E B \in Nat : \A k \in 1..(n + 1) : b[k] <= B
    OBVIOUS
  <2>2. n \in Nat /\ n <= Len(b) /\ n + 1 \in 1..Len(b)
    BY <2>1
  <2>3. PICK B \in Nat : \A k \in 1..n : b[k] <= B
    BY <1>2, <2>2
  <2>4. b[n + 1] \in Int
    BY <2>2
  <2>5. CASE b[n + 1] <= B
    <3>1. ASSUME NEW k \in 1..(n + 1) PROVE b[k] <= B
      <4>1. k = n + 1 \/ k \in 1..n
        BY <2>2
      <4> QED BY <2>3, <2>5, <4>1
    <3> QED BY <3>1, Zenon
  <2>6. CASE b[n + 1] > B
    <3>1. b[n + 1] \in Nat /\ \A k \in 1..(n + 1) : b[k] <= b[n + 1]
      <4>1. ASSUME NEW k \in 1..(n + 1) PROVE b[k] <= b[n + 1]
        <5>1. CASE k = n + 1
          BY <2>4, <5>1
        <5>2. CASE k \in 1..n
          <6>1. b[k] <= B /\ b[k] \in Int
            BY <2>2, <2>3, <5>2
          <6> QED BY <2>4, <2>6, <6>1
        <5> QED BY <2>2, <5>1, <5>2
      <4> QED BY <2>4, <2>6, <4>1
    <3> QED BY <3>1, Zenon
  <2>7. b[n + 1] <= B \/ b[n + 1] > B
    BY <2>4
  <2> QED BY <2>5, <2>6, <2>7, Zenon
<1>3. S = Nat
  <2>1. S \in SUBSET Nat
    OBVIOUS
  <2> HIDE DEF S
  <2> QED BY <1>1, <1>2, <2>1, SetInduction, Zenon
<1>4. Len(b) \in Nat /\ Len(b) <= Len(b)
  OBVIOUS
<1>5. Len(b) \in S
  <2> HIDE DEF S
  <2> QED BY <1>3, <1>4
<1> QED BY <1>4, <1>5

(* What is in a sequence after one element in front *)
LEMMA RangeCons ==
    ASSUME NEW S, NEW x \in S, NEW s \in Seq(S)
    PROVE  Range(<<x>> \o s) = {x} \cup Range(s)
<1> DEFINE t == <<x>> \o s
<1>1. t \in Seq(S) /\ Len(t) = Len(s) + 1 /\ t[1] = x /\ \A k \in 1..Len(s) : t[k + 1] = s[k]
  OBVIOUS
<1> HIDE DEF t
<1>2. DOMAIN t = 1..(Len(s) + 1) /\ DOMAIN s = 1..Len(s) /\ Len(s) \in Nat
  BY <1>1
<1>3. Range(t) \subseteq {x} \cup Range(s)
  <2>1. SUFFICES ASSUME NEW k \in 1..(Len(s) + 1) PROVE t[k] \in {x} \cup Range(s)
    BY <1>2 DEF Range
  <2>2. CASE k = 1
    BY <1>1, <2>2
  <2>3. CASE k # 1
    <3>1. k - 1 \in 1..Len(s) /\ t[(k - 1) + 1] = s[k - 1] /\ (k - 1) + 1 = k
      BY <1>1, <1>2, <2>3
    <3> QED BY <1>2, <3>1 DEF Range
  <2> QED BY <2>2, <2>3
<1>4. ASSUME NEW k \in 1..Len(s) PROVE s[k] \in Range(t)
  <2>1. k + 1 \in DOMAIN t
    BY <1>2
  <2> QED BY <1>1, <2>1 DEF Range
<1>5. x \in Range(t)
  <2>1. 1 \in DOMAIN t
    BY <1>2
  <2> QED BY <1>1, <2>1 DEF Range
<1>6. {x} \cup Range(s) \subseteq Range(t)
  BY <1>2, <1>4, <1>5 DEF Range
<1> QED BY <1>3, <1>6 DEF t

(* ... and after one at the end *)
LEMMA RangeAppend ==
    ASSUME NEW S, NEW s \in Seq(S), NEW x \in S
    PROVE  Range(Append(s, x)) = Range(s) \cup {x}
<1> DEFINE t == Append(s, x)
<1>1. /\ t \in Seq(S) /\ Len(t) = Len(s) + 1 /\ t[Len(s) + 1] = x
      /\ \A k \in 1..Len(s) : t[k] = s[k]
  OBVIOUS
<1> HIDE DEF t
<1>2. DOMAIN t = 1..(Len(s) + 1) /\ DOMAIN s = 1..Len(s) /\ Len(s) \in Nat
  BY <1>1
<1>3. \A k \in 1..(Len(s) + 1) : k = Len(s) + 1 \/ k \in 1..Len(s)
  BY <1>2
<1>4. Range(t) \subseteq Range(s) \cup {x}
  BY <1>1, <1>2, <1>3 DEF Range
<1>5. ASSUME NEW k \in 1..Len(s) PROVE s[k] \in Range(t)
  <2>1. k \in DOMAIN t
    BY <1>2
  <2> QED BY <1>1, <2>1 DEF Range
<1>6. x \in Range(t)
  <2>1. Len(s) + 1 \in DOMAIN t
    BY <1>2
  <2> QED BY <1>1, <2>1 DEF Range
<1>7. Range(s) \cup {x} \subseteq Range(t)
  BY <1>2, <1>5, <1>6 DEF Range
<1> QED BY <1>4, <1>7 DEF t

(* ... and of two of them *)
LEMMA RangeConcat ==
    ASSUME NEW S, NEW s \in Seq(S), NEW t \in Seq(S)
    PROVE  Range(s \o t) = Range(s) \cup Range(t)
<1> DEFINE u == s \o t
<1>1. /\ u \in Seq(S) /\ Len(u) = Len(s) + Len(t) /\ \A k \in 1..Len(s) : u[k] = s[k]
      /\ \A k \in 1..Len(t) : u[Len(s) + k] = t[k]
  OBVIOUS
<1> HIDE DEF u
<1>2. /\ DOMAIN u = 1..(Len(s) + Len(t)) /\ DOMAIN s = 1..Len(s) /\ DOMAIN t = 1..Len(t)
      /\ Len(s) \in Nat /\ Len(t) \in Nat
  BY <1>1
<1>3. ASSUME NEW k \in DOMAIN u PROVE u[k] \in Range(s) \cup Range(t)
  <2>1. CASE k \in 1..Len(s)
    BY <1>1, <1>2, <2>1 DEF Range
  <2>2. CASE k \notin 1..Len(s)
    <3>1. k - Len(s) \in 1..Len(t) /\ Len(s) + (k - Len(s)) = k
      BY <1>2, <2>2
    <3>2. u[k] = t[k - Len(s)]
      BY <1>1, <3>1
    <3> QED BY <1>2, <3>1, <3>2 DEF Range
  <2> QED BY <2>1, <2>2
<1>4. ASSUME NEW k \in 1..Len(s) PROVE s[k] \in Range(u)
  <2>1. k \in DOMAIN u
    BY <1>2
  <2> QED BY <1>1, <2>1 DEF Range
<1>5. ASSUME NEW k \in 1..Len(t) PROVE t[k] \in Range(u)
  <2>1. Len(s) + k \in DOMAIN u
    BY <1>2
  <2> QED BY <1>1, <2>1 DEF Range
<1> QED BY <1>2, <1>3, <1>4, <1>5 DEF Range, u

-----------------------------------------------------------------------------
(* sort.Slice *)

Sorts(p, f, n) ==
    /\ p \in [1..n -> 1..n]
    /\ \A j, k \in 1..n : p[j] = p[k] => j = k
    /\ \A m \in 1..n : \E k \in 1..n : p[k] = m
    /\ \A j, k \in 1..n : j < k => f[p[j]] <= f[p[k]]

(* One more element goes in front of the first that is larger. *)
LEMMA SortOneMore ==
    ASSUME NEW n \in Nat, NEW f \in [1..(n + 1) -> Int], NEW p, Sorts(p, f, n)
    PROVE  \E q : Sorts(q, f, n + 1)
<1>0. /\ \A a \in 1..n : p[a] \in 1..n /\ p[a] \in 1..(n + 1) /\ f[p[a]] \in Int
      /\ n + 1 \in 1..(n + 1) /\ f[n + 1] \in Int
      /\ \A a, b \in 1..n : p[a] = p[b] => a = b
      /\ \A a, b \in 1..n : a < b => f[p[a]] <= f[p[b]]
  <2>1. p \in [1..n -> 1..n]
    BY DEF Sorts
  <2>2. \A a \in 1..n : p[a] \in 1..n
    BY <2>1
  <2>3. 1..n \subseteq 1..(n + 1) /\ n + 1 \in 1..(n + 1)
    OBVIOUS
  <2>4. \A a \in 1..n : p[a] \in 1..(n + 1) /\ f[p[a]] \in Int
    BY <2>2, <2>3
  <2> QED BY <2>2, <2>3, <2>4, Zenon DEF Sorts
<1> DEFINE T == {k \in 1..(n + 1) : k = n + 1 \/ (k <= n /\ f[p[k]] > f[n + 1])}
<1>1. PICK m \in T : \A k \in T : m <= k
  <2>1. T \in SUBSET Nat /\ n + 1 \in T
    BY <1>0
  <2> HIDE DEF T
  <2> QED BY <2>1, NatMin, Zenon
<1>2. m \in 1..(n + 1) /\ \A k \in 1..n : k < m => f[p[k]] <= f[n + 1]
  BY <1>0, <1>1
<1>3. m # n + 1 => f[p[m]] > f[n + 1]
  BY <1>1
<1> HIDE DEF T
<1> DEFINE q == [k \in 1..(n + 1) |-> IF k < m THEN p[k] ELSE IF k = m THEN n + 1 ELSE p[k - 1]]
<1>q. \A k \in 1..(n + 1) :
         /\ k < m => k \in 1..n /\ q[k] = p[k]
         /\ k = m => q[k] = n + 1
         /\ k > m => k - 1 \in 1..n /\ q[k] = p[k - 1]
  BY <1>2
<1>4. q \in [1..(n + 1) -> 1..(n + 1)]
  <2>1. \A k \in 1..(n + 1) : q[k] \in 1..(n + 1)
    <3> HIDE DEF q
    <3>1. TAKE k \in 1..(n + 1)
    <3>2. CASE k < m
      BY <1>0, <1>q, <3>2
    <3>3. CASE k = m
      BY <1>0, <1>q, <3>3
    <3>4. CASE k > m
      BY <1>0, <1>q, <3>4
    <3> QED BY <1>2, <3>2, <3>3, <3>4
  <2> QED BY <2>1
<1>5. ASSUME NEW j \in 1..(n + 1), NEW k \in 1..(n + 1), q[j] = q[k] PROVE j = k
  <2> HIDE DEF q
  <2>1. \A i \in 1..(n + 1) : i < m \/ i = m \/ i > m
    BY <1>2
  <2>2. n + 1 \notin 1..n
    OBVIOUS
  <2>3. CASE j = m \/ k = m
    <3>1. \A i \in 1..(n + 1) : i # m => q[i] \in 1..n
      BY <1>0, <1>2, <1>q, <2>1
    <3> QED BY <1>2, <1>5, <1>q, <2>2, <2>3, <3>1
  <2>4. CASE j # m /\ k # m
    <3>1. \A a, b \in 1..n : p[a] = p[b] => a = b
      BY <1>0
    <3>2. CASE j < m /\ k < m
      BY <1>5, <1>q, <3>1, <3>2
    <3>3. CASE j > m /\ k > m
      <4>1. j - 1 \in 1..n /\ k - 1 \in 1..n /\ p[j - 1] = p[k - 1]
        BY <1>5, <1>q, <3>3
      <4>2. j - 1 = k - 1
        BY <3>1, <4>1
      <4> QED BY <4>2
    <3>4. CASE j < m /\ k > m
      <4>1. j \in 1..n /\ k - 1 \in 1..n /\ p[j] = p[k - 1]
        BY <1>5, <1>q, <3>4
      <4>2. j = k - 1
        BY <3>1, <4>1
      <4> QED BY <1>2, <3>4, <4>2
    <3>5. CASE j > m /\ k < m
      <4>1. j - 1 \in 1..n /\ k \in 1..n /\ p[j - 1] = p[k]
        BY <1>5, <1>q, <3>5
      <4>2. j - 1 = k
        BY <3>1, <4>1
      <4> QED BY <1>2, <3>5, <4>2
    <3> QED BY <2>1, <2>4, <3>2, <3>3, <3>4, <3>5
  <2> QED BY <2>3, <2>4
<1>6. ASSUME NEW i \in 1..(n + 1) PROVE \E k \in 1..(n + 1) : q[k] = i
  <2>1. CASE i = n + 1
    BY <1>2, <2>1
  <2>2. CASE i \in 1..n
    <3>1. PICK k \in 1..n : p[k] = i
      BY <2>2 DEF Sorts
    <3>2. CASE k < m
      BY <1>2, <3>1, <3>2
    <3>3. CASE ~ (k < m)
      <4>1. k + 1 \in 1..(n + 1) /\ q[k + 1] = p[k]
        BY <1>2, <3>1, <3>3
      <4> QED BY <3>1, <4>1
    <3> QED BY <3>2, <3>3
  <2> QED BY <2>1, <2>2
<1>7. ASSUME NEW j \in 1..(n + 1), NEW k \in 1..(n + 1), j < k PROVE f[q[j]] <= f[q[k]]
  <2>1. \A a \in 1..n : a >= m => f[p[a]] > f[n + 1]
    BY <1>0, <1>2, <1>3
  <2> HIDE DEF q
  <2>a. /\ f[n + 1] \in Int
        /\ \A a \in 1..n : f[p[a]] \in Int
        /\ \A a, b \in 1..n : a < b => f[p[a]] <= f[p[b]]
    BY <1>0
  <2>2. CASE k < m
    <3>1. j \in 1..n /\ q[j] = p[j] /\ k \in 1..n /\ q[k] = p[k]
      BY <1>2, <1>7, <1>q, <2>2
    <3> QED BY <1>7, <2>a, <3>1
  <2>3. CASE k = m
    <3>1. j < m /\ j \in 1..n /\ q[j] = p[j] /\ q[k] = n + 1
      BY <1>7, <1>q, <2>3
    <3> QED BY <1>2, <3>1
  <2>4. CASE k > m
    <3>1. k - 1 \in 1..n /\ q[k] = p[k - 1]
      BY <1>q, <2>4
    <3>2. CASE j < m
      <4>1. j \in 1..n /\ q[j] = p[j] /\ j < k - 1
        BY <1>2, <1>q, <2>4, <3>2
      <4> QED BY <2>a, <3>1, <4>1
    <3>3. CASE j = m
      <4>1. q[j] = n + 1
        BY <1>q, <3>3
      <4>2. k - 1 >= m
        BY <1>2, <2>4
      <4>3. f[p[k - 1]] > f[n + 1] /\ f[p[k - 1]] \in Int
        BY <2>1, <2>a, <3>1, <4>2
      <4> QED BY <2>a, <3>1, <4>1, <4>3
    <3>4. CASE j > m
      <4>1. j - 1 \in 1..n /\ q[j] = p[j - 1] /\ j - 1 < k - 1
        BY <1>7, <1>q, <3>4
      <4> QED BY <2>a, <3>1, <4>1
    <3> QED BY <1>2, <3>2, <3>3, <3>4
  <2> QED BY <1>2, <2>2, <2>3, <2>4
<1> HIDE DEF q
<1> QED BY <1>4, <1>5, <1>6, <1>7, Zenon DEF Sorts

(* Every finite sequence of integers can be sorted. *)
LEMMA SortExists ==
    ASSUME NEW n \in Nat, NEW f \in [1..n -> Int]
    PROVE  \E p : Sorts(p, f, n)
<1> DEFINE S == {k \in Nat : k <= n => \E p : Sorts(p, f, k)}
<1>1. 0 \in S
  <2>1. Sorts([k \in 1..0 |-> k], f, 0)
    BY DEF Sorts
  <2> QED BY <2>1
<1>2. ASSUME NEW k \in S PROVE k + 1 \in S
  <2>1. SUFFICES ASSUME k + 1 <= n PROVE \E q : Sorts(q, f, k + 1)
    OBVIOUS
  <2>2. k \in Nat /\ k <= n
    BY <2>1
  <2>3. PICK p : Sorts(p, f, k)
    BY <2>2
  <2> DEFINE g == [j \in 1..(k + 1) |-> f[j]]
  <2>4. g \in [1..(k + 1) -> Int] /\ \A j \in 1..(k + 1) : g[j] = f[j]
    BY <2>1, <2>2
  <2> HIDE DEF g
  <2>5. Sorts(p, g, k)
    <3>1. \A j \in 1..k : p[j] \in 1..k
      BY <2>3 DEF Sorts
    <3>2. \A j \in 1..k : j \in 1..(k + 1)
      BY <2>2
    <3>3. \A j \in 1..k : g[p[j]] = f[p[j]]
      BY <2>4, <3>1, <3>2, Zenon
    <3> QED BY <2>3, <3>3, Zenon DEF Sorts
  <2>6. PICK q : Sorts(q, g, k + 1)
    BY <2>2, <2>4, <2>5, SortOneMore
  <2>7. Sorts(q, f, k + 1)
    <3>1. \A j \in 1..(k + 1) : q[j] \in 1..(k + 1) /\ g[q[j]] = f[q[j]]
      BY <2>2, <2>4, <2>6, Zenon DEF Sorts
    <3> QED BY <2>6, <3>1, Zenon DEF Sorts
  <2> QED BY <2>7
<1>3. n \in S
  <2> HIDE DEF S
  <2>1. S \in SUBSET Nat
    BY DEF S
  <2> QED BY <1>1, <1>2, <2>1, SetInduction, Zenon
<1> QED BY <1>3

(* Points: anything with a timestamp *)
Timed(S) == \A x \in S : x.ts \in Int
InTimeOrder(s) == \A j, k \in DOMAIN s : j < k => s[j].ts <= s[k].ts

(* sort.Slice gives the same points, each as often, in order of time. *)
LEMMA SortSliceFacts ==
    ASSUME NEW S, Timed(S), NEW s \in Seq(S)
    PROVE  /\ SortSlice(s) \in Seq(S) /\ Len(SortSlice(s)) = Len(s)
           /\ SortOrder(s) \in Bijection(1..Len(s), 1..Len(s))
           /\ \A k \in 1..Len(s) : SortSlice(s)[k] = s[SortOrder(s)[k]]
           /\ InTimeOrder(SortSlice(s))
           /\ Range(SortSlice(s)) = Range(s)
<1> DEFINE n == Len(s)
           f == [k \in 1..n |-> s[k].ts]
           B == Bijection(1..n, 1..n)
           Good(p) == \A j, k \in 1..n : j < k => s[p[j]].ts <= s[p[k]].ts
<1>1. n \in Nat /\ DOMAIN s = 1..n /\ \A k \in 1..n : s[k] \in S /\ s[k].ts \in Int
  BY DEF Timed
<1>2. f \in [1..n -> Int] /\ \A k \in 1..n : f[k] = s[k].ts
  BY <1>1
<1> HIDE DEF f
<1>3. PICK p : Sorts(p, f, n)
  <2> HIDE DEF n
  <2> QED BY <1>1, <1>2, SortExists
<1>4. p \in B /\ Good(p)
  <2>1. p \in B
    BY <1>3, Zenon DEF Sorts, Bijection, Injection, Surjection, IsInjective
  <2>2. \A k \in 1..n : p[k] \in 1..n
    BY <1>3 DEF Sorts
  <2>3. \A j, k \in 1..n : j < k => f[p[j]] <= f[p[k]]
    BY <1>3 DEF Sorts
  <2>4. Good(p)
    <3> HIDE DEF n
    <3> QED BY <1>2, <2>2, <2>3
  <2> QED BY <2>1, <2>4
<1>5. SortOrder(s) = CHOOSE q \in [1..n -> 1..n] : Good(q) /\ q \in B
  BY <1>1, Zenon DEF SortOrder
<1>6. SortOrder(s) \in B /\ Good(SortOrder(s))
  <2>1. p \in [1..n -> 1..n]
    BY <1>3 DEF Sorts
  <2> HIDE DEF B, Good
  <2> QED BY <1>4, <1>5, <2>1
<1> DEFINE q == SortOrder(s)
<1>7. /\ q \in [1..n -> 1..n]
      /\ \A m \in 1..n : \E k \in 1..n : q[k] = m
  BY <1>6, Zenon DEF Bijection, Surjection
<1>8. SortSlice(s) = [k \in 1..n |-> s[q[k]]]
  BY <1>1 DEF SortSlice
<1> HIDE DEF q, B, Good
<1>9. \A k \in 1..n : q[k] \in 1..n /\ s[q[k]] \in S
  BY <1>1, <1>7
<1>10. SortSlice(s) \in Seq(S) /\ Len(SortSlice(s)) = n
  BY <1>1, <1>8, <1>9
<1>11. \A k \in 1..n : SortSlice(s)[k] = s[q[k]]
  BY <1>8
<1>12. InTimeOrder(SortSlice(s))
  <2>1. \A j, k \in 1..n : j < k => s[q[j]].ts <= s[q[k]].ts
    BY <1>6 DEF q, Good
  <2> QED BY <1>8, <2>1 DEF InTimeOrder
<1>13. Range(SortSlice(s)) = Range(s)
  <2>1. Range(SortSlice(s)) = {s[q[k]] : k \in 1..n}
    BY <1>8 DEF Range
  <2>2. Range(s) = {s[k] : k \in 1..n}
    BY <1>1 DEF Range
  <2>3. ASSUME NEW m \in 1..n PROVE s[m] \in Range(SortSlice(s))
    <3>1. PICK k \in 1..n : q[k] = m
      BY <1>7, Zenon
    <3> QED BY <2>1, <3>1
  <2>4. \A k \in 1..n : s[q[k]] \in Range(s)
    BY <1>9, <2>2
  <2> HIDE DEF n
  <2> QED BY <2>1, <2>2, <2>3, <2>4
<1> QED BY <1>1, <1>6, <1>10, <1>11, <1>12, <1>13 DEF q, B

-----------------------------------------------------------------------------
(* The merge *)

(* One round, m being what the rounds after it give. *)
MergeRound(late, points, m, c) ==
    IF c[1] > Len(late) THEN SubSeq(points, c[2], Len(points))
    ELSE IF c[2] > Len(points) THEN SubSeq(late, c[1], Len(late))
    ELSE IF late[c[1]].ts < points[c[2]].ts
         THEN <<late[c[1]]>> \o m[<<c[1] + 1, c[2]>>]
         ELSE <<points[c[2]]>> \o m[<<c[1], c[2] + 1>>]

Merging(late, points) ==
    CHOOSE m : m = [c \in MergeCursors(late, points) |-> MergeRound(late, points, m, c)]

Left(late, points) ==
    [c \in MergeCursors(late, points) |-> (Len(late) + 1 - c[1]) + (Len(points) + 1 - c[2])]

(* The cursors the next round starts from, with less left *)
LEMMA NextCursors ==
    ASSUME NEW S, NEW late \in Seq(S), NEW points \in Seq(S),
           NEW c \in MergeCursors(late, points)
    PROVE  /\ c[1] \in 1..(Len(late) + 1) /\ c[2] \in 1..(Len(points) + 1)
           /\ c[1] <= Len(late) =>
                 /\ <<c[1] + 1, c[2]>> \in MergeCursors(late, points)
                 /\ Left(late, points)[<<c[1] + 1, c[2]>>] < Left(late, points)[c]
           /\ c[2] <= Len(points) =>
                 /\ <<c[1], c[2] + 1>> \in MergeCursors(late, points)
                 /\ Left(late, points)[<<c[1], c[2] + 1>>] < Left(late, points)[c]
<1> DEFINE a == Len(late)
           b == Len(points)
<1>1. a \in Nat /\ b \in Nat
  OBVIOUS
<1>2. c[1] \in 1..(a + 1) /\ c[2] \in 1..(b + 1)
  BY DEF MergeCursors
<1>3. \A i \in 1..(a + 1), j \in 1..(b + 1) :
         /\ <<i, j>> \in MergeCursors(late, points)
         /\ Left(late, points)[<<i, j>>] = (a + 1 - i) + (b + 1 - j)
  BY Zenon DEF MergeCursors, Left
<1>4. Left(late, points)[c] = (a + 1 - c[1]) + (b + 1 - c[2])
  BY DEF Left
<1> HIDE DEF a, b
<1>5. c[1] <= a => c[1] + 1 \in 1..(a + 1)
  BY <1>1, <1>2
<1>6. c[2] <= b => c[2] + 1 \in 1..(b + 1)
  BY <1>1, <1>2
<1>7. ASSUME c[1] <= a
      PROVE  /\ <<c[1] + 1, c[2]>> \in MergeCursors(late, points)
             /\ Left(late, points)[<<c[1] + 1, c[2]>>] < Left(late, points)[c]
  <2>1. Left(late, points)[<<c[1] + 1, c[2]>>] = (a + 1 - (c[1] + 1)) + (b + 1 - c[2])
    BY <1>2, <1>3, <1>5, <1>7
  <2>2. \A i \in 1..(a + 1), j \in 1..(b + 1) :
           (a + 1 - (i + 1)) + (b + 1 - j) < (a + 1 - i) + (b + 1 - j)
    BY <1>1
  <2>3. Left(late, points)[<<c[1] + 1, c[2]>>] < Left(late, points)[c]
    BY <1>2, <1>4, <2>1, <2>2
  <2> QED BY <1>2, <1>3, <1>5, <1>7, <2>3
<1>8. ASSUME c[2] <= b
      PROVE  /\ <<c[1], c[2] + 1>> \in MergeCursors(late, points)
             /\ Left(late, points)[<<c[1], c[2] + 1>>] < Left(late, points)[c]
  <2>1. Left(late, points)[<<c[1], c[2] + 1>>] = (a + 1 - c[1]) + (b + 1 - (c[2] + 1))
    BY <1>2, <1>3, <1>6, <1>8
  <2>2. \A i \in 1..(a + 1), j \in 1..(b + 1) :
           (a + 1 - i) + (b + 1 - (j + 1)) < (a + 1 - i) + (b + 1 - j)
    BY <1>1
  <2>3. Left(late, points)[<<c[1], c[2] + 1>>] < Left(late, points)[c]
    BY <1>2, <1>4, <2>1, <2>2
  <2> QED BY <1>2, <1>3, <1>6, <1>8, <2>3
<1> QED BY <1>2, <1>7, <1>8 DEF a, b

(* What holds of all cursors because it holds where less is left. *)
LEMMA MergeInduction ==
    ASSUME NEW S, NEW late \in Seq(S), NEW points \in Seq(S),
           NEW P \in SUBSET MergeCursors(late, points),
           \A c \in MergeCursors(late, points) :
               (\A d \in MergeCursors(late, points) :
                    Left(late, points)[d] < Left(late, points)[c] => d \in P) => c \in P
    PROVE  P = MergeCursors(late, points)
<1> DEFINE D == MergeCursors(late, points)
           r == Left(late, points)
<1>1. \A i \in 1..(Len(late) + 1), j \in 1..(Len(points) + 1) :
         (Len(late) + 1 - i) + (Len(points) + 1 - j) \in Nat
  OBVIOUS
<1>2. \A c \in D : c[1] \in 1..(Len(late) + 1) /\ c[2] \in 1..(Len(points) + 1)
  BY NextCursors, Zenon
<1>3. r \in [D -> Nat]
  BY <1>1, <1>2, Zenon DEF Left
<1> HIDE DEF D, r
<1>4. P \in SUBSET D /\ \A c \in D : (\A d \in D : r[d] < r[c] => d \in P) => c \in P
  BY Zenon DEF D, r
<1>5. P = D
  BY <1>3, <1>4, RankInduction
<1> QED BY <1>5 DEF D

(* The merge ends: Merging is what its definition says, a sequence. *)
LEMMA MergingDef ==
    ASSUME NEW S, NEW late \in Seq(S), NEW points \in Seq(S)
    PROVE  /\ Merging(late, points) \in [MergeCursors(late, points) -> Seq(S)]
           /\ \A c \in MergeCursors(late, points) :
                 Merging(late, points)[c] = MergeRound(late, points, Merging(late, points), c)
<1> DEFINE D == MergeCursors(late, points)
           V == Seq(S)
           R(m, c) == MergeRound(late, points, m, c)
           F == [p \in [D -> V] \X D |-> R(p[1], p[2])]
           rank == Left(late, points)
           N == (Len(late) + 1) + (Len(points) + 1)
<1>1. rank \in [D -> 0..N] /\ N \in Nat
  <2>1. \A c \in D : c[1] \in 1..(Len(late) + 1) /\ c[2] \in 1..(Len(points) + 1)
    BY NextCursors, Zenon
  <2>2. \A i \in 1..(Len(late) + 1), j \in 1..(Len(points) + 1) :
           (Len(late) + 1 - i) + (Len(points) + 1 - j) \in 0..N
    OBVIOUS
  <2>3. N \in Nat
    OBVIOUS
  <2> HIDE DEF N
  <2>4. \A c \in D : (Len(late) + 1 - c[1]) + (Len(points) + 1 - c[2]) \in 0..N
    BY <2>1, <2>2, Zenon
  <2> QED BY <2>3, <2>4, Zenon DEF Left
<1>2. ASSUME NEW g \in [D -> V], NEW c \in D PROVE R(g, c) \in V
  <2>1. c[1] \in 1..(Len(late) + 1) /\ c[2] \in 1..(Len(points) + 1)
    BY NextCursors, Zenon
  <2>2. CASE c[1] > Len(late)
    BY <2>1, <2>2 DEF MergeRound
  <2>3. CASE c[1] <= Len(late) /\ c[2] > Len(points)
    BY <2>1, <2>3 DEF MergeRound
  <2>4. CASE c[1] <= Len(late) /\ c[2] <= Len(points)
    <3>1. g[<<c[1] + 1, c[2]>>] \in Seq(S) /\ g[<<c[1], c[2] + 1>>] \in Seq(S)
      BY <2>4, NextCursors
    <3>2. late[c[1]] \in S /\ points[c[2]] \in S
      BY <2>1, <2>4
    <3> QED BY <2>1, <2>4, <3>1, <3>2 DEF MergeRound
  <2> QED BY <2>1, <2>2, <2>3, <2>4
<1>3. F \in [[D -> V] \X D -> V]
  <2> HIDE DEF D, V, R
  <2> QED BY <1>2
<1>4. ASSUME NEW g \in [D -> V], NEW h \in [D -> V], NEW c \in D, AgreeBelow(D, rank, g, h, c)
      PROVE  R(g, c) = R(h, c)
  <2>1. c[1] \in 1..(Len(late) + 1) /\ c[2] \in 1..(Len(points) + 1)
    BY NextCursors, Zenon
  <2>2. \A d \in D : rank[d] < rank[c] => g[d] = h[d]
    BY <1>4 DEF AgreeBelow
  <2>3. c[1] <= Len(late) => g[<<c[1] + 1, c[2]>>] = h[<<c[1] + 1, c[2]>>]
    BY <2>2, NextCursors, Zenon
  <2>4. c[2] <= Len(points) => g[<<c[1], c[2] + 1>>] = h[<<c[1], c[2] + 1>>]
    BY <2>2, NextCursors, Zenon
  <2>5. CASE c[1] > Len(late)
    BY <2>5, Zenon DEF MergeRound
  <2>6. CASE ~ (c[1] > Len(late)) /\ c[2] > Len(points)
    BY <2>6, Zenon DEF MergeRound
  <2>7. CASE ~ (c[1] > Len(late)) /\ ~ (c[2] > Len(points))
    <3>1. c[1] <= Len(late) /\ c[2] <= Len(points)
      BY <2>1, <2>7
    <3> QED BY <2>3, <2>4, <2>7, <3>1, Zenon DEF MergeRound
  <2> QED BY <2>5, <2>6, <2>7
<1>5. PICK g \in [D -> V] : \A c \in D : g[c] = F[<<g, c>>]
  <2>1. \A g, h \in [D -> V] : \A c \in D : AgreeBelow(D, rank, g, h, c) => F[<<g, c>>] = F[<<h, c>>]
    <3> HIDE DEF D, V, R, rank
    <3> QED BY <1>4, Zenon
  <2>2. V # {}
    OBVIOUS
  <2> HIDE DEF D, V, F, rank, N
  <2>3. Recursive(D, V, rank, F)
    BY <1>3, <2>1, <2>2, Zenon DEF Recursive
  <2>4. Solvable(D, V, F)
    BY <1>1, <2>3, RecursionSolvable
  <2> QED BY <2>4 DEF Solvable
<1>6. \A c \in D : g[c] = R(g, c)
  <2> HIDE DEF D, V, R
  <2> QED BY <1>5, Zenon
<1>7. g = [c \in D |-> R(g, c)]
  <2> HIDE DEF D, R
  <2> QED BY <1>5, <1>6
<1>8. Merging(late, points) = [c \in D |-> R(Merging(late, points), c)]
  BY <1>7, Zenon DEF Merging
<1> DEFINE m == Merging(late, points)
           P == {c \in D : m[c] \in Seq(S)}
<1>9. \A c \in D : m[c] = R(m, c)
  BY <1>8
<1>10. ASSUME NEW c \in D, \A d \in D : rank[d] < rank[c] => d \in P PROVE c \in P
  <2> HIDE DEF m
  <2>0. SUFFICES MergeRound(late, points, m, c) \in Seq(S)
    BY <1>9
  <2>1. c[1] \in 1..(Len(late) + 1) /\ c[2] \in 1..(Len(points) + 1)
    BY NextCursors, Zenon
  <2>2. CASE c[1] > Len(late)
    BY <2>1, <2>2 DEF MergeRound
  <2>3. CASE c[1] <= Len(late) /\ c[2] > Len(points)
    BY <2>1, <2>3 DEF MergeRound
  <2>4. CASE c[1] <= Len(late) /\ c[2] <= Len(points)
    <3>1. m[<<c[1] + 1, c[2]>>] \in Seq(S) /\ m[<<c[1], c[2] + 1>>] \in Seq(S)
      BY <1>10, <2>4, NextCursors
    <3>2. late[c[1]] \in S /\ points[c[2]] \in S
      BY <2>1, <2>4
    <3> QED BY <2>1, <2>4, <3>1, <3>2 DEF MergeRound
  <2> QED BY <2>1, <2>2, <2>3, <2>4
<1>11. P = D
  <2>1. P \in SUBSET D
    OBVIOUS
  <2> HIDE DEF P, m
  <2> QED BY <1>10, <2>1, MergeInduction, Zenon
<1>12. m = [c \in D |-> m[c]]
  BY <1>8
<1>13. \A c \in D : m[c] \in Seq(S)
  <2> HIDE DEF m, D
  <2> QED BY <1>11
<1> QED BY <1>9, <1>12, <1>13, Zenon

-----------------------------------------------------------------------------
(* What the merge gives *)

Rest(s, i) == {s[k] : k \in i..Len(s)}
(* What the merge from the cursors c on gives: all that is left, and in     *)
(* order if both sequences are.                                             *)
MergedFrom(late, points, m, c) ==
    /\ Len(m) = Left(late, points)[c]
    /\ Range(m) = Rest(late, c[1]) \cup Rest(points, c[2])
    /\ InTimeOrder(late) /\ InTimeOrder(points) => InTimeOrder(m)

(* The end of the merge: what is left of one sequence is copied. *)
LEMMA CopyRest ==
    ASSUME NEW S, NEW s \in Seq(S), NEW i \in 1..(Len(s) + 1)
    PROVE  /\ SubSeq(s, i, Len(s)) \in Seq(S)
           /\ Len(SubSeq(s, i, Len(s))) = (Len(s) + 1) - i
           /\ Range(SubSeq(s, i, Len(s))) = Rest(s, i)
           /\ InTimeOrder(s) => InTimeOrder(SubSeq(s, i, Len(s)))
<1> DEFINE n == Len(s)
           t == SubSeq(s, i, n)
<1>1. n \in Nat /\ t \in Seq(S) /\ Len(t) = (n + 1) - i
  OBVIOUS
<1>2. \A k \in 1..Len(t) : t[k] = s[(k - 1) + i] /\ (k - 1) + i \in i..n
  OBVIOUS
<1> HIDE DEF t, n
<1>3. \A k \in i..n : (k - i) + 1 \in 1..Len(t) /\ ((k - i) + 1) - 1 + i = k
  BY <1>1
<1>4. Range(t) = Rest(s, i)
  <2>1. Range(t) = {t[k] : k \in 1..Len(t)}
    BY <1>1 DEF Range
  <2>2. \A k \in i..n : s[k] \in Range(t)
    BY <1>2, <1>3, <2>1, Zenon
  <2>3. \A k \in 1..Len(t) : t[k] \in Rest(s, i)
    BY <1>2 DEF Rest, n
  <2> QED BY <2>1, <2>2, <2>3, Zenon DEF Rest, n
<1>5. ASSUME InTimeOrder(s) PROVE InTimeOrder(t)
  <2>1. \A j, k \in i..n : j < k => s[j].ts <= s[k].ts
    BY <1>1, <1>5 DEF InTimeOrder, n
  <2>2. SUFFICES ASSUME NEW j \in 1..Len(t), NEW k \in 1..Len(t), j < k PROVE t[j].ts <= t[k].ts
    BY <1>1 DEF InTimeOrder
  <2>3. (j - 1) + i < (k - 1) + i
    BY <2>2
  <2> QED BY <1>2, <2>1, <2>3, Zenon
<1> QED BY <1>1, <1>4, <1>5 DEF t, n

(* One more point in front *)
LEMMA MergeOneMore ==
    ASSUME NEW S, NEW m \in Seq(S), NEW x \in S
    PROVE  /\ <<x>> \o m \in Seq(S) /\ Len(<<x>> \o m) = Len(m) + 1
           /\ Range(<<x>> \o m) = {x} \cup Range(m)
           /\ InTimeOrder(m) /\ (\A y \in Range(m) : x.ts <= y.ts) => InTimeOrder(<<x>> \o m)
<1> DEFINE t == <<x>> \o m
           n == Len(m)
<1>1. n \in Nat /\ t \in Seq(S) /\ Len(t) = n + 1
  OBVIOUS
<1>2. t[1] = x /\ \A k \in 2..(n + 1) : t[k] = m[k - 1] /\ k - 1 \in 1..n
  OBVIOUS
<1>3. \A k \in 1..n : t[k + 1] = m[k]
  OBVIOUS
<1> HIDE DEF t
<1>4. Range(t) = {x} \cup Range(m)
  <2>1. Range(t) = {t[k] : k \in 1..(n + 1)} /\ Range(m) = {m[k] : k \in 1..n}
    BY <1>1 DEF Range
  <2> HIDE DEF n
  <2>2. \A k \in 1..(n + 1) : k = 1 \/ k \in 2..(n + 1)
    BY <1>1
  <2>3. \A k \in 1..(n + 1) : t[k] \in {x} \cup Range(m)
    BY <1>2, <2>1, <2>2
  <2>4. \A k \in 1..n : k + 1 \in 1..(n + 1) /\ m[k] = t[k + 1]
    BY <1>1, <1>3
  <2>5. x \in Range(t)
    BY <1>1, <1>2, <2>1
  <2> QED BY <2>1, <2>3, <2>4, <2>5
<1>5. ASSUME InTimeOrder(m), \A y \in Range(m) : x.ts <= y.ts PROVE InTimeOrder(t)
  <2>1. SUFFICES ASSUME NEW j \in 1..(n + 1), NEW k \in 1..(n + 1), j < k PROVE t[j].ts <= t[k].ts
    BY <1>1 DEF InTimeOrder
  <2>2. k \in 2..(n + 1) /\ t[k] = m[k - 1] /\ k - 1 \in 1..n
    BY <1>2, <2>1
  <2>3. CASE j = 1
    <3>1. m[k - 1] \in Range(m)
      BY <2>2 DEF Range
    <3> QED BY <1>2, <1>5, <2>2, <2>3, <3>1
  <2>4. CASE j \in 2..(n + 1)
    <3>1. t[j] = m[j - 1] /\ j - 1 \in 1..n /\ j - 1 < k - 1
      BY <1>2, <2>1, <2>4
    <3> QED BY <1>5, <2>2, <3>1 DEF InTimeOrder
  <2> QED BY <2>1, <2>3, <2>4
<1> QED BY <1>1, <1>4, <1>5 DEF t

(* The rest from i on: the point at i, and the rest behind it. *)
LEMMA RestStep ==
    ASSUME NEW S, Timed(S), NEW s \in Seq(S), NEW i \in 1..(Len(s) + 1)
    PROVE  /\ i > Len(s) => Rest(s, i) = {}
           /\ i <= Len(s) =>
                 /\ s[i] \in S /\ s[i].ts \in Int
                 /\ Rest(s, i) = {s[i]} \cup Rest(s, i + 1)
                 /\ InTimeOrder(s) => \A y \in Rest(s, i) : s[i].ts <= y.ts /\ y.ts \in Int
<1> DEFINE n == Len(s)
<1>1. n \in Nat /\ DOMAIN s = 1..n /\ \A k \in 1..n : s[k] \in S /\ s[k].ts \in Int
  BY DEF Timed
<1>2. Rest(s, i) = {s[k] : k \in i..n} /\ Rest(s, i + 1) = {s[k] : k \in (i + 1)..n}
  BY DEF Rest
<1> HIDE DEF n
<1>3. ASSUME i > n PROVE Rest(s, i) = {}
  <2>1. i..n = {}
    BY <1>1, <1>3
  <2> QED BY <1>2, <2>1
<1>4. ASSUME i <= n
      PROVE  /\ s[i] \in S /\ s[i].ts \in Int
             /\ Rest(s, i) = {s[i]} \cup Rest(s, i + 1)
             /\ InTimeOrder(s) => \A y \in Rest(s, i) : s[i].ts <= y.ts /\ y.ts \in Int
  <2>1. i \in 1..n /\ i..n = {i} \cup ((i + 1)..n)
    BY <1>1, <1>4 DEF n
  <2>2. Rest(s, i) = {s[i]} \cup Rest(s, i + 1)
    BY <1>2, <2>1
  <2>3. ASSUME InTimeOrder(s), NEW k \in i..n PROVE s[i].ts <= s[k].ts /\ s[k].ts \in Int
    <3>1. k \in 1..n /\ (k = i \/ i < k)
      BY <1>1, <2>1
    <3> QED BY <1>1, <2>1, <2>3, <3>1 DEF InTimeOrder
  <2> QED BY <1>1, <1>2, <2>1, <2>2, <2>3
<1> QED BY <1>3, <1>4 DEF n

(* From every pair of cursors the merge gives what is left of both          *)
(* sequences, in order of time if both are.                                 *)
LEMMA MergingFacts ==
    ASSUME NEW S, Timed(S), NEW late \in Seq(S), NEW points \in Seq(S)
    PROVE  \A c \in MergeCursors(late, points) :
              MergedFrom(late, points, Merging(late, points)[c], c)
<1> DEFINE D == MergeCursors(late, points)
           m == Merging(late, points)
           P == {c \in D : MergedFrom(late, points, m[c], c)}
           a == Len(late)
           b == Len(points)
<1>1. /\ m \in [D -> Seq(S)]
      /\ \A c \in D : m[c] = MergeRound(late, points, m, c)
  BY MergingDef
<1> HIDE DEF m
<1>2. ASSUME NEW c \in D, \A d \in D : Left(late, points)[d] < Left(late, points)[c] => d \in P
      PROVE  MergedFrom(late, points, m[c], c)
  <2>0. m[c] = MergeRound(late, points, m, c)
    BY <1>1
  <2>1. c[1] \in 1..(a + 1) /\ c[2] \in 1..(b + 1) /\ a \in Nat /\ b \in Nat
    <3>1. c[1] \in 1..(a + 1) /\ c[2] \in 1..(b + 1)
      BY NextCursors, Zenon
    <3> QED BY <3>1
  <2>2. Left(late, points)[c] = (a + 1 - c[1]) + (b + 1 - c[2])
    BY DEF Left
  <2>5. CASE c[1] > a
    <3>1. m[c] = SubSeq(points, c[2], b)
      BY <2>0, <2>5, Zenon DEF MergeRound
    <3>2. Rest(late, c[1]) = {}
      BY <2>1, <2>5, RestStep
    <3>3. Left(late, points)[c] = (b + 1) - c[2]
      <4> HIDE DEF a, b
      <4>1. c[1] = a + 1
        BY <2>1, <2>5
      <4> QED BY <2>1, <2>2, <4>1
    <3> QED BY <2>1, <3>1, <3>2, <3>3, CopyRest DEF MergedFrom
  <2>6. CASE c[1] <= a /\ c[2] > b
    <3>1. m[c] = SubSeq(late, c[1], a)
      <4>1. ~ (c[1] > a)
        BY <2>1, <2>6
      <4> QED BY <2>0, <2>6, <4>1, Zenon DEF MergeRound
    <3>2. Rest(points, c[2]) = {}
      BY <2>1, <2>6, RestStep
    <3>3. Left(late, points)[c] = (a + 1) - c[1]
      <4> HIDE DEF a, b
      <4>1. c[2] = b + 1
        BY <2>1, <2>6
      <4> QED BY <2>1, <2>2, <4>1
    <3> QED BY <2>1, <3>1, <3>2, <3>3, CopyRest DEF MergedFrom
  <2>7. CASE c[1] <= a /\ c[2] <= b
    <3>1. /\ late[c[1]] \in S /\ late[c[1]].ts \in Int
          /\ Rest(late, c[1]) = {late[c[1]]} \cup Rest(late, c[1] + 1)
          /\ InTimeOrder(late) => \A y \in Rest(late, c[1]) : late[c[1]].ts <= y.ts /\ y.ts \in Int
      BY <2>1, <2>7, RestStep
    <3>2. /\ points[c[2]] \in S /\ points[c[2]].ts \in Int
          /\ Rest(points, c[2]) = {points[c[2]]} \cup Rest(points, c[2] + 1)
          /\ InTimeOrder(points) => \A y \in Rest(points, c[2]) : points[c[2]].ts <= y.ts /\ y.ts \in Int
      BY <2>1, <2>7, RestStep
    <3>4. CASE late[c[1]].ts < points[c[2]].ts
      <4> DEFINE d == <<c[1] + 1, c[2]>>
                 x == late[c[1]]
      <4>1. m[c] = <<x>> \o m[d]
        <5>1. ~ (c[1] > a) /\ ~ (c[2] > b)
          BY <2>1, <2>7
        <5> QED BY <2>0, <3>4, <5>1, Zenon DEF MergeRound
      <4>2. d \in D /\ Left(late, points)[d] < Left(late, points)[c] /\ m[d] \in Seq(S)
        BY <1>1, <2>7, NextCursors, Zenon
      <4>3. MergedFrom(late, points, m[d], d)
        BY <1>2, <4>2
      <4>4. Left(late, points)[d] = (a + 1 - (c[1] + 1)) + (b + 1 - c[2])
        BY <4>2 DEF Left
      <4>5. d[1] = c[1] + 1 /\ d[2] = c[2] /\ x \in S
        BY <3>1
      <4> HIDE DEF d, x, a, b
      <4>6. Len(m[c]) = Left(late, points)[c]
        <5>1. Len(m[c]) = Left(late, points)[d] + 1
          BY <4>1, <4>2, <4>3, <4>5, MergeOneMore DEF MergedFrom
        <5>2. \A i \in 1..(a + 1), j \in 1..(b + 1) :
                 ((a + 1 - (i + 1)) + (b + 1 - j)) + 1 = (a + 1 - i) + (b + 1 - j)
          BY <2>1
        <5> QED BY <2>1, <2>2, <4>4, <5>1, <5>2, Zenon
      <4>7. Range(m[c]) = Rest(late, c[1]) \cup Rest(points, c[2])
        <5>1. Range(m[c]) = {x} \cup Range(m[d])
          BY <4>1, <4>2, <4>5, MergeOneMore
        <5>2. Range(m[d]) = Rest(late, c[1] + 1) \cup Rest(points, c[2])
          BY <4>3, <4>5 DEF MergedFrom
        <5> QED BY <3>1, <5>1, <5>2 DEF x
      <4>9. ASSUME InTimeOrder(late), InTimeOrder(points) PROVE InTimeOrder(m[c])
        <5>1. Range(m[d]) = Rest(late, c[1] + 1) \cup Rest(points, c[2]) /\ InTimeOrder(m[d])
          BY <4>3, <4>5, <4>9 DEF MergedFrom
        <5>2. \A y \in Rest(late, c[1] + 1) : x.ts <= y.ts
          BY <3>1, <4>9 DEF x
        <5>3. \A y \in Rest(points, c[2]) : x.ts <= y.ts
          BY <3>1, <3>2, <3>4, <4>9 DEF x
        <5>4. \A y \in Range(m[d]) : x.ts <= y.ts
          BY <5>1, <5>2, <5>3
        <5> QED BY <4>1, <4>2, <4>5, <5>1, <5>4, MergeOneMore
      <4> QED BY <4>6, <4>7, <4>9 DEF MergedFrom
    <3>5. CASE ~ (late[c[1]].ts < points[c[2]].ts)
      <4> DEFINE d == <<c[1], c[2] + 1>>
                 x == points[c[2]]
      <4>1. m[c] = <<x>> \o m[d]
        <5>1. ~ (c[1] > a) /\ ~ (c[2] > b)
          BY <2>1, <2>7
        <5> QED BY <2>0, <3>5, <5>1, Zenon DEF MergeRound
      <4>2. d \in D /\ Left(late, points)[d] < Left(late, points)[c] /\ m[d] \in Seq(S)
        BY <1>1, <2>7, NextCursors, Zenon
      <4>3. MergedFrom(late, points, m[d], d)
        BY <1>2, <4>2
      <4>4. Left(late, points)[d] = (a + 1 - c[1]) + (b + 1 - (c[2] + 1))
        BY <4>2 DEF Left
      <4>5. d[1] = c[1] /\ d[2] = c[2] + 1 /\ x \in S
        BY <3>2
      <4> HIDE DEF d, x, a, b
      <4>6. Len(m[c]) = Left(late, points)[c]
        <5>1. Len(m[c]) = Left(late, points)[d] + 1
          BY <4>1, <4>2, <4>3, <4>5, MergeOneMore DEF MergedFrom
        <5>2. \A i \in 1..(a + 1), j \in 1..(b + 1) :
                 ((a + 1 - i) + (b + 1 - (j + 1))) + 1 = (a + 1 - i) + (b + 1 - j)
          BY <2>1
        <5> QED BY <2>1, <2>2, <4>4, <5>1, <5>2, Zenon
      <4>7. Range(m[c]) = Rest(late, c[1]) \cup Rest(points, c[2])
        <5>1. Range(m[c]) = {x} \cup Range(m[d])
          BY <4>1, <4>2, <4>5, MergeOneMore
        <5>2. Range(m[d]) = Rest(late, c[1]) \cup Rest(points, c[2] + 1)
          BY <4>3, <4>5 DEF MergedFrom
        <5> QED BY <3>2, <5>1, <5>2 DEF x
      <4>9. ASSUME InTimeOrder(late), InTimeOrder(points) PROVE InTimeOrder(m[c])
        <5>1. Range(m[d]) = Rest(late, c[1]) \cup Rest(points, c[2] + 1) /\ InTimeOrder(m[d])
          BY <4>3, <4>5, <4>9 DEF MergedFrom
        <5>2. \A y \in Rest(points, c[2] + 1) : x.ts <= y.ts
          BY <3>2, <4>9 DEF x
        <5>3. \A y \in Rest(late, c[1]) : x.ts <= y.ts
          BY <3>1, <3>2, <3>5, <4>9 DEF x
        <5>4. \A y \in Range(m[d]) : x.ts <= y.ts
          BY <5>1, <5>2, <5>3
        <5> QED BY <4>1, <4>2, <4>5, <5>1, <5>4, MergeOneMore
      <4> QED BY <4>6, <4>7, <4>9 DEF MergedFrom
    <3> QED BY <3>4, <3>5
  <2> QED BY <2>1, <2>5, <2>6, <2>7
<1>3. P = D
  <2>1. P \in SUBSET D
    OBVIOUS
  <2>2. \A c \in D : (\A d \in D : Left(late, points)[d] < Left(late, points)[c] => d \in P) => c \in P
    BY <1>2
  <2> HIDE DEF P
  <2> QED BY <2>1, <2>2, MergeInduction, Zenon
<1> QED BY <1>3 DEF m

-----------------------------------------------------------------------------
(* encodeAllPoints *)

(* Merge is Merging from the start of both sequences. *)
LEMMA MergeIsMerging ==
    ASSUME NEW late, NEW points
    PROVE  Merge(late, points) = Merging(late, points)[<<1, 1>>]
BY Zenon DEF Merge, Merging, MergeRound

(* encodeAllPoints gives the encoder the points it finds. *)
LEMMA EncodeAllFacts ==
    ASSUME NEW S, Timed(S), NEW points \in Seq(S), NEW late \in Seq(S)
    PROVE  LET out == EncodeAll(points, late)
           IN  /\ out \in Seq(S) /\ Len(out) = Len(points) + Len(late)
               /\ Range(out) = Range(points) \cup Range(late)
               /\ InTimeOrder(points) => InTimeOrder(out)
<1> DEFINE t == SortSlice(late)
           c == <<1, 1>>
           out == EncodeAll(points, late)
<1>1. t \in Seq(S) /\ Len(t) = Len(late) /\ InTimeOrder(t) /\ Range(t) = Range(late)
  BY SortSliceFacts
<1>3. c \in MergeCursors(t, points)
  BY <1>1 DEF MergeCursors
<1>4. out = Merging(t, points)[c]
  BY MergeIsMerging DEF EncodeAll
<1> HIDE DEF t, out
<1>5. out \in Seq(S) /\ MergedFrom(t, points, out, c)
  <2>1. Merging(t, points) \in [MergeCursors(t, points) -> Seq(S)]
    BY <1>1, MergingDef
  <2>2. MergedFrom(t, points, Merging(t, points)[c], c)
    <3> HIDE DEF c
    <3> QED BY <1>1, <1>3, MergingFacts
  <2> QED BY <1>3, <1>4, <2>1, <2>2
<1>6. Left(t, points)[c] = Len(points) + Len(late)
  <2>1. Left(t, points)[c] = (Len(t) + 1 - 1) + (Len(points) + 1 - 1)
    BY <1>3 DEF Left
  <2> QED BY <1>1, <2>1
<1>7. Range(out) = Rest(t, 1) \cup Rest(points, 1)
  BY <1>5 DEF MergedFrom
<1>8. Rest(t, 1) = Range(t) /\ Rest(points, 1) = Range(points)
  BY <1>1 DEF Rest, Range
<1>11. Len(out) = Len(points) + Len(late) /\ (InTimeOrder(points) => InTimeOrder(out))
  BY <1>1, <1>5, <1>6 DEF MergedFrom
<1> QED BY <1>1, <1>5, <1>7, <1>8, <1>11 DEF out

-----------------------------------------------------------------------------
(* A number below ten has one digit ... *)
LEMMA DigitsOne ==
    ASSUME NEW n \in 0..9
    PROVE  Digits(n) = 1
<1>1. Powers[2] = 10 /\ Powers[10] = 1000000000
  BY DEF Powers
<1>2. \A w \in 2..10 : Powers[w] \in Int /\ Powers[w] >= 10
  BY DEF Powers
<1>3. 1 \in 1..10 /\ (1 = 1 \/ Powers[1] <= n) /\ (1 = 10 \/ n < Powers[1 + 1])
  BY <1>1
<1>4. ASSUME NEW w \in 1..10, w = 1 \/ Powers[w] <= n PROVE w = 1
  BY <1>2, <1>4
<1> QED BY <1>3, <1>4, Zenon DEF Digits

(* ... and names of one digit are sorted as their numbers are (os.ReadDir). *)
LEMMA OneDigit ==
    ASSUME NEW i \in 0..9, NEW j \in 0..9
    PROVE  NameBefore(i, j) <=> i < j
<1>1. Digits(i) = 1 /\ Digits(j) = 1
  BY DigitsOne, Zenon
<1>2. Powers[1 - 1 + 1] = 1
  BY DEF Powers
<1>3. NameBefore(i, j) <=>
        \/ 1 < 1 /\ i <= j \div Powers[1 - 1 + 1]
        \/ 1 >= 1 /\ i \div Powers[1 - 1 + 1] < j
  BY <1>1, Zenon DEF NameBefore
<1>4. i \div 1 = i
  OBVIOUS
<1> QED BY <1>2, <1>3, <1>4

(* The first of them is the name of the least. *)
LEMMA FirstNameLeast ==
    ASSUME NEW S \in SUBSET (0..9), NEW m \in S, \A j \in S : m <= j
    PROVE  FirstName(S) = m
<1>1. \A j \in S \ {m} : NameBefore(m, j)
  BY OneDigit
<1>2. ASSUME NEW i \in S, \A j \in S \ {i} : NameBefore(i, j) PROVE i = m
  BY <1>2, OneDigit
<1> QED BY <1>1, <1>2, Zenon DEF FirstName
=============================================================================
