---------------------------- MODULE StorageFlush ---------------------------
(* The first run of a storage: the invariant behind StorageProofs, what the *)
(* list and the memory partitions contribute to it, and that the steps of a *)
(* flush that write and swap a partition keep it.                           *)
EXTENDS Storage, DataLemmas

(* The client and the process the theorems are about: each call's           *)
(* timestamps are newer than all earlier ones, in any order among           *)
(* themselves; one flush runs at a time; Close is not called in the first   *)
(* run.                                                                     *)
InOrderClient ==
    /\ MaxFlushers = 1
    /\ \A sc \in Scenarios :
          /\ 0 \notin sc.closeIn
          /\ \A b \in sc.batches : \A k \in DOMAIN b : b[k] > 0

-----------------------------------------------------------------------------
(* Types *)

Row == [id : Nat \X Nat, ts : Nat \ {0}]
Partition == [kind : {"memory", "disk"}, min : Nat, max : Nat,
              points : Seq(Row), late : Seq(Row), next : Nat]
Directory == [data : Seq(Row), meta : {"none", "torn", "valid"}]
Call == [pc : {"idle", "punctuate", "insert"}, rows : Seq(Row), at : Nat, tries : Nat,
         stored : SUBSET Row]
Flush == [pc : {"idle", "started", "visit", "encode", "truncate", "write", "open", "swap",
                "removeOldest"}, at : Nat, dir : Nat \X Nat]

-----------------------------------------------------------------------------
(* The list *)

(* ps links up without a cycle: ranks go down along it. *)
RanksOf(ps, N, rank) ==
    /\ N \in Nat /\ rank \in [0..Len(ps) -> 0..N]
    /\ \A k \in 1..Len(ps) : ps[k].next \in 0..Len(ps) /\ rank[ps[k].next] < rank[k]
Ranked(ps) == ps \in Seq(Partition) /\ \E N, rank : RanksOf(ps, N, rank)

FromIn(ps) ==
    CHOOSE f : f = [k \in 0..Len(ps) |-> IF k = 0 THEN <<>> ELSE <<k>> \o f[ps[k].next]]
ListIn(ps, h) == Range(FromIn(ps)[h])

(* What holds at all places because it holds at 0, and at a partition       *)
(* whenever it holds at the next one.                                       *)
AlongList(ps, P) ==
    /\ P \in SUBSET (0..Len(ps)) /\ 0 \in P
    /\ \A k \in 1..Len(ps) : ps[k].next \in P => k \in P

(* Induction along the list. *)
LEMMA ListInduction ==
    ASSUME NEW ps, Ranked(ps), NEW P, AlongList(ps, P)
    PROVE  P = 0..Len(ps)
<1> USE DEF AlongList
<1>1. PICK N, rank : RanksOf(ps, N, rank)
  BY DEF Ranked
<1>2. /\ rank \in [0..Len(ps) -> Nat]
      /\ \A k \in 1..Len(ps) : ps[k].next \in 0..Len(ps) /\ rank[ps[k].next] < rank[k]
  BY <1>1 DEF RanksOf
<1>3. Len(ps) \in Nat
  BY DEF Ranked
<1>4. ASSUME NEW x \in 0..Len(ps), \A y \in 0..Len(ps) : rank[y] < rank[x] => y \in P PROVE x \in P
  <2>1. CASE x = 0
    BY <2>1
  <2>2. CASE x \in 1..Len(ps)
    BY <1>2, <1>4, <2>2, Zenon
  <2> QED BY <1>3, <2>1, <2>2
<1>5. Inductive(0..Len(ps), rank, P)
  BY <1>2, <1>4 DEF Inductive
<1> QED BY <1>5, RankInduct

(* A walk from a partition along next, in the form of WalkExists *)
LEMMA RankedWalk ==
    ASSUME NEW ps, Ranked(ps), NEW V, NEW base, NEW step, Stepping(Len(ps), V, base, step)
    PROVE  \E f \in [0..Len(ps) -> V] :
              f[0] = base /\ \A k \in 1..Len(ps) : f[k] = step[<<k, f[ps[k].next]>>]
<1> DEFINE n == Len(ps)
           next == [k \in 1..n |-> ps[k].next]
<1>1. PICK N, rank : RanksOf(ps, N, rank)
  BY DEF Ranked
<1>2. n \in Nat /\ N \in Nat /\ rank \in [0..n -> 0..N] /\ next \in [1..n -> 0..n]
  BY <1>1 DEF RanksOf, Ranked
<1>3. \A k \in 1..n : next[k] = ps[k].next
  OBVIOUS
<1>4. \A k \in 1..n : rank[next[k]] < rank[k]
  BY <1>1, <1>3 DEF RanksOf
<1> HIDE DEF n, next
<1>5. Stepping(n, V, base, step) /\ Downward(n, next, N, rank)
  BY <1>2, <1>4 DEF n, Downward
<1>6. PICK f : Walks(f, n, next, V, base, step)
  BY <1>5, WalkExists, Zenon
<1>7. f \in [0..n -> V] /\ f[0] = base /\ \A k \in 1..n : f[k] = step[<<k, f[next[k]]>>]
  BY <1>6, Zenon DEF Walks
<1>8. \A k \in 1..n : f[k] = step[<<k, f[ps[k].next]>>]
  BY <1>3, <1>7, Zenon
<1> QED BY <1>7, <1>8, Zenon DEF n

(* An iterator ends: FromIn is what its definition says. *)
LEMMA FromInDef ==
    ASSUME NEW ps, Ranked(ps)
    PROVE  /\ FromIn(ps)[0] = <<>>
           /\ \A k \in 1..Len(ps) : FromIn(ps)[k] = <<k>> \o FromIn(ps)[ps[k].next]
           /\ \A k \in 0..Len(ps) : FromIn(ps)[k] \in Seq(1..Len(ps))
<1> DEFINE n == Len(ps)
           V == Seq(1..n)
           step == [x \in (1..n) \X V |-> <<x[1]>> \o x[2]]
<1>1. n \in Nat /\ \A k \in 1..n : ps[k].next \in 0..n
  BY DEF Ranked, RanksOf
<1>2. <<>> \in V /\ step \in [(1..n) \X V -> V]
  OBVIOUS
<1>3. PICK f \in [0..n -> V] : f[0] = <<>> /\ \A k \in 1..n : f[k] = step[<<k, f[ps[k].next]>>]
  <2>1. Stepping(n, V, <<>>, step)
    BY <1>2 DEF Stepping
  <2> HIDE DEF V, step
  <2> QED BY <2>1, RankedWalk
<1>4. \A k \in 1..n : f[k] = <<k>> \o f[ps[k].next]
  <2>1. ASSUME NEW k \in 1..n PROVE step[<<k, f[ps[k].next]>>] = <<k>> \o f[ps[k].next]
    <3>1. f[ps[k].next] \in V
      BY <1>1, <1>3, Zenon
    <3> HIDE DEF V
    <3> QED BY <3>1, Zenon
  <2> QED BY <1>3, <2>1, Zenon
<1>5. f = [k \in 0..n |-> IF k = 0 THEN <<>> ELSE <<k>> \o f[ps[k].next]]
  <2>1. \A k \in 0..n : f[k] = IF k = 0 THEN <<>> ELSE <<k>> \o f[ps[k].next]
    BY <1>1, <1>3, <1>4
  <2> QED BY <2>1, Zenon
<1> DEFINE g == FromIn(ps)
<1>6. g = [k \in 0..n |-> IF k = 0 THEN <<>> ELSE <<k>> \o g[ps[k].next]]
  BY <1>5, Zenon DEF FromIn
<1>7. g[0] = <<>> /\ \A k \in 1..n : g[k] = <<k>> \o g[ps[k].next]
  <2> HIDE DEF g
  <2>1. 0 \in 0..n /\ \A k \in 1..n : k \in 0..n /\ k # 0
    BY <1>1
  <2> QED BY <1>6, <2>1, Zenon
<1> DEFINE P == {k \in 0..n : g[k] \in V}
<1>8. P = 0..n
  <2> HIDE DEF g
  <2>1. P \in SUBSET (0..n) /\ 0 \in P
    <3>1. 0 \in 0..n /\ <<>> \in V
      BY <1>1
    <3> QED BY <1>7, <3>1, Zenon
  <2>2. ASSUME NEW k \in 1..n, ps[k].next \in P PROVE k \in P
    <3>1. g[ps[k].next] \in Seq(1..n)
      BY <2>2
    <3>2. <<k>> \o g[ps[k].next] \in Seq(1..n)
      <4> HIDE DEF n
      <4> QED BY <3>1
    <3>3. k \in 0..n /\ g[k] = <<k>> \o g[ps[k].next]
      <4>1. k \in 0..n
        BY <1>1
      <4> HIDE DEF n
      <4> QED BY <1>7, <4>1, Zenon
    <3> QED BY <3>2, <3>3, Zenon
  <2>3. AlongList(ps, P)
    BY <2>1, <2>2 DEF AlongList
  <2> HIDE DEF P
  <2> QED BY <2>3, ListInduction
<1>9. \A k \in 0..n : g[k] \in V
  <2> HIDE DEF g, V
  <2> QED BY <1>8
<1> QED BY <1>7, <1>9, Zenon

(* The partitions from a place on: the place itself and those from the next. *)
LEMMA ListStep ==
    ASSUME NEW ps, Ranked(ps)
    PROVE  /\ ListIn(ps, 0) = {}
           /\ \A k \in 1..Len(ps) : ListIn(ps, k) = {k} \cup ListIn(ps, ps[k].next)
           /\ \A k \in 0..Len(ps) : ListIn(ps, k) \subseteq 1..Len(ps)
<1>1. /\ FromIn(ps)[0] = <<>>
      /\ \A k \in 1..Len(ps) : FromIn(ps)[k] = <<k>> \o FromIn(ps)[ps[k].next]
      /\ \A k \in 0..Len(ps) : FromIn(ps)[k] \in Seq(1..Len(ps))
  BY FromInDef
<1>2. \A k \in 1..Len(ps) : ps[k].next \in 0..Len(ps)
  BY DEF Ranked, RanksOf
<1>3. ListIn(ps, 0) = {}
  BY <1>1 DEF ListIn, Range
<1>4. ASSUME NEW k \in 1..Len(ps) PROVE ListIn(ps, k) = {k} \cup ListIn(ps, ps[k].next)
  <2>1. FromIn(ps)[ps[k].next] \in Seq(1..Len(ps)) /\ FromIn(ps)[k] = <<k>> \o FromIn(ps)[ps[k].next]
    BY <1>1, <1>2, Zenon
  <2> QED BY <2>1, RangeCons DEF ListIn
<1>5. ASSUME NEW k \in 0..Len(ps) PROVE ListIn(ps, k) \subseteq 1..Len(ps)
  BY <1>1 DEF ListIn, Range
<1> QED BY <1>3, <1>4, <1>5, Zenon

(* What makes a set the partitions of a list *)
IsChain(S, h, ps) ==
    /\ h \in S /\ S \subseteq 1..Len(ps)
    /\ \A n \in S : ps[n].next = 0 \/ ps[n].next \in S
    /\ \A n \in S : n = h \/ \E m \in S : ps[m].next = n

(* The partitions that are reached from h are such a set ... *)
LEMMA ListIsChain ==
    ASSUME NEW ps, Ranked(ps), NEW h \in 1..Len(ps)
    PROVE  IsChain(ListIn(ps, h), h, ps)
<1> DEFINE L(k) == ListIn(ps, k)
           P == {k \in 0..Len(ps) : k = 0 \/ IsChain(L(k), k, ps)}
<1>1. /\ L(0) = {} /\ \A k \in 1..Len(ps) : L(k) = {k} \cup L(ps[k].next)
      /\ \A k \in 0..Len(ps) : L(k) \subseteq 1..Len(ps)
  BY ListStep
<1>2. Len(ps) \in Nat /\ \A k \in 1..Len(ps) : ps[k].next \in 0..Len(ps)
  BY DEF Ranked, RanksOf
<1>3. ASSUME NEW k \in 1..Len(ps), ps[k].next \in P PROVE k \in P
  <2> HIDE DEF L
  <2>1. k \in 0..Len(ps) /\ L(k) = {k} \cup L(ps[k].next) /\ L(k) \subseteq 1..Len(ps)
    BY <1>1, <1>2
  <2>2. CASE ps[k].next = 0
    BY <1>1, <2>1, <2>2, Zenon DEF IsChain
  <2>3. CASE IsChain(L(ps[k].next), ps[k].next, ps)
    BY <2>1, <2>3 DEF IsChain
  <2> QED BY <1>3, <2>2, <2>3
<1>4. AlongList(ps, P)
  <2>1. 0 \in P /\ P \in SUBSET (0..Len(ps))
    BY <1>2
  <2> HIDE DEF P
  <2> QED BY <1>3, <2>1 DEF AlongList
<1>5. P = 0..Len(ps)
  <2> HIDE DEF P
  <2> QED BY <1>4, ListInduction
<1> QED BY <1>2, <1>5

(* ... and no other set is. *)
LEMMA ChainIsList ==
    ASSUME NEW ps, Ranked(ps), NEW S, NEW h, IsChain(S, h, ps)
    PROVE  ListIn(ps, h) = S
<1> DEFINE L(k) == ListIn(ps, k)
           P == {k \in 0..Len(ps) : k \in S => L(k) \subseteq S}
<1>1. /\ L(0) = {} /\ \A k \in 1..Len(ps) : L(k) = {k} \cup L(ps[k].next)
      /\ \A k \in 0..Len(ps) : L(k) \subseteq 1..Len(ps)
  BY ListStep
<1>2. Len(ps) \in Nat /\ \A k \in 1..Len(ps) : ps[k].next \in 0..Len(ps)
  BY DEF Ranked, RanksOf
<1>3. h \in 1..Len(ps) /\ h \in 0..Len(ps) /\ 0 \notin S
  BY <1>2 DEF IsChain
<1>4. L(h) \subseteq S
  <2>1. ASSUME NEW k \in 1..Len(ps), ps[k].next \in P PROVE k \in P
    <3> HIDE DEF L
    <3>1. k \in 0..Len(ps) /\ L(k) = {k} \cup L(ps[k].next)
      BY <1>1, <1>2
    <3>2. k \in S => ps[k].next = 0 \/ ps[k].next \in S
      BY DEF IsChain
    <3> QED BY <1>1, <2>1, <3>1, <3>2
  <2>2. 0 \in P /\ P \in SUBSET (0..Len(ps))
    BY <1>1, <1>2
  <2>3. P = 0..Len(ps)
    <3> HIDE DEF P
    <3> QED BY <2>1, <2>2, ListInduction, Zenon DEF AlongList
  <2> QED BY <1>3, <2>3 DEF IsChain
<1>5. S \subseteq L(h)
  <2>1. PICK N, rank : RanksOf(ps, N, rank)
    BY DEF Ranked
  <2>2. /\ N \in Nat /\ rank \in [0..Len(ps) -> 0..N]
        /\ \A k \in 1..Len(ps) : rank[ps[k].next] < rank[k]
    BY <2>1 DEF RanksOf
  <2> DEFINE up == [k \in S |-> N - rank[k]]
             Q == S \cap L(h)
  <2>3. \A k \in S : k \in 1..Len(ps) /\ k \in 0..Len(ps) /\ rank[k] \in 0..N
    <3>1. \A k \in S : k \in 1..Len(ps)
      BY <1>2, Zenon DEF IsChain
    <3>2. Len(ps) \in Nat => \A k \in 1..Len(ps) : k \in 0..Len(ps)
      OBVIOUS
    <3> QED BY <1>2, <2>2, <3>1, <3>2, Zenon
  <2>4. up \in [S -> Nat] /\ \A k \in S : up[k] = N - rank[k]
    BY <2>2, <2>3
  <2>5. IsChain(L(h), h, ps)
    BY <1>3, ListIsChain
  <2>6. ASSUME NEW x \in S, \A y \in S : up[y] < up[x] => y \in Q PROVE x \in Q
    <3> HIDE DEF up, L
    <3>1. CASE x = h
      BY <2>5, <3>1, Zenon DEF IsChain
    <3>2. CASE x # h
      <4>1. PICK m \in S : ps[m].next = x
        BY <3>2, Zenon DEF IsChain
      <4>2. rank[x] < rank[m]
        BY <2>2, <2>3, <4>1, Zenon
      <4>3. up[m] < up[x]
        BY <2>2, <2>3, <2>4, <4>2
      <4>4. m \in L(h)
        BY <2>6, <4>3
      <4>5. x # 0
        BY <1>3
      <4> QED BY <2>5, <4>1, <4>4, <4>5, Zenon DEF IsChain
    <3> QED BY <3>1, <3>2
  <2>7. Inductive(S, up, Q)
    <3> HIDE DEF up, L
    <3> QED BY <2>4, <2>6 DEF Inductive
  <2>8. Q = S
    <3> HIDE DEF Q, up
    <3> QED BY <2>7, RankInduct
  <2> QED BY <2>8
<1> QED BY <1>4, <1>5

(* samePartitions: the first partition of the list with minimum v, or none. *)
MatchIn(ps, v) ==
    CHOOSE f : f = [k \in 0..Len(ps) |->
                      IF k = 0 THEN 0 ELSE IF ps[k].min = v THEN k ELSE f[ps[k].next]]

(* It is a partition of the list, and there is none only if no minimum is   *)
(* v.                                                                       *)
LEMMA MatchInFacts ==
    ASSUME NEW ps, Ranked(ps), NEW h \in 0..Len(ps), NEW v
    PROVE  \/ MatchIn(ps, v)[h] = 0 /\ \A m \in ListIn(ps, h) : ps[m].min # v
           \/ MatchIn(ps, v)[h] \in ListIn(ps, h) /\ ps[MatchIn(ps, v)[h]].min = v
<1> DEFINE n == Len(ps)
           V == 0..n
           step == [x \in (1..n) \X V |-> IF ps[x[1]].min = v THEN x[1] ELSE x[2]]
<1>1. n \in Nat /\ \A k \in 1..n : ps[k].next \in 0..n
  BY DEF Ranked, RanksOf
<1>2. Stepping(n, V, 0, step)
  <2>1. 0 \in V /\ step \in [(1..n) \X V -> V]
    BY <1>1
  <2> HIDE DEF step, V
  <2> QED BY <2>1 DEF Stepping
<1>3. PICK f \in [0..n -> V] : f[0] = 0 /\ \A k \in 1..n : f[k] = step[<<k, f[ps[k].next]>>]
  <2> HIDE DEF V, step
  <2> QED BY <1>2, RankedWalk
<1>4. \A k \in 1..n : f[k] = IF ps[k].min = v THEN k ELSE f[ps[k].next]
  BY <1>1, <1>3, Zenon
<1>5. f = [k \in 0..n |-> IF k = 0 THEN 0 ELSE IF ps[k].min = v THEN k ELSE f[ps[k].next]]
  <2>1. \A k \in 0..n : f[k] = IF k = 0 THEN 0 ELSE IF ps[k].min = v THEN k ELSE f[ps[k].next]
    BY <1>1, <1>3, <1>4
  <2> QED BY <2>1
<1> DEFINE g == MatchIn(ps, v)
<1>6. g = [k \in 0..n |-> IF k = 0 THEN 0 ELSE IF ps[k].min = v THEN k ELSE g[ps[k].next]]
  BY <1>5, Zenon DEF MatchIn
<1> HIDE DEF g, step
<1>7. g[0] = 0 /\ \A k \in 1..n : g[k] = IF ps[k].min = v THEN k ELSE g[ps[k].next]
  <2>1. 0 \in 0..n /\ \A k \in 1..n : k \in 0..n /\ k # 0
    BY <1>1
  <2> QED BY <1>6, <2>1, Zenon
<1> DEFINE L(k) == ListIn(ps, k)
           P == {k \in 0..n : \/ g[k] = 0 /\ \A m \in L(k) : ps[m].min # v
                              \/ g[k] \in L(k) /\ ps[g[k]].min = v}
<1>8. L(0) = {} /\ \A k \in 1..n : L(k) = {k} \cup L(ps[k].next)
  BY ListStep
<1> HIDE DEF L
<1>9. ASSUME NEW k \in 1..n, ps[k].next \in P PROVE k \in P
  <2>1. k \in 0..n
    BY <1>1
  <2> QED BY <1>7, <1>8, <1>9, <2>1
<1>10. 0 \in P /\ P \in SUBSET (0..n)
  BY <1>1, <1>7, <1>8
<1>11. P = 0..n
  <2> HIDE DEF P
  <2> QED BY <1>9, <1>10, ListInduction DEF AlongList
<1> QED BY <1>11 DEF g, L

(* Partitions that are changed and stay linked as they were *)
LEMMA SameLinks ==
    ASSUME NEW ps, Ranked(ps), NEW qs, Ranked(qs), NEW h \in 1..Len(ps),
           Len(qs) = Len(ps), \A k \in 1..Len(ps) : qs[k].next = ps[k].next
    PROVE  ListIn(qs, h) = ListIn(ps, h)
<1>1. IsChain(ListIn(ps, h), h, ps)
  BY ListIsChain
<1>2. IsChain(ListIn(ps, h), h, qs)
  BY <1>1 DEF IsChain
<1> QED BY <1>2, ChainIsList

(* insert: a new head *)
LEMMA NewHead ==
    ASSUME NEW ps, Ranked(ps), NEW h \in 1..Len(ps), NEW p, Ranked(Append(ps, p)), p.next = h
    PROVE  ListIn(Append(ps, p), Len(ps) + 1) = ListIn(ps, h) \cup {Len(ps) + 1}
<1> DEFINE qs == Append(ps, p)
           S == ListIn(ps, h) \cup {Len(ps) + 1}
<1>1. IsChain(ListIn(ps, h), h, ps)
  BY ListIsChain
<1>2. /\ Len(ps) \in Nat /\ Len(qs) = Len(ps) + 1 /\ qs[Len(ps) + 1] = p
      /\ \A k \in 1..Len(ps) : qs[k] = ps[k]
  BY DEF Ranked
<1> HIDE DEF qs
<1>3. IsChain(S, Len(ps) + 1, qs)
  BY <1>1, <1>2, SMTT(30) DEF IsChain
<1>4. Ranked(qs)
  BY DEF qs
<1>5. ListIn(qs, Len(ps) + 1) = S
  <2> HIDE DEF S
  <2> QED BY <1>3, <1>4, ChainIsList, Zenon
<1> QED BY <1>5 DEF qs

(* A partition of the list has a next one of its own. *)
LEMMA NoLoop ==
    ASSUME NEW ps, Ranked(ps), NEW k \in 1..Len(ps)
    PROVE  ps[k].next # k
BY DEF Ranked, RanksOf

(* Who was linked to m is linked to z. *)
Spliced(ps, qs, h, m, z) ==
    \A k \in 1..Len(ps) : qs[k].next = IF k \in ListIn(ps, h) /\ ps[k].next = m THEN z ELSE ps[k].next

(* remove: the partitions that led to m lead to what m led to. *)
LEMMA OneLess ==
    ASSUME NEW ps, Ranked(ps), NEW qs, Ranked(qs), NEW h \in 1..Len(ps), NEW m \in ListIn(ps, h), m # h,
           Len(qs) = Len(ps), Spliced(ps, qs, h, m, ps[m].next)
    PROVE  ListIn(qs, h) = ListIn(ps, h) \ {m}
<1>0. \A k \in 1..Len(ps) : qs[k].next =
          IF k \in ListIn(ps, h) /\ ps[k].next = m THEN ps[m].next ELSE ps[k].next
  BY Zenon DEF Spliced
<1> USE <1>0
<1> DEFINE S == ListIn(ps, h)
<1>1. IsChain(S, h, ps)
  BY ListIsChain
<1> HIDE DEF S
<1>2. m \in S /\ m \in 1..Len(ps) /\ m # 0
  BY <1>1 DEF S, IsChain, Ranked
<1>3. \A k \in 1..Len(ps) : qs[k].next = IF k \in S /\ ps[k].next = m THEN ps[m].next ELSE ps[k].next
  BY DEF S
<1>4. h \in S \ {m} /\ S \ {m} \subseteq 1..Len(qs)
  BY <1>1, Zenon DEF IsChain
<1>5. ASSUME NEW n \in S \ {m} PROVE qs[n].next = 0 \/ qs[n].next \in S \ {m}
  BY <1>1, <1>2, <1>3, NoLoop DEF IsChain
<1>6. ASSUME NEW n \in S \ {m}, n # h PROVE \E k \in S \ {m} : qs[k].next = n
  <2>1. PICK k \in S : ps[k].next = n
    BY <1>1, <1>6 DEF IsChain
  <2>2. k \in 1..Len(ps)
    BY <1>1 DEF IsChain
  <2>3. CASE k # m
    BY <1>3, <2>1, <2>2, <2>3, Zenon
  <2>4. CASE k = m
    <3>1. PICK j \in S : ps[j].next = m
      BY <1>1, <1>2 DEF IsChain
    <3>2. j \in 1..Len(ps) /\ j # m
      BY <1>1, <3>1, NoLoop DEF IsChain
    <3> QED BY <1>3, <2>1, <2>4, <3>1, <3>2, Zenon
  <2> QED BY <2>3, <2>4, Zenon
<1>7. IsChain(S \ {m}, h, qs)
  BY <1>4, <1>5, <1>6 DEF IsChain
<1> QED BY <1>7, ChainIsList DEF S

(* swap: they lead to the new one, which leads where m led. *)
LEMMA OneSwapped ==
    ASSUME NEW ps, Ranked(ps), NEW qs, Ranked(qs), NEW h \in 1..Len(ps), NEW m \in ListIn(ps, h), m # h,
           Len(qs) = Len(ps) + 1, qs[Len(ps) + 1].next = ps[m].next,
           Spliced(ps, qs, h, m, Len(ps) + 1)
    PROVE  ListIn(qs, h) = (ListIn(ps, h) \ {m}) \cup {Len(ps) + 1}
<1>0. \A k \in 1..Len(ps) : qs[k].next =
          IF k \in ListIn(ps, h) /\ ps[k].next = m THEN Len(ps) + 1 ELSE ps[k].next
  BY Zenon DEF Spliced
<1> USE <1>0
<1> DEFINE S == ListIn(ps, h)
           z == Len(ps) + 1
           T == (S \ {m}) \cup {z}
<1>1. IsChain(S, h, ps)
  BY ListIsChain
<1> HIDE DEF S
<1>2. m \in S /\ m \in 1..Len(ps) /\ m # 0 /\ Len(ps) \in Nat
  BY <1>1 DEF S, IsChain, Ranked
<1>3. /\ \A k \in 1..Len(ps) : qs[k].next = IF k \in S /\ ps[k].next = m THEN z ELSE ps[k].next
      /\ qs[z].next = ps[m].next /\ z \notin 1..Len(ps) /\ Len(qs) = z
  BY <1>2 DEF S
<1>4. h \in T /\ T \subseteq 1..Len(qs)
  <2>1. h \in S /\ S \subseteq 1..Len(ps)
    BY <1>1 DEF IsChain
  <2>2. z \in 1..Len(qs) /\ 1..Len(ps) \subseteq 1..Len(qs)
    BY <1>2, <1>3
  <2> QED BY <2>1, <2>2, Zenon
<1> HIDE DEF z
<1>5. ASSUME NEW n \in T PROVE qs[n].next = 0 \/ qs[n].next \in T
  <2>1. CASE n = z
    BY <1>1, <1>2, <1>3, <2>1, NoLoop DEF IsChain
  <2>2. CASE n \in S \ {m}
    BY <1>1, <1>2, <1>3, <2>2, NoLoop, Zenon DEF IsChain
  <2> QED BY <2>1, <2>2
<1>6. ASSUME NEW n \in T, n # h PROVE \E k \in T : qs[k].next = n
  <2>1. PICK j \in S : ps[j].next = m
    BY <1>1, <1>2 DEF IsChain
  <2>2. j \in 1..Len(ps) /\ j # m
    BY <1>1, <2>1, NoLoop, Zenon DEF IsChain
  <2>3. CASE n = z
    BY <1>3, <2>1, <2>2, <2>3, Zenon
  <2>4. CASE n \in S \ {m}
    <3>1. PICK k \in S : ps[k].next = n
      BY <1>1, <1>6, <2>4, Zenon DEF IsChain
    <3>2. k \in 1..Len(ps)
      BY <1>1, Zenon DEF IsChain
    <3>3. CASE k # m
      BY <1>3, <2>4, <3>1, <3>2, <3>3, Zenon
    <3>4. CASE k = m
      BY <1>3, <3>1, <3>4, Zenon
    <3> QED BY <3>3, <3>4
  <2> QED BY <2>3, <2>4
<1>7. IsChain(T, h, qs)
  <2> HIDE DEF T
  <2> QED BY <1>4, <1>5, <1>6 DEF IsChain
<1> QED BY <1>7, ChainIsList DEF S, z

(* The list of the storage *)
LEMMA ListedIn == Listed = ListIn(parts, head)
BY Zenon DEF Listed, From, ListIn, FromIn

(* A partition that shares its minimum with no other one of the list is     *)
(* found, if it is listed.                                                  *)
LEMMA MatchFinds ==
    ASSUME Ranked(parts), head \in 0..Len(parts), NEW t,
           \A m \in Listed : parts[m].min = parts[t].min => m = t
    PROVE  Match(t) = IF t \in Listed THEN t ELSE 0
<1>1. Match(t) = MatchIn(parts, parts[t].min)[head]
  BY Zenon DEF Match, MatchIn
<1>2. 0 \notin Listed
  BY ListedIn, ListStep DEF Ranked
<1>3. \/ Match(t) = 0 /\ \A m \in Listed : parts[m].min # parts[t].min
      \/ Match(t) \in Listed /\ parts[Match(t)].min = parts[t].min
  BY <1>1, ListedIn, MatchInFacts
<1> QED BY <1>2, <1>3

(* What removeExpiredPartitions finds has expired. *)
LEMMA ExpiredListFacts ==
    ASSUME Ranked(parts), head \in 0..Len(parts)
    PROVE  ExpiredList \in Seq({n \in 1..Len(parts) : IsExpired(n)})
<1> DEFINE n == Len(parts)
           S == {k \in 1..n : IsExpired(k)}
           V == Seq(S)
           step == [x \in (1..n) \X V |-> (IF IsExpired(x[1]) THEN <<x[1]>> ELSE <<>>) \o x[2]]
<1>1. n \in Nat /\ \A k \in 1..n : parts[k].next \in 0..n
  BY DEF Ranked, RanksOf
<1>2. ASSUME NEW k \in 1..n PROVE (IF IsExpired(k) THEN <<k>> ELSE <<>>) \in V
  <2>1. IsExpired(k) => k \in S
    OBVIOUS
  <2> HIDE DEF S
  <2> QED BY <2>1
<1>3. Stepping(n, V, <<>>, step)
  <2>1. <<>> \in V
    OBVIOUS
  <2>2. ASSUME NEW x \in (1..n) \X V
        PROVE (IF IsExpired(x[1]) THEN <<x[1]>> ELSE <<>>) \o x[2] \in V
    <3>1. x[1] \in 1..n /\ x[2] \in V
      OBVIOUS
    <3>2. (IF IsExpired(x[1]) THEN <<x[1]>> ELSE <<>>) \in V
      BY <1>2, <3>1, Zenon
    <3> HIDE DEF S
    <3> QED BY <3>1, <3>2
  <2>3. step \in [(1..n) \X V -> V]
    <3> HIDE DEF V
    <3> QED BY <2>2
  <2> HIDE DEF step, V
  <2> QED BY <2>1, <2>3 DEF Stepping
<1>4. PICK f \in [0..n -> V] : f[0] = <<>> /\ \A k \in 1..n : f[k] = step[<<k, f[parts[k].next]>>]
  <2> HIDE DEF V, step
  <2> QED BY <1>3, RankedWalk
<1>5. \A k \in 1..n : f[k] = (IF IsExpired(k) THEN <<k>> ELSE <<>>) \o f[parts[k].next]
  <2>1. ASSUME NEW k \in 1..n PROVE f[parts[k].next] \in V
    BY <1>1, <1>4
  <2> HIDE DEF V
  <2> QED BY <1>4, <2>1, Zenon
<1> HIDE DEF step
<1> DEFINE body(h, k) == IF k = 0 THEN <<>>
                         ELSE (IF IsExpired(k) THEN <<k>> ELSE <<>>) \o h[parts[k].next]
           g == CHOOSE h : h = [k \in 0..n |-> body(h, k)]
<1>6. f = [k \in 0..n |-> body(f, k)]
  <2>1. \A k \in 0..n : f[k] = body(f, k)
    <3>1. ASSUME NEW k \in 0..n PROVE k = 0 \/ k \in 1..n
      BY <1>1
    <3> QED BY <1>4, <1>5, <3>1, Zenon
  <2> HIDE DEF body
  <2> QED BY <2>1
<1>7. g = [k \in 0..n |-> body(g, k)]
  <2> HIDE DEF body
  <2> QED BY <1>6, Zenon
<1>8. ExpiredList = g[head]
  BY Zenon DEF ExpiredList
<1> HIDE DEF g
<1>9. g[0] = <<>> /\ \A k \in 1..n : g[k] = (IF IsExpired(k) THEN <<k>> ELSE <<>>) \o g[parts[k].next]
  <2>1. 0 \in 0..n /\ \A k \in 1..n : k \in 0..n /\ k # 0
    BY <1>1
  <2>2. \A k \in 0..n : g[k] = body(g, k)
    <3> HIDE DEF body
    <3> QED BY <1>7, Zenon
  <2> QED BY <2>1, <2>2, Zenon
<1> DEFINE P == {k \in 0..n : g[k] \in V}
<1>10. ASSUME NEW k \in 1..n, parts[k].next \in P PROVE k \in P
  <2>1. k \in 0..n /\ (IF IsExpired(k) THEN <<k>> ELSE <<>>) \in V /\ g[parts[k].next] \in V
    BY <1>1, <1>2, <1>10
  <2>2. (IF IsExpired(k) THEN <<k>> ELSE <<>>) \o g[parts[k].next] \in V
    <3> HIDE DEF S
    <3> QED BY <2>1
  <2>3. g[k] \in V
    <3> HIDE DEF V
    <3> QED BY <1>9, <2>2, Zenon
  <2> QED BY <2>1, <2>3
<1>11. 0 \in P /\ P \in SUBSET (0..n)
  <2>1. <<>> \in V /\ 0 \in 0..n
    BY <1>1
  <2> QED BY <1>9, <2>1, Zenon
<1>12. P = 0..n
  <2> HIDE DEF P
  <2> QED BY <1>10, <1>11, ListInduction, Zenon DEF AlongList
<1>13. g[head] \in V
  <2> HIDE DEF V
  <2> QED BY <1>12, Zenon
<1> QED BY <1>8, <1>13

-----------------------------------------------------------------------------
(* Rows into a partition *)

RowsIn(p) == Range(p.points) \cup Range(p.late)

(* append gives a longer slice of rows. *)
LEMMA AppendRow ==
    ASSUME NEW s \in Seq(Row), NEW r \in Row
    PROVE  Append(s, r) \in Seq(Row) /\ Append(s, r) # <<>>
<1>1. Append(s, r) \in Seq(Row)
  OBVIOUS
<1>2. Len(Append(s, r)) = Len(s) + 1 /\ Len(s) \in Nat
  OBVIOUS
<1>3. Len(Append(s, r)) # 0
  BY <1>2
<1>4. Len(<<>>) = 0
  OBVIOUS
<1> QED BY <1>1, <1>3, <1>4, Zenon

(* insertPoint: the row is in one of the two slices. *)
LEMMA InsertPointFacts ==
    ASSUME NEW p \in Partition, NEW r \in Row
    PROVE  LET q == InsertPoint(p, r)
           IN  /\ q \in Partition /\ q.kind = p.kind /\ q.next = p.next /\ q.min = p.min
               /\ q.max = Larger(p.max, r.ts) /\ q.points # <<>>
               /\ RowsIn(q) = RowsIn(p) \cup {r}
<1> DEFINE q == InsertPoint(p, r)
<1>1. p.points \in Seq(Row) /\ p.late \in Seq(Row) /\ p.max \in Nat /\ r.ts \in Nat
  BY DEF Partition, Row
<1>2. Larger(p.max, r.ts) \in Nat
  BY <1>1 DEF Larger
<1>3. /\ Append(p.points, r) \in Seq(Row) /\ Append(p.points, r) # <<>>
      /\ Append(p.late, r) \in Seq(Row)
  BY <1>1, AppendRow, Zenon
<1>4. CASE p.points = <<>> \/ Last(p.points).ts < r.ts
  <2>1. q = [p EXCEPT !.points = Append(p.points, r), !.max = Larger(p.max, r.ts)]
    BY <1>4 DEF InsertPoint
  <2>2. /\ q \in Partition /\ q.kind = p.kind /\ q.next = p.next /\ q.min = p.min
        /\ q.max = Larger(p.max, r.ts) /\ q.points = Append(p.points, r) /\ q.late = p.late
    BY <1>2, <1>3, <2>1, Zenon DEF Partition
  <2>3. Range(Append(p.points, r)) = Range(p.points) \cup {r}
    BY <1>1, RangeAppend
  <2> QED BY <1>3, <2>2, <2>3, Zenon DEF RowsIn
<1>5. CASE ~ (p.points = <<>> \/ Last(p.points).ts < r.ts)
  <2>1. q = [p EXCEPT !.late = Append(p.late, r), !.max = Larger(p.max, r.ts)]
    BY <1>5 DEF InsertPoint
  <2>2. /\ q \in Partition /\ q.kind = p.kind /\ q.next = p.next /\ q.min = p.min
        /\ q.max = Larger(p.max, r.ts) /\ q.points = p.points /\ q.late = Append(p.late, r)
    BY <1>2, <1>3, <2>1, Zenon DEF Partition
  <2>3. Range(Append(p.late, r)) = Range(p.late) \cup {r}
    BY <1>1, RangeAppend
  <2> QED BY <1>5, <2>2, <2>3, Zenon DEF RowsIn
<1> QED BY <1>4, <1>5

(* The loop of insertRows *)
InsertLoop(p, rows, min) ==
    CHOOSE f : f = [k \in 0..Len(rows) |->
        IF k = 0
        THEN [part |-> [p EXCEPT !.min = min, !.max = Larger(@, rows[1].ts)], outdated |-> <<>>]
        ELSE IF rows[k].ts < min
        THEN [f[k - 1] EXCEPT !.outdated = Append(@, rows[k])]
        ELSE [f[k - 1] EXCEPT !.part = InsertPoint(@, rows[k])]]

Inserted == [part : Partition, outdated : Seq(Row)]

Loops(f, p, rows, min) ==
    /\ f[0] = [part |-> [p EXCEPT !.min = min, !.max = Larger(@, rows[1].ts)], outdated |-> <<>>]
    /\ \A k \in 1..Len(rows) : f[k] =
          IF rows[k].ts < min
          THEN [f[k - 1] EXCEPT !.outdated = Append(@, rows[k])]
          ELSE [f[k - 1] EXCEPT !.part = InsertPoint(@, rows[k])]

(* The loop computes what its rounds say, row after row. *)
LEMMA InsertLoopDef ==
    ASSUME NEW p \in Partition, NEW rows \in Seq(Row), Len(rows) > 0, NEW min \in Nat
    PROVE  Loops(InsertLoop(p, rows, min), p, rows, min)
<1> DEFINE n == Len(rows)
           base == [part |-> [p EXCEPT !.min = min, !.max = Larger(@, rows[1].ts)], outdated |-> <<>>]
           one(v, k) == IF rows[k].ts < min THEN [v EXCEPT !.outdated = Append(@, rows[k])]
                        ELSE [v EXCEPT !.part = InsertPoint(@, rows[k])]
           step == [x \in (1..n) \X Inserted |-> one(x[2], x[1])]
<1>1. n \in Nat /\ \A k \in 1..n : rows[k] \in Row /\ rows[k].ts \in Nat
  <2>1. n \in Nat /\ \A k \in 1..n : rows[k] \in Row
    OBVIOUS
  <2> QED BY <2>1, Zenon DEF Row
<1>2. base \in Inserted
  <2>1. 1 \in 1..n
    BY <1>1
  <2>2. p.max \in Nat /\ rows[1].ts \in Nat
    BY <1>1, <2>1, Zenon DEF Partition
  <2>3. Larger(p.max, rows[1].ts) \in Nat
    BY <2>2 DEF Larger
  <2>4. [p EXCEPT !.min = min, !.max = Larger(@, rows[1].ts)] \in Partition
    BY <2>3, Zenon DEF Partition
  <2> QED BY <2>4 DEF Inserted
<1>3. ASSUME NEW k \in 1..n, NEW v \in Inserted PROVE one(v, k) \in Inserted
  <2>1. v.part \in Partition /\ v.outdated \in Seq(Row)
    BY DEF Inserted
  <2>2. InsertPoint(v.part, rows[k]) \in Partition
    BY <1>1, <2>1, InsertPointFacts, Zenon
  <2>3. Append(v.outdated, rows[k]) \in Seq(Row)
    BY <1>1, <2>1
  <2> QED BY <2>1, <2>2, <2>3, Zenon DEF Inserted
<1> HIDE DEF base, one
<1>4. Stepping(n, Inserted, base, step)
  BY <1>2, <1>3 DEF Stepping
<1>5. \A k \in 1..n : \A v \in Inserted : step[<<k, v>>] = one(v, k)
  OBVIOUS
<1> HIDE DEF step
<1>6. PICK f \in [0..n -> Inserted] : f[0] = base /\ \A k \in 1..n : f[k] = step[<<k, f[k - 1]>>]
  BY <1>1, <1>4, LoopExists
<1>7. ASSUME NEW k \in 1..n PROVE f[k] = one(f[k - 1], k)
  <2>1. f[k - 1] \in Inserted
    BY <1>1, <1>6
  <2> QED BY <1>5, <1>6, <2>1, Zenon
<1> DEFINE g == InsertLoop(p, rows, min)
           all(h) == [k \in 0..n |-> IF k = 0 THEN base ELSE one(h[k - 1], k)]
<1>8. f = all(f)
  <2>1. \A k \in 0..n : f[k] = IF k = 0 THEN base ELSE one(f[k - 1], k)
    BY <1>1, <1>6, <1>7
  <2> QED BY <2>1
<1>9. g = all(g)
  <2>1. g = CHOOSE h : h = all(h)
    BY Zenon DEF InsertLoop, one, base
  <2> HIDE DEF all, g
  <2> QED BY <1>8, <2>1, Zenon
<1> HIDE DEF g
<1>10. g[0] = base /\ \A k \in 1..n : g[k] = one(g[k - 1], k)
  <2>1. 0 \in 0..n /\ \A k \in 1..n : k \in 0..n /\ k # 0
    BY <1>1
  <2> QED BY <1>9, <2>1
<1> QED BY <1>10, Zenon DEF g, base, one, Loops

(* insertRows, with rows that are all newer than what the partition holds:  *)
(* it takes every one.                                                      *)
LEMMA InsertRowsFacts ==
    ASSUME NEW p \in Partition, NEW rows \in Seq(Row), rows # <<>>, NEW N \in Nat,
           p.min <= p.max, \A k \in 1..Len(rows) : p.max < rows[k].ts /\ rows[k].ts <= N
    PROVE  LET q == insertRows(p, rows).part
           IN  /\ insertRows(p, rows).outdated = <<>>
               /\ q \in Partition /\ q.kind = p.kind /\ q.next = p.next /\ q.points # <<>>
               /\ 0 < q.min /\ q.min <= q.max /\ q.max <= N
               /\ p.min # 0 => q.min = p.min
               /\ p.min = 0 => \E k \in 1..Len(rows) : q.min = rows[k].ts
               /\ RowsIn(q) = RowsIn(p) \cup Range(rows)
<1> DEFINE n == Len(rows)
           min == MinAfter(p, rows)
           f == InsertLoop(p, rows, min)
<1>1. n \in Nat /\ n > 0 /\ DOMAIN rows = 1..n /\ p.min \in Nat /\ p.max \in Nat
  BY DEF Partition
<1>2. \A k \in 1..n : /\ rows[k] \in Row /\ rows[k].ts \in Nat /\ rows[k].ts > 0
                      /\ p.max < rows[k].ts /\ rows[k].ts <= N
  <2>1. \A k \in 1..n : rows[k] \in Row
    OBVIOUS
  <2> QED BY <2>1, SMTT(30) DEF Row
<1> DEFINE T == {r.ts : r \in Range(rows)}
<1>3. T \in SUBSET Nat /\ T # {} /\ T = {rows[k].ts : k \in 1..n}
  <2>1. Range(rows) = {rows[k] : k \in 1..n}
    BY <1>1 DEF Range
  <2>2. T = {rows[k].ts : k \in 1..n}
    BY <2>1
  <2>3. 1 \in 1..n
    BY <1>1
  <2>4. rows[1].ts \in {rows[k].ts : k \in 1..n}
    BY <2>3
  <2> QED BY <1>2, <2>2, <2>4, Zenon
<1>4. Min(T) \in T /\ \A y \in T : Min(T) <= y
  <2> HIDE DEF T
  <2>1. \E x \in T : \A y \in T : x <= y
    BY <1>3, NatMin, Zenon
  <2> QED BY <2>1, Zenon DEF Min
<1>5. /\ min \in Nat /\ min > 0 /\ \A k \in 1..n : min <= rows[k].ts
      /\ p.min # 0 => min = p.min
      /\ p.min = 0 => \E k \in 1..n : min = rows[k].ts
  <2>1. CASE p.min # 0
    <3>1. min = p.min
      BY <2>1 DEF MinAfter
    <3> QED BY <1>1, <1>2, <2>1, <3>1
  <2>2. CASE p.min = 0
    <3>1. min = Min(T)
      BY <2>2 DEF MinAfter
    <3>2. PICK k \in 1..n : Min(T) = rows[k].ts
      BY <1>3, <1>4, Zenon
    <3>3. \A j \in 1..n : Min(T) <= rows[j].ts
      BY <1>3, <1>4, Zenon
    <3> QED BY <1>1, <1>2, <2>2, <3>1, <3>2, <3>3, Zenon
  <2> QED BY <2>1, <2>2, Zenon
<1>6. insertRows(p, rows) = f[n]
  BY Zenon DEF insertRows, InsertLoop
<1> HIDE DEF min, T
<1>7. /\ f[0] = [part |-> [p EXCEPT !.min = min, !.max = Larger(@, rows[1].ts)], outdated |-> <<>>]
      /\ \A k \in 1..n : f[k] = IF rows[k].ts < min
                                 THEN [f[k - 1] EXCEPT !.outdated = Append(@, rows[k])]
                                 ELSE [f[k - 1] EXCEPT !.part = InsertPoint(@, rows[k])]
  <2>1. min \in Nat /\ Len(rows) > 0
    BY <1>1, <1>5
  <2>2. Loops(f, p, rows, min)
    BY <2>1, InsertLoopDef
  <2> QED BY <2>2, Zenon DEF Loops
<1> HIDE DEF f
<1>8. ASSUME NEW k \in 1..n PROVE f[k] = [f[k - 1] EXCEPT !.part = InsertPoint(@, rows[k])]
  <2>1. ~ (rows[k].ts < min)
    BY <1>2, <1>5
  <2> QED BY <1>7, <2>1, Zenon
<1> DEFINE q(k) == f[k].part
           Good(k) == /\ f[k] \in Inserted /\ f[k].outdated = <<>>
                      /\ q(k).kind = p.kind /\ q(k).next = p.next /\ q(k).min = min
                      /\ min <= q(k).max /\ q(k).max <= N
                      /\ k > 0 => q(k).points # <<>>
                      /\ RowsIn(q(k)) = RowsIn(p) \cup {rows[j] : j \in 1..k}
           S == {k \in Nat : k <= n => Good(k)}
<1>9. Good(0)
  <2>1. 1 \in 1..n
    BY <1>1
  <2>2. q(0) = [p EXCEPT !.min = min, !.max = Larger(p.max, rows[1].ts)]
    BY <1>7 DEF Partition
  <2>3. Larger(p.max, rows[1].ts) = rows[1].ts
    BY <1>1, <1>2, <2>1 DEF Larger
  <2>4. /\ q(0) \in Partition /\ q(0).kind = p.kind /\ q(0).next = p.next /\ q(0).min = min
        /\ q(0).max = rows[1].ts /\ q(0).points = p.points /\ q(0).late = p.late
    BY <1>2, <1>5, <2>1, <2>2, <2>3, Zenon DEF Partition
  <2>5. f[0] \in Inserted /\ f[0].outdated = <<>>
    BY <1>7, <2>4 DEF Inserted
  <2>6. {rows[j] : j \in 1..0} = {}
    OBVIOUS
  <2>7. RowsIn(q(0)) = RowsIn(p)
    BY <2>4, Zenon DEF RowsIn
  <2> QED BY <1>2, <1>5, <2>1, <2>4, <2>5, <2>6, <2>7, SMTT(30)
<1>10. ASSUME NEW k \in S PROVE k + 1 \in S
  <2>1. SUFFICES ASSUME k + 1 <= n PROVE Good(k + 1)
    OBVIOUS
  <2>2. k \in Nat /\ k <= n /\ k + 1 \in 1..n /\ (k + 1) - 1 = k
    BY <1>1, <2>1
  <2>3. Good(k)
    BY <2>2, Zenon
  <2>4. q(k) \in Partition /\ rows[k + 1] \in Row /\ rows[k + 1].ts <= N /\ rows[k + 1].ts \in Nat
    BY <1>2, <2>2, <2>3, Zenon DEF Inserted
  <2>5. f[k + 1] = [f[k] EXCEPT !.part = InsertPoint(q(k), rows[k + 1])]
    BY <1>8, <2>2, Zenon
  <2> DEFINE r == InsertPoint(q(k), rows[k + 1])
  <2>6. /\ r \in Partition /\ r.kind = q(k).kind /\ r.next = q(k).next /\ r.min = q(k).min
        /\ r.max = Larger(q(k).max, rows[k + 1].ts) /\ r.points # <<>>
        /\ RowsIn(r) = RowsIn(q(k)) \cup {rows[k + 1]}
    BY <2>4, InsertPointFacts, Zenon
  <2>7. f[k + 1] \in Inserted /\ f[k + 1].outdated = <<>> /\ q(k + 1) = r
    BY <2>3, <2>5, <2>6, Zenon DEF Inserted
  <2>8. min <= r.max /\ r.max <= N
    <3>1. q(k).max \in Nat
      BY <2>4, Zenon DEF Partition
    <3> QED BY <1>5, <2>3, <2>4, <2>6, <3>1 DEF Larger
  <2>9. {rows[j] : j \in 1..(k + 1)} = {rows[j] : j \in 1..k} \cup {rows[k + 1]}
    BY <2>2, SMTT(30)
  <2> HIDE DEF r
  <2> QED BY <2>3, <2>6, <2>7, <2>8, <2>9, Zenon
<1>11. S = Nat
  <2>1. 0 \in S /\ S \in SUBSET Nat
    BY <1>9, Zenon
  <2> HIDE DEF S
  <2> QED BY <1>10, <2>1, SetInduction, Zenon
<1>12. Good(n)
  <2>1. n \in S
    <3> HIDE DEF S
    <3> QED BY <1>1, <1>11, Zenon
  <2> QED BY <1>1, <2>1
<1>13. {rows[j] : j \in 1..n} = Range(rows)
  BY <1>1, Zenon DEF Range
<1>14. q(n) \in Partition
  BY <1>12 DEF Inserted
<1> QED BY <1>1, <1>5, <1>6, <1>12, <1>13, <1>14, Zenon

-----------------------------------------------------------------------------
(* The inductive invariant *)

IsMemory(n) == n \in DOMAIN parts /\ parts[n].kind = "memory"
IsDisk(n) == n \in DOMAIN parts /\ parts[n].kind = "disk"
DirOf(n) == <<parts[n].min, parts[n].max>>

Second == parts[head].next
Third == IF Second = 0 THEN 0 ELSE parts[Second].next

(* The rows of a memory partition, and of any partition *)
Rows(n) == RowsIn(parts[n])
Kept(n) ==
    IF parts[n].kind = "memory" THEN Rows(n)
    ELSE IF Valid(DirOf(n)) THEN Range(dirs[DirOf(n)].data) ELSE {}

Typed ==
    /\ scenario \in Scenarios /\ calls \in Nat /\ index \in Nat
    /\ dirs \in [DOMAIN dirs -> Directory] /\ DOMAIN dirs \subseteq Nat \X Nat
    /\ segs \in [DOMAIN segs -> Seq(Row)] /\ DOMAIN segs \subseteq Nat
    /\ client \in Call /\ flusher \in [{1} -> Flush] /\ closer = NotClosing
    /\ sweep \in [DOMAIN sweep -> Seq(Nat)]
    /\ "Close" \in DOMAIN sweep => sweep["Close"] = <<>>

(* Along the list the minima descend. *)
Linked(ps, h, top) ==
    /\ ps \in Seq(Partition) /\ h \in DOMAIN ps /\ top \in Nat
    /\ \A n \in DOMAIN ps :
          /\ ps[n].min <= top
          /\ ps[n].next # 0 =>
                /\ ps[n].next \in DOMAIN ps /\ ps[ps[n].next].min > 0
                /\ ps[n].min > 0 => ps[ps[n].next].min < ps[n].min

(* A partition without rows is the head. *)
Filled ==
    \A n \in DOMAIN parts :
        /\ parts[n].min <= parts[n].max
        /\ parts[n].min = 0 =>
              n = head /\ parts[n].max = 0 /\ parts[n].points = <<>> /\ parts[n].late = <<>>
        /\ parts[n].min > 0 /\ parts[n].kind = "memory" => parts[n].points # <<>>

(* No two partitions of the list, or on the disk, have the same minimum.    *)
Apart ==
    \A m, n \in DOMAIN parts :
        /\ m \in Listed \/ IsDisk(m)
        /\ n \in Listed \/ IsDisk(n)
        /\ parts[m].min = parts[n].min
        => m = n

Flushing == {"encode", "truncate", "write", "open", "swap"}

(* Two memory partitions, a third that is about to be flushed, and disks    *)
Shape ==
    /\ IsMemory(head)
    /\ Second # 0 => IsMemory(Second)
    /\ \A n \in Listed : n \in {head, Second, Third} \/ IsDisk(n)
    /\ \A n \in DOMAIN parts :
          n = Third \/ IsDisk(n) => parts[n].next = 0 \/ IsDisk(parts[n].next)
    /\ IsMemory(Third) =>
          \/ client.pc = "punctuate" \/ flusher[1].pc = "started"
          \/ flusher[1].pc \in {"visit"} \cup Flushing /\ flusher[1].at = Third

(* What the rows of a call are newer than *)
Calling ==
    /\ client.pc = "idle" => \A n \in DOMAIN parts : parts[n].max <= newest
    /\ client.pc # "idle" =>
          /\ client.tries = 0 /\ client.stored = {} /\ client.rows # <<>>
          /\ \A k \in DOMAIN client.rows :
                /\ client.rows[k].ts <= newest
                /\ \A n \in DOMAIN parts : parts[n].max < client.rows[k].ts
    /\ client.pc = "insert" => client.at = head
    /\ client.pc = "punctuate" =>
          Second # 0 /\ parts[head].min = 0 /\ flusher[1].pc = "idle"

(* What a flush has done so far *)
FlushState ==
    LET fl == flusher[1]
    IN  /\ fl.pc = "visit" => fl.at = 0 \/ IsDisk(fl.at) \/ (fl.at = Third /\ IsMemory(Third))
        /\ fl.pc \in Flushing =>
              /\ fl.at = Third /\ IsMemory(Third) /\ fl.dir = DirOf(Third)
              /\ fl.dir \in DOMAIN dirs /\ scenario.mode # "memory"
              /\ fl.pc \in {"encode", "truncate"} => dirs[fl.dir].meta = "none"
              /\ fl.pc = "write" => dirs[fl.dir].meta = "torn"
              /\ fl.pc # "encode" => Range(dirs[fl.dir].data) = Rows(Third)
              /\ fl.pc \in {"open", "swap"} => dirs[fl.dir].meta = "valid"
        /\ fl.pc = "removeOldest" =>
              /\ fl.at \in DOMAIN parts /\ Second # 0
              /\ parts[fl.at].next = 0 \/ IsDisk(parts[fl.at].next)

(* The directories are those of the disk partitions, and of the flush. *)
Directories ==
    /\ \A d \in DOMAIN dirs :
          \/ dirs[d].meta = "valid" /\ \E n \in DOMAIN parts : IsDisk(n) /\ d = DirOf(n)
          \/ flusher[1].pc \in Flushing /\ d = flusher[1].dir
    /\ \A n \in Listed : IsDisk(n) => Valid(DirOf(n))
    /\ \A d \in expired :
          /\ \/ \E n \in DOMAIN parts : IsDisk(n) /\ d = DirOf(n)
             \/ flusher[1].pc \in {"open", "swap"} /\ d = flusher[1].dir
          /\ d \in DOMAIN dirs => Range(dirs[d].data) \subseteq retired
    /\ \A s \in DOMAIN sweep : \A k \in DOMAIN sweep[s] :
          IsDisk(sweep[s][k]) /\ DirOf(sweep[s][k]) \in expired

Holding == Owed \subseteq UNION {Kept(n) : n \in Listed}

(* The names of ten segments are sorted as their numbers are. *)
Tracked == Logging /\ index <= 10

(* Each memory partition has its segment, in the order of the list. *)
HeadSegment == IF client.pc = "punctuate" THEN index ELSE index - 1
OldestSegment ==
    IF Second = 0 THEN HeadSegment
    ELSE IF IsMemory(Third) \/ flusher[1].pc = "removeOldest" THEN HeadSegment - 2
    ELSE HeadSegment - 1
Segments ==
    Tracked =>
        /\ DOMAIN segs = OldestSegment..(index - 1)
        /\ client.pc # "punctuate" => Rows(head) \subseteq Range(segs[HeadSegment])
        /\ Second # 0 => Rows(Second) \subseteq Range(segs[HeadSegment - 1])
        /\ IsMemory(Third) => Rows(Third) \subseteq Range(segs[HeadSegment - 2])

Running ==
    /\ Typed /\ Linked(parts, head, newest) /\ Filled /\ Apart /\ Shape /\ Calling /\ FlushState /\ Directories
    /\ Holding /\ Segments

(* The process has ended. *)
Ended == status = "down" /\ client = Idle /\ scenario \in Scenarios

FirstRun ==
    /\ restarts \in Nat
    /\ restarts = 0 =>
          \/ status = "running" /\ Running
          \/ Ended
-----------------------------------------------------------------------------
(* What the invariant says of the list *)

(* The list has no cycle: minima go down along it, the empty head on top. *)
LEMMA LinkedRanked ==
    ASSUME NEW ps, NEW h, NEW top, Linked(ps, h, top)
    PROVE  Ranked(ps) /\ h \in 1..Len(ps) /\ h \in 0..Len(ps)
<1> DEFINE rank == [n \in 0..Len(ps) |-> IF n = 0 THEN 0
                                         ELSE IF ps[n].min = 0 THEN top + 1 ELSE ps[n].min]
<1>1. /\ ps \in Seq(Partition) /\ DOMAIN ps = 1..Len(ps) /\ Len(ps) \in Nat /\ h \in 1..Len(ps)
      /\ top \in Nat
  BY DEF Linked
<1>2. ASSUME NEW n \in 1..Len(ps)
      PROVE  /\ ps[n].min \in Nat /\ ps[n].min <= top
             /\ ps[n].next # 0 =>
                   /\ ps[n].next \in 1..Len(ps) /\ ps[ps[n].next].min > 0
                   /\ ps[n].min > 0 => ps[ps[n].next].min < ps[n].min
  <2>1. ps[n] \in Partition
    BY <1>1
  <2> QED BY <1>1, <2>1, Zenon DEF Linked, Partition
<1>3. rank \in [0..Len(ps) -> 0..(top + 1)]
  <2>1. \A n \in 0..Len(ps) : n = 0 \/ n \in 1..Len(ps)
    BY <1>1, SMTT(30)
  <2> QED BY <1>1, <1>2, <2>1
<1>4. ASSUME NEW n \in 1..Len(ps) PROVE ps[n].next \in 0..Len(ps) /\ rank[ps[n].next] < rank[n]
  <2>1. n \in 0..Len(ps) /\ n # 0 /\ 0 \in 0..Len(ps)
    BY <1>1
  <2>2. rank[n] = IF ps[n].min = 0 THEN top + 1 ELSE ps[n].min
    BY <2>1, Zenon
  <2>3. CASE ps[n].next = 0
    <3>1. rank[0] = 0
      BY <2>1, Zenon
    <3> QED BY <1>1, <1>2, <2>1, <2>2, <2>3, <3>1
  <2>4. CASE ps[n].next # 0
    <3>1. ps[n].next \in 1..Len(ps) /\ ps[n].next \in 0..Len(ps) /\ ps[ps[n].next].min > 0
      <4>1. ps[n].next \in 1..Len(ps) /\ ps[ps[n].next].min > 0
        BY <1>2, <2>4, Zenon
      <4> QED BY <1>1, <4>1
    <3>2. ps[ps[n].next].min \in Nat /\ ps[ps[n].next].min <= top
      BY <1>2, <3>1, Zenon
    <3>3. rank[ps[n].next] = ps[ps[n].next].min
      BY <2>4, <3>1, <3>2
    <3> HIDE DEF rank
    <3> QED BY <1>1, <1>2, <2>2, <2>4, <3>1, <3>2, <3>3, SMTT(30)
  <2> QED BY <2>3, <2>4
<1>5. top + 1 \in Nat
  BY <1>1
<1>6. RanksOf(ps, top + 1, rank)
  <2> HIDE DEF rank
  <2> QED BY <1>3, <1>4, <1>5, Zenon DEF RanksOf
<1>7. Ranked(ps)
  <2> HIDE DEF rank
  <2> QED BY <1>1, <1>6, Zenon DEF Ranked
<1> QED BY <1>1, <1>7

(* The list is the head and, if they are there, the second and the third    *)
(* partition, and others behind them.                                       *)
Places(h, second, third) ==
    /\ h \in DOMAIN parts /\ h \in Listed
    /\ second # 0 => second \in DOMAIN parts /\ second \in Listed /\ second # h
    /\ third # 0 => /\ third \in DOMAIN parts /\ third \in Listed /\ third # h /\ third # second
                    /\ second # 0

(* The first three partitions of the list are different ones. *)
LEMMA ListPlaces ==
    ASSUME Linked(parts, head, newest)
    PROVE  /\ Places(head, Second, Third)
           /\ Listed \subseteq DOMAIN parts /\ DOMAIN parts = 1..Len(parts) /\ 0 \notin DOMAIN parts
           /\ \A n \in DOMAIN parts : parts[n] \in Partition
           /\ \A n \in DOMAIN parts : parts[n].next # 0 => parts[n].next \in DOMAIN parts
           /\ \A n \in DOMAIN parts : parts[n].next # n
<1>1. /\ Ranked(parts) /\ head \in 1..Len(parts) /\ DOMAIN parts = 1..Len(parts)
      /\ 0 \notin DOMAIN parts /\ \A n \in DOMAIN parts : parts[n] \in Partition
  <2>1. Ranked(parts) /\ head \in 1..Len(parts)
    BY LinkedRanked, Zenon
  <2>2. parts \in Seq(Partition)
    BY Zenon DEF Linked
  <2>3. DOMAIN parts = 1..Len(parts) /\ Len(parts) \in Nat /\ \A n \in DOMAIN parts : parts[n] \in Partition
    BY <2>2
  <2> QED BY <2>1, <2>3
<1>2. IsChain(Listed, head, parts)
  BY <1>1, ListedIn, ListIsChain, Zenon
<1>3. \A n \in DOMAIN parts : parts[n].next # 0 => parts[n].next \in DOMAIN parts
  BY DEF Linked
<1>4. \A n \in DOMAIN parts : parts[n].next # n
  BY <1>1, NoLoop, Zenon
<1>5. Second # 0 => Second \in Listed /\ Second \in DOMAIN parts /\ Second # head
  BY <1>1, <1>2, <1>3, <1>4, Zenon DEF IsChain, Second
<1>6. ASSUME Third # 0 PROVE /\ Second # 0 /\ Third \in Listed /\ Third \in DOMAIN parts
                             /\ Third # Second /\ Third # head
  <2>1. Second # 0 /\ Third = parts[Second].next
    BY <1>6 DEF Third
  <2>2. Second \in DOMAIN parts /\ Second \in Listed
    BY <1>5, <2>1, Zenon
  <2>3. Third \in Listed /\ Third \in DOMAIN parts /\ Third # Second
    BY <1>2, <1>3, <1>4, <1>6, <2>1, <2>2, Zenon DEF IsChain
  <2>4. parts[Second].min > 0 /\ parts[Third].min < parts[Second].min /\ parts[Third].min > 0
    BY <1>1, <1>6, <2>1, <2>2, Zenon DEF Linked, Second
  <2>5. parts[head].min = 0 \/ parts[Second].min < parts[head].min
    BY <1>1, <2>1 DEF Linked, Second, Partition
  <2>6. /\ parts[head].min \in Nat /\ parts[Second].min \in Nat /\ parts[Third].min \in Nat
    BY <1>1, <2>2, <2>3, Zenon DEF Partition
  <2>7. parts[Third].min # parts[head].min
    BY <2>4, <2>5, <2>6
  <2> QED BY <2>1, <2>3, <2>7, Zenon
<1> QED BY <1>1, <1>2, <1>3, <1>4, <1>5, <1>6, Zenon DEF IsChain, Places

(* The iterator of flushPartitions starts at the third partition. *)
LEMMA IteratorStart ==
    ASSUME Linked(parts, head, newest)
    PROVE  (IF Len(From(head)) > writablePartitionsNum THEN From(head)[writablePartitionsNum + 1] ELSE 0)
           = Third
<1> DEFINE F(k) == FromIn(parts)[k]
<1>1. Ranked(parts) /\ head \in 1..Len(parts)
  BY LinkedRanked, Zenon
<1>2. /\ F(0) = <<>>
      /\ \A k \in 1..Len(parts) : F(k) = <<k>> \o F(parts[k].next)
      /\ \A k \in 0..Len(parts) : F(k) \in Seq(1..Len(parts))
  BY <1>1, FromInDef, Zenon
<1>3. From(head) = F(head)
  BY Zenon DEF From, FromIn
<1>4. Places(head, Second, Third) /\ DOMAIN parts = 1..Len(parts) /\ Len(parts) \in Nat
      /\ \A n \in DOMAIN parts : parts[n].next # 0 => parts[n].next \in DOMAIN parts
  BY ListPlaces DEF Linked
<1> HIDE DEF F
<1>5. F(head) = <<head>> \o F(Second)
  BY <1>1, <1>2, Zenon DEF Second
<1>6. CASE Second = 0
  <2>1. F(head) = <<head>> \o <<>>
    BY <1>2, <1>5, <1>6, Zenon
  <2>2. Len(F(head)) = 1
    BY <2>1
  <2> QED BY <1>3, <1>6, <2>2 DEF Third, writablePartitionsNum
<1>7. CASE Second # 0
  <2>1. F(Second) = <<Second>> \o F(Third) /\ Second \in 1..Len(parts)
    BY <1>2, <1>4, <1>7, Zenon DEF Third, Places
  <2>2. CASE Third = 0
    <3>1. F(head) = <<head>> \o (<<Second>> \o <<>>)
      BY <1>2, <1>5, <2>1, <2>2, Zenon
    <3>2. Len(F(head)) = 2
      BY <3>1
    <3> QED BY <1>3, <2>2, <3>2 DEF writablePartitionsNum
  <2>3. CASE Third # 0
    <3>1. Third \in 1..Len(parts) /\ parts[Third].next \in 0..Len(parts)
      BY <1>4, <2>3 DEF Places
    <3>2. F(Third) = <<Third>> \o F(parts[Third].next) /\ F(parts[Third].next) \in Seq(1..Len(parts))
      BY <1>2, <3>1, Zenon
    <3>3. PICK t \in Seq(1..Len(parts)) : t = F(parts[Third].next)
      BY <3>2, Zenon
    <3>4. F(head) = <<head>> \o (<<Second>> \o (<<Third>> \o t))
      BY <1>5, <2>1, <3>2, <3>3, Zenon
    <3>5. Len(F(head)) > 2 /\ F(head)[3] = Third
      BY <1>1, <2>1, <3>1, <3>3, <3>4
    <3> QED BY <1>3, <3>5 DEF writablePartitionsNum
  <2> QED BY <2>2, <2>3, Zenon
<1> QED BY <1>6, <1>7

(* The list stays when head and partitions do. *)
LEMMA SameListed ==
    ASSUME UNCHANGED list
    PROVE  Listed' = Listed
BY Zenon DEF list, Listed, From

(* Every row that is owed would survive a crash. *)
LEMMA RunningSafe ==
    ASSUME Running, Tracked
    PROVE  Safe
<1>1. Linked(parts, head, newest) /\ Filled /\ Shape /\ Directories /\ Holding /\ Segments /\ Calling
      /\ Typed
  BY Zenon DEF Running
<1>2. Places(head, Second, Third) /\ Listed \subseteq DOMAIN parts
  BY <1>1, ListPlaces
<1>3. SUFFICES ASSUME NEW n \in Listed PROVE Kept(n) \subseteq Logged \cup OnDisk
  BY <1>1 DEF Holding, Safe
<1>4. CASE parts[n].kind # "memory"
  <2>1. IsDisk(n)
    BY <1>1, <1>2, <1>4, ListPlaces, Zenon DEF IsDisk, Partition
  <2>2. Valid(DirOf(n)) /\ DirOf(n) \in DOMAIN dirs
    BY <1>1, <2>1, Zenon DEF Directories, Valid
  <2>3. Kept(n) = Range(dirs[DirOf(n)].data)
    BY <1>4, <2>2, Zenon DEF Kept
  <2> QED BY <2>2, <2>3, Zenon DEF OnDisk
<1>5. CASE parts[n].kind = "memory"
  <2>1. Kept(n) = Rows(n) /\ n \in {head, Second, Third} /\ n \in DOMAIN parts
    BY <1>1, <1>2, <1>5, Zenon DEF Kept, Shape, IsDisk
  <2>2. n # 0
    BY <1>1, <2>1, ListPlaces, Zenon
  <2>3. index \in Nat
    BY <1>1 DEF Typed
  <2>4. DOMAIN segs = OldestSegment..(index - 1)
    BY <1>1 DEF Segments
  <2>5. SUFFICES ASSUME Rows(n) # {} PROVE \E i \in DOMAIN segs : Rows(n) \subseteq Range(segs[i])
    BY <2>1 DEF Logged
  <2>6. CASE n = head
    <3>1. CASE client.pc = "punctuate"
      <4>1. parts[head].points = <<>> /\ parts[head].late = <<>>
        BY <1>1, <2>1, <2>6, <3>1, Zenon DEF Calling, Filled
      <4> QED BY <2>5, <2>6, <4>1 DEF Rows, RowsIn, Range
    <3>2. CASE client.pc # "punctuate"
      <4>1. HeadSegment \in DOMAIN segs
        BY <2>3, <2>4, <3>2 DEF OldestSegment, HeadSegment
      <4> QED BY <1>1, <2>6, <3>2, <4>1, Zenon DEF Segments
    <3> QED BY <3>1, <3>2, Zenon
  <2>7. CASE n = Second
    <3>1. HeadSegment - 1 \in DOMAIN segs
      BY <2>2, <2>3, <2>4, <2>7 DEF OldestSegment, HeadSegment
    <3> QED BY <1>1, <2>2, <2>7, <3>1, Zenon DEF Segments
  <2>8. CASE n = Third
    <3>1. IsMemory(Third) /\ Second # 0
      BY <1>2, <1>5, <2>1, <2>2, <2>8, Zenon DEF IsMemory, Places
    <3>2. HeadSegment - 2 \in DOMAIN segs
      BY <2>3, <2>4, <3>1 DEF OldestSegment, HeadSegment
    <3> QED BY <1>1, <2>8, <3>1, <3>2, Zenon DEF Segments
  <2> QED BY <2>1, <2>6, <2>7, <2>8, Zenon
<1> QED BY <1>4, <1>5, Zenon

-----------------------------------------------------------------------------
(* flushPartitions keeps the invariant: the steps that leave the list alone *)

(* What such a step leaves as it was *)
LEMMA FlushFrame ==
    ASSUME Running, UNCHANGED <<list, client, newest>>, flusher[1].pc # "idle"
    PROVE  /\ Linked(parts', head', newest') /\ Filled' /\ Apart' /\ Calling'
           /\ Listed' = Listed /\ client.pc # "punctuate"
<1>1. Listed' = Listed /\ parts' = parts /\ head' = head /\ client' = client /\ newest' = newest
  BY SameListed, Zenon DEF list
<1>2. Linked(parts, head, newest) /\ Filled /\ Apart /\ Calling
  BY DEF Running
<1>3. Linked(parts', head', newest')
  BY <1>1, <1>2, Zenon
<1>4. Filled'
  BY <1>1, <1>2, Zenon DEF Filled
<1>5. Apart'
  BY <1>1, <1>2, Zenon DEF Apart, IsDisk
<1>6. client.pc # "punctuate"
  BY <1>2, Zenon DEF Calling
<1>7. Calling'
  BY <1>1, <1>2, <1>6, Zenon DEF Calling, Second
<1> QED BY <1>1, <1>3, <1>4, <1>5, <1>6, <1>7, Zenon

(* The iterator goes to the third partition. *)
LEMMA SkipWritableKeeps ==
    ASSUME Running, SkipWritable(1)
    PROVE  Running'
<1>1. Typed /\ Linked(parts, head, newest) /\ Shape /\ FlushState /\ Directories /\ Holding /\ Segments
  BY DEF Running
<1>2. /\ UNCHANGED <<list, client, newest>> /\ flusher[1].pc = "started" /\ parts' = parts /\ head' = head
      /\ client' = client
      /\ UNCHANGED <<wal, dirs, sweep, closer, expired, retired, acked, calls, scenario>>
  BY DEF SkipWritable, At, history, list, retention
<1>3. /\ Linked(parts', head', newest') /\ Filled' /\ Apart' /\ Calling'
      /\ Listed' = Listed /\ client.pc # "punctuate"
  BY <1>2, FlushFrame
<1>4. flusher' = [flusher EXCEPT ![1].pc = "visit", ![1].at = Third]
  BY <1>1, IteratorStart, Zenon DEF SkipWritable
<1>5. Places(head, Second, Third) /\ \A n \in DOMAIN parts : parts[n] \in Partition
  BY <1>1, ListPlaces, Zenon
<1>6. Third \in Nat
  BY <1>5 DEF Third, Second, Partition, Places
<1>7. /\ flusher[1] \in Flush /\ flusher' \in [{1} -> Flush]
      /\ flusher'[1].pc = "visit" /\ flusher'[1].at = Third
  BY <1>1, <1>4, <1>6, Zenon DEF Typed, Flush
<1>8. Third # 0 => Third \in DOMAIN parts /\ (parts[Third].kind = "memory" \/ parts[Third].kind = "disk")
  BY <1>5, Zenon DEF Places, Partition
<1>9. Typed'
  BY <1>1, <1>2, <1>7, Zenon DEF Typed, wal
<1>10. Shape'
  BY <1>1, <1>2, <1>3, <1>7, Zenon DEF Shape, IsMemory, IsDisk, Second, Third
<1>11. FlushState'
  BY <1>2, <1>7, <1>8, ZenonT(60) DEF FlushState, Flushing, IsMemory, IsDisk, Second, Third
<1>12. Directories'
  BY <1>1, <1>2, <1>3, <1>7 DEF Directories, Flushing, IsDisk, DirOf, Valid
<1>13. Holding'
  BY <1>1, <1>2, <1>3, ZenonT(60) DEF Holding, Owed, Kept, Rows, Valid, DirOf
<1>14. Segments'
  BY <1>1, <1>2, <1>3, <1>7, Zenon
     DEF Segments, Tracked, Logging, HeadSegment, OldestSegment, Rows, wal, IsMemory, Second, Third
<1> QED BY <1>3, <1>9, <1>10, <1>11, <1>12, <1>13, <1>14, Zenon DEF Running

(* It passes over disk partitions, behind which there are only others. *)
LEMMA SkipDiskKeeps ==
    ASSUME Running, SkipDisk(1)
    PROVE  Running'
<1>1. Typed /\ Linked(parts, head, newest) /\ Shape /\ FlushState /\ Directories /\ Holding /\ Segments
  BY DEF Running
<1>2. /\ UNCHANGED <<list, client, newest>> /\ flusher[1].pc = "visit" /\ parts' = parts /\ head' = head
      /\ client' = client
      /\ UNCHANGED <<wal, dirs, sweep, closer, expired, retired, acked, calls, scenario>>
  BY Zenon DEF SkipDisk, At, history, list, retention
<1>3. /\ Linked(parts', head', newest') /\ Filled' /\ Apart' /\ Calling'
      /\ Listed' = Listed /\ client.pc # "punctuate"
  BY <1>2, FlushFrame, Zenon
<1>4. Places(head, Second, Third) /\ \A n \in DOMAIN parts : parts[n] \in Partition
  BY <1>1, ListPlaces
<1>5. flusher \in [{1} -> Flush] /\ flusher[1] \in Flush /\ closer.flusher = 0
  BY <1>1 DEF Typed, NotClosing
<1>6. ~ IsMemory(Third) /\ flusher' \in [{1} -> Flush]
      /\ \/ flusher'[1].pc = "idle"
         \/ flusher'[1].pc = "visit" /\ (flusher'[1].at = 0 \/ IsDisk(flusher'[1].at))
  <2>1. CASE flusher[1].at = 0 /\ FlushReturns(1, "done")
    <3>1. flusher' = [flusher EXCEPT ![1] = NoFlush]
      <4>1. [NoFlush EXCEPT !.pc = "idle"] = NoFlush
        BY DEF NoFlush
      <4>2. closer.flusher # 1
        BY <1>5
      <4>3. flusher' = [flusher EXCEPT ![1] = [NoFlush EXCEPT !.pc = "idle"]]
        BY <2>1, <4>2, Zenon DEF FlushReturns
      <4> QED BY <4>1, <4>3, Zenon
    <3>2. NoFlush \in Flush /\ NoFlush.pc = "idle"
      BY DEF NoFlush, Flush
    <3>3. Third # 0 => Third \in DOMAIN parts
      BY <1>4, Zenon DEF Places
    <3>4. 0 \notin DOMAIN parts
      BY <1>1, ListPlaces, Zenon
    <3>5. ~ IsMemory(Third)
      BY <1>1, <1>2, <1>3, <2>1, <3>4, Zenon DEF Shape, IsMemory
    <3> QED BY <1>5, <3>1, <3>2, <3>5, Zenon
  <2>2. CASE /\ flusher[1].at # 0 /\ parts[flusher[1].at].kind = "disk"
             /\ flusher' = [flusher EXCEPT ![1].at = parts[@].next]
    <3>1. IsDisk(flusher[1].at)
      BY <1>1, <1>2, <2>2, Zenon DEF FlushState, IsDisk, IsMemory
    <3>2. /\ flusher[1].at \in DOMAIN parts
          /\ parts[flusher[1].at].next = 0 \/ IsDisk(parts[flusher[1].at].next)
      BY <1>1, <3>1, Zenon DEF Shape, IsDisk
    <3>3. parts[flusher[1].at].next \in Nat
      BY <1>4, <3>2, Zenon DEF Partition
    <3>4. ~ IsMemory(Third)
      BY <1>1, <1>2, <1>3, <3>1, Zenon DEF Shape, IsMemory, IsDisk
    <3>5. /\ flusher' \in [{1} -> Flush] /\ flusher'[1].pc = "visit"
          /\ flusher'[1].at = parts[flusher[1].at].next
      BY <1>2, <1>5, <2>2, <3>3, Zenon DEF Flush
    <3> QED BY <3>2, <3>4, <3>5, Zenon
  <2> QED BY <2>1, <2>2, Zenon DEF SkipDisk
<1>7. Typed'
  BY <1>1, <1>2, <1>6, Zenon DEF Typed, wal
<1>8. Shape'
  BY <1>1, <1>2, <1>3, <1>6, Zenon DEF Shape, IsMemory, IsDisk, Second, Third
<1>9. FlushState'
  BY <1>2, <1>6, ZenonT(60) DEF FlushState, Flushing, IsMemory, IsDisk, Second, Third
<1>10. Directories'
  BY <1>1, <1>2, <1>3, <1>6, Zenon DEF Directories, Flushing, IsDisk, DirOf, Valid
<1>11. Holding'
  BY <1>1, <1>2, <1>3, ZenonT(60) DEF Holding, Owed, Kept, Rows, Valid, DirOf
<1>12. Segments'
  BY <1>1, <1>2, <1>3, <1>6, Zenon
     DEF Segments, Tracked, Logging, HeadSegment, OldestSegment, Rows, wal, IsMemory, Second, Third
<1> QED BY <1>3, <1>7, <1>8, <1>9, <1>10, <1>11, <1>12 DEF Running

(* Nothing on the disk or in the list has the directory of a third          *)
(* partition that is in memory.                                             *)
LEMMA DirIsNew ==
    ASSUME Running, IsMemory(Third)
    PROVE  /\ Third \in DOMAIN parts /\ Third \in Listed /\ Third # 0 /\ DirOf(Third) \in Nat \X Nat
           /\ parts[Third].min > 0 /\ parts[Third].points # <<>>
           /\ parts[Third].points \in Seq(Row) /\ parts[Third].late \in Seq(Row)
           /\ \A n \in DOMAIN parts : IsDisk(n) => DirOf(n) # DirOf(Third)
<1>1. Linked(parts, head, newest) /\ Filled /\ Apart
  BY Zenon DEF Running
<1>2. Places(head, Second, Third) /\ 0 \notin DOMAIN parts /\ \A n \in DOMAIN parts : parts[n] \in Partition
  BY <1>1, ListPlaces, Zenon
<1>3. Third \in DOMAIN parts /\ Third \in Listed /\ Third # 0 /\ Third # head /\ parts[Third].kind = "memory"
  BY <1>2, Zenon DEF Places, IsMemory
<1>4. /\ parts[Third].min \in Nat /\ parts[Third].max \in Nat
      /\ parts[Third].points \in Seq(Row) /\ parts[Third].late \in Seq(Row)
  BY <1>2, <1>3, Zenon DEF Partition
<1>5. parts[Third].min > 0 /\ parts[Third].points # <<>>
  BY <1>1, <1>3, <1>4 DEF Filled
<1>6. ASSUME NEW n \in DOMAIN parts, IsDisk(n) PROVE DirOf(n) # DirOf(Third)
  BY <1>1, <1>3, <1>6, Zenon DEF Apart, DirOf, IsDisk
<1> QED BY <1>3, <1>4, <1>5, <1>6, Zenon DEF DirOf

(* The directory of the third partition is made. *)
LEMMA CreateDataFileKeeps ==
    ASSUME Running, CreateDataFile(1)
    PROVE  Running'
<1>1. Typed /\ Linked(parts, head, newest) /\ Shape /\ FlushState /\ Directories /\ Holding /\ Segments
  BY DEF Running
<1>2. /\ UNCHANGED <<list, client, newest>> /\ flusher[1].pc = "visit" /\ parts' = parts /\ head' = head
      /\ client' = client /\ scenario.mode # "memory"
      /\ UNCHANGED <<wal, sweep, closer, expired, retired, acked, calls, scenario>>
  BY Zenon DEF CreateDataFile, At, history, list, retention
<1>3. /\ Linked(parts', head', newest') /\ Filled' /\ Apart' /\ Calling'
      /\ Listed' = Listed /\ client.pc # "punctuate"
  BY <1>2, FlushFrame, Zenon
<1>4. flusher[1].at = Third /\ IsMemory(Third)
  BY <1>1, <1>2, Zenon DEF CreateDataFile, FlushState, IsDisk
<1> DEFINE d == DirOf(Third)
<1>5. /\ d \in Nat \X Nat /\ Third \in DOMAIN parts
      /\ \A n \in DOMAIN parts : IsDisk(n) => DirOf(n) # d
  BY <1>4, DirIsNew, Zenon
<1>6. d \notin DOMAIN dirs
  BY <1>1, <1>2, <1>5, Zenon DEF Directories, Flushing
<1>7. /\ dirs' = [e \in DOMAIN dirs \cup {d} |-> IF e = d THEN NewDir ELSE dirs[e]]
      /\ flusher' = [flusher EXCEPT ![1].pc = "encode", ![1].dir = d]
  BY <1>4, <1>6, Zenon DEF CreateDataFile, DirOf
<1> HIDE DEF d
<1>8. NewDir \in Directory /\ NewDir.meta = "none" /\ Range(NewDir.data) = {}
  BY DEF NewDir, Directory, Range
<1>9. /\ DOMAIN dirs' = DOMAIN dirs \cup {d} /\ dirs'[d] = NewDir
      /\ \A e \in DOMAIN dirs : dirs'[e] = dirs[e] /\ e # d
  BY <1>6, <1>7, Zenon
<1>10. /\ flusher' \in [{1} -> Flush] /\ flusher'[1].pc = "encode" /\ flusher'[1].dir = d
       /\ flusher'[1].at = Third
  BY <1>1, <1>4, <1>5, <1>7, ZenonT(60) DEF Typed, Flush
<1>11. Third' = Third /\ Second' = Second /\ IsMemory(Third)' /\ DirOf(Third)' = d
  BY <1>2, <1>4, Zenon DEF Third, Second, IsMemory, DirOf, d
<1>12. Typed'
  <2>1. dirs' \in [DOMAIN dirs' -> Directory] /\ DOMAIN dirs' \subseteq Nat \X Nat
    BY <1>1, <1>5, <1>7, <1>8, <1>9, Zenon DEF Typed
  <2> QED BY <1>1, <1>2, <1>10, <2>1, Zenon DEF Typed, wal
<1>13. Shape'
  BY <1>1, <1>2, <1>3, <1>10, <1>11, Zenon DEF Shape, IsMemory, IsDisk, Flushing, Second
<1>14. FlushState'
  BY <1>2, <1>8, <1>9, <1>10, <1>11, Zenon DEF FlushState, Flushing
<1>15. ASSUME NEW n \in DOMAIN parts, IsDisk(n)
       PROVE  Valid(DirOf(n))' = Valid(DirOf(n)) /\ DirOf(n)' = DirOf(n)
              /\ (Valid(DirOf(n)) => dirs'[DirOf(n)] = dirs[DirOf(n)])
  BY <1>2, <1>5, <1>9, <1>15, Zenon DEF Valid, DirOf
<1>16. Directories'
  <2>1. \A e \in DOMAIN dirs' :
            \/ dirs'[e].meta = "valid" /\ \E n \in DOMAIN parts' : IsDisk(n)' /\ e = DirOf(n)'
            \/ flusher'[1].pc \in Flushing /\ e = flusher'[1].dir
    BY <1>1, <1>2, <1>9, <1>10, Zenon DEF Directories, Flushing, IsDisk, DirOf
  <2>2. \A n \in Listed' : IsDisk(n)' => Valid(DirOf(n))'
    BY <1>1, <1>2, <1>3, <1>15, Zenon DEF Directories, IsDisk
  <2>3. \A e \in expired' :
            /\ \/ \E n \in DOMAIN parts' : IsDisk(n)' /\ e = DirOf(n)'
               \/ flusher'[1].pc \in {"open", "swap"} /\ e = flusher'[1].dir
            /\ e \in DOMAIN dirs' => Range(dirs'[e].data) \subseteq retired'
    BY <1>1, <1>2, <1>8, <1>9, <1>10, Zenon DEF Directories, IsDisk, DirOf
  <2>4. \A s \in DOMAIN sweep' : \A k \in DOMAIN sweep'[s] :
            IsDisk(sweep[s][k])' /\ DirOf(sweep[s][k])' \in expired'
    BY <1>1, <1>2, Zenon DEF Directories, IsDisk, DirOf
  <2> QED BY <2>1, <2>2, <2>3, <2>4, Zenon DEF Directories
<1>17. Holding'
  <2>1. ASSUME NEW n \in Listed PROVE Kept(n)' = Kept(n)
    <3>1. n \in DOMAIN parts /\ (parts[n].kind = "memory" \/ IsDisk(n))
      BY <1>1, ListPlaces, Zenon DEF IsDisk, Partition
    <3>2. CASE parts[n].kind = "memory"
      BY <1>2, <3>2, Zenon DEF Kept, Rows
    <3>3. CASE IsDisk(n)
      BY <1>2, <1>15, <3>1, <3>3, Zenon DEF Kept, IsDisk
    <3> QED BY <3>1, <3>2, <3>3, Zenon
  <2> QED BY <1>1, <1>2, <1>3, <2>1, Zenon DEF Holding, Owed
<1>18. Segments'
  BY <1>1, <1>2, <1>3, <1>10, Zenon
     DEF Segments, Tracked, Logging, HeadSegment, OldestSegment, Rows, wal, IsMemory, Second, Third
<1> QED BY <1>3, <1>12, <1>13, <1>14, <1>16, <1>17, <1>18 DEF Running

(* A step of a flush that only touches its own directory *)
LEMMA FlushDirFrame ==
    ASSUME Running, flusher[1].pc \in Flushing, UNCHANGED <<list, acked, retired>>,
           DOMAIN dirs' = DOMAIN dirs,
           \A e \in DOMAIN dirs : e # flusher[1].dir => dirs'[e] = dirs[e]
    PROVE  /\ Holding'
           /\ \A n \in Listed' : IsDisk(n)' => Valid(DirOf(n))'
<1>1. Linked(parts, head, newest) /\ FlushState /\ Directories /\ Holding
  BY Zenon DEF Running
<1>2. parts' = parts /\ head' = head /\ Listed' = Listed
  BY SameListed, Zenon DEF list
<1>3. IsMemory(Third) /\ flusher[1].dir = DirOf(Third)
  BY <1>1, Zenon DEF FlushState
<1>4. \A n \in DOMAIN parts : IsDisk(n) => DirOf(n) # flusher[1].dir
  BY <1>3, DirIsNew, Zenon
<1>5. ASSUME NEW n \in DOMAIN parts, IsDisk(n)
      PROVE  Valid(DirOf(n))' = Valid(DirOf(n)) /\ DirOf(n)' = DirOf(n)
             /\ (Valid(DirOf(n)) => dirs'[DirOf(n)] = dirs[DirOf(n)])
  BY <1>2, <1>4, <1>5, Zenon DEF Valid, DirOf
<1>6. Listed \subseteq DOMAIN parts /\ \A n \in DOMAIN parts : parts[n] \in Partition
  BY <1>1, ListPlaces, Zenon
<1>7. \A n \in Listed' : IsDisk(n)' => Valid(DirOf(n))'
  BY <1>1, <1>2, <1>5, <1>6, Zenon DEF Directories, IsDisk
<1>8. ASSUME NEW n \in Listed PROVE Kept(n)' = Kept(n)
  <2>1. n \in DOMAIN parts /\ (parts[n].kind = "memory" \/ IsDisk(n))
    BY <1>6 DEF IsDisk, Partition
  <2>2. CASE parts[n].kind = "memory"
    BY <1>2, <2>2, ZenonT(60) DEF Kept, Rows
  <2>3. CASE IsDisk(n)
    BY <1>2, <1>5, <2>1, <2>3, Zenon DEF Kept, IsDisk
  <2> QED BY <2>1, <2>2, <2>3, Zenon
<1>9. Holding'
  BY <1>1, <1>2, <1>8, Zenon DEF Holding, Owed
<1> QED BY <1>7, <1>9, Zenon

(* The points are written. *)
LEMMA EncodePointsKeeps ==
    ASSUME Running, EncodePoints(1)
    PROVE  Running'
<1>1. Typed /\ Linked(parts, head, newest) /\ Shape /\ FlushState /\ Directories /\ Holding /\ Segments
  BY DEF Running
<1>2. /\ UNCHANGED <<list, client, newest>> /\ flusher[1].pc = "encode" /\ parts' = parts /\ head' = head
      /\ client' = client
      /\ UNCHANGED <<wal, sweep, closer, expired, retired, acked, calls, scenario>>
  BY Zenon DEF EncodePoints, At, history, list, retention
<1>3. /\ Linked(parts', head', newest') /\ Filled' /\ Apart' /\ Calling'
      /\ Listed' = Listed /\ client.pc # "punctuate"
  BY <1>2, FlushFrame, Zenon
<1> DEFINE d == flusher[1].dir
           p == parts[Third]
<1>4. /\ flusher[1].at = Third /\ IsMemory(Third) /\ d = DirOf(Third) /\ d \in DOMAIN dirs
      /\ scenario.mode # "memory" /\ dirs[d].meta = "none"
  BY <1>1, <1>2, Zenon DEF FlushState, Flushing
<1>5. /\ Third \in DOMAIN parts /\ p.points \in Seq(Row) /\ p.late \in Seq(Row)
      /\ \A n \in DOMAIN parts : IsDisk(n) => DirOf(n) # d
  BY <1>4, DirIsNew
<1> DEFINE out == EncodeAll(p.points, p.late)
<1>6. out \in Seq(Row) /\ Range(out) = Rows(Third)
  <2>1. Timed(Row)
    BY DEF Timed, Row
  <2> QED BY <1>5, <2>1, EncodeAllFacts, ZenonT(60) DEF Rows, RowsIn
<1>7. dirs' = [dirs EXCEPT ![d].data = out] /\ flusher' = [flusher EXCEPT ![1].pc = "truncate"]
  BY <1>4, Zenon DEF EncodePoints, Goto, Exists
<1> HIDE DEF out, d
<1>8. /\ dirs' \in [DOMAIN dirs' -> Directory] /\ DOMAIN dirs' = DOMAIN dirs
      /\ dirs'[d].data = out /\ dirs'[d].meta = "none"
      /\ \A e \in DOMAIN dirs : e # d => dirs'[e] = dirs[e]
  BY <1>1, <1>4, <1>6, <1>7, Zenon DEF Typed, Directory
<1>9. /\ flusher' \in [{1} -> Flush] /\ flusher'[1].pc = "truncate" /\ flusher'[1].dir = d
      /\ flusher'[1].at = Third
  BY <1>1, <1>4, <1>7, Zenon DEF Typed, Flush, d
<1>10. /\ Third' = Third /\ Second' = Second /\ IsMemory(Third)' /\ DirOf(Third)' = d
       /\ Rows(Third)' = Rows(Third)
  BY <1>2, <1>4, Zenon DEF Third, Second, IsMemory, DirOf, Rows
<1>11. Holding' /\ \A n \in Listed' : IsDisk(n)' => Valid(DirOf(n))'
  BY <1>2, <1>8, FlushDirFrame, Zenon DEF Flushing, d
<1>12. Typed'
  BY <1>1, <1>2, <1>8, <1>9, Zenon DEF Typed, wal
<1>13. Shape'
  BY <1>1, <1>2, <1>3, <1>9, <1>10, Zenon DEF Shape, IsMemory, IsDisk, Flushing, Second
<1>14. FlushState'
  BY <1>2, <1>4, <1>6, <1>8, <1>9, <1>10, Zenon DEF FlushState, Flushing
<1>15. Directories'
  <2>1. \A e \in DOMAIN dirs' :
            \/ dirs'[e].meta = "valid" /\ \E n \in DOMAIN parts' : IsDisk(n)' /\ e = DirOf(n)'
            \/ flusher'[1].pc \in Flushing /\ e = flusher'[1].dir
    BY <1>1, <1>2, <1>8, <1>9, Zenon DEF Directories, Flushing, IsDisk, DirOf, d
  <2>2. \A e \in expired' :
            /\ \/ \E n \in DOMAIN parts' : IsDisk(n)' /\ e = DirOf(n)'
               \/ flusher'[1].pc \in {"open", "swap"} /\ e = flusher'[1].dir
            /\ e \in DOMAIN dirs' => Range(dirs'[e].data) \subseteq retired'
    BY <1>1, <1>2, <1>5, <1>8, SMTT(30) DEF Directories, IsDisk, DirOf
  <2>3. \A s \in DOMAIN sweep' : \A k \in DOMAIN sweep'[s] :
            IsDisk(sweep[s][k])' /\ DirOf(sweep[s][k])' \in expired'
    BY <1>1, <1>2 DEF Directories, IsDisk, DirOf
  <2> QED BY <1>11, <2>1, <2>2, <2>3, Zenon DEF Directories
<1>16. Segments'
  BY <1>1, <1>2, <1>3, <1>9, ZenonT(60)
     DEF Segments, Tracked, Logging, HeadSegment, OldestSegment, Rows, wal, IsMemory, Second, Third
<1> QED BY <1>3, <1>11, <1>12, <1>13, <1>14, <1>15, <1>16, Zenon DEF Running

(* The meta file is emptied. *)
LEMMA TruncateMetaKeeps ==
    ASSUME Running, TruncateMeta(1)
    PROVE  Running'
<1>1. Typed /\ Linked(parts, head, newest) /\ Shape /\ FlushState /\ Directories /\ Holding /\ Segments
  BY DEF Running
<1>2. /\ UNCHANGED <<list, client, newest>> /\ flusher[1].pc = "truncate" /\ parts' = parts /\ head' = head
      /\ client' = client
      /\ UNCHANGED <<wal, sweep, closer, expired, retired, acked, calls, scenario>>
  BY DEF TruncateMeta, At, history, list, retention
<1>3. /\ Linked(parts', head', newest') /\ Filled' /\ Apart' /\ Calling'
      /\ Listed' = Listed /\ client.pc # "punctuate"
  BY <1>2, FlushFrame, Zenon
<1> DEFINE d == flusher[1].dir
<1>4. /\ flusher[1].at = Third /\ IsMemory(Third) /\ d = DirOf(Third) /\ d \in DOMAIN dirs
      /\ scenario.mode # "memory" /\ Range(dirs[d].data) = Rows(Third)
  BY <1>1, <1>2, Zenon DEF FlushState, Flushing
<1>5. \A n \in DOMAIN parts : IsDisk(n) => DirOf(n) # d
  BY <1>4, DirIsNew, Zenon
<1>6. dirs' = [dirs EXCEPT ![d].meta = "torn"] /\ flusher' = [flusher EXCEPT ![1].pc = "write"]
  BY <1>4 DEF TruncateMeta, Goto, Exists
<1> HIDE DEF d
<1>7. /\ dirs' \in [DOMAIN dirs' -> Directory] /\ DOMAIN dirs' = DOMAIN dirs
      /\ dirs'[d].data = dirs[d].data /\ dirs'[d].meta = "torn"
      /\ \A e \in DOMAIN dirs : e # d => dirs'[e] = dirs[e]
  BY <1>1, <1>4, <1>6 DEF Typed, Directory
<1>8. /\ flusher' \in [{1} -> Flush] /\ flusher'[1].pc = "write" /\ flusher'[1].dir = d
      /\ flusher'[1].at = Third
  BY <1>1, <1>4, <1>6, Zenon DEF Typed, Flush, d
<1>9. /\ Third' = Third /\ Second' = Second /\ IsMemory(Third)' /\ DirOf(Third)' = d
      /\ Rows(Third)' = Rows(Third)
  BY <1>2, <1>4, Zenon DEF Third, Second, IsMemory, DirOf, Rows
<1>10. Holding' /\ \A n \in Listed' : IsDisk(n)' => Valid(DirOf(n))'
  BY <1>2, <1>7, FlushDirFrame, Zenon DEF Flushing, d
<1>11. Typed'
  BY <1>1, <1>2, <1>7, <1>8, Zenon DEF Typed, wal
<1>12. Shape'
  BY <1>1, <1>2, <1>3, <1>8, <1>9, Zenon DEF Shape, IsMemory, IsDisk, Flushing, Second
<1>13. FlushState'
  BY <1>2, <1>4, <1>7, <1>8, <1>9, Zenon DEF FlushState, Flushing
<1>14. Directories'
  <2>1. \A e \in DOMAIN dirs' :
            \/ dirs'[e].meta = "valid" /\ \E n \in DOMAIN parts' : IsDisk(n)' /\ e = DirOf(n)'
            \/ flusher'[1].pc \in Flushing /\ e = flusher'[1].dir
    BY <1>1, <1>2, <1>7, <1>8, Zenon DEF Directories, Flushing, IsDisk, DirOf, d
  <2>2. \A e \in expired' :
            /\ \/ \E n \in DOMAIN parts' : IsDisk(n)' /\ e = DirOf(n)'
               \/ flusher'[1].pc \in {"open", "swap"} /\ e = flusher'[1].dir
            /\ e \in DOMAIN dirs' => Range(dirs'[e].data) \subseteq retired'
    BY <1>1, <1>2, <1>5, <1>7, Zenon DEF Directories, IsDisk, DirOf
  <2>3. \A s \in DOMAIN sweep' : \A k \in DOMAIN sweep'[s] :
            IsDisk(sweep[s][k])' /\ DirOf(sweep[s][k])' \in expired'
    BY <1>1, <1>2, Zenon DEF Directories, IsDisk, DirOf
  <2> QED BY <1>10, <2>1, <2>2, <2>3 DEF Directories
<1>15. Segments'
  BY <1>1, <1>2, <1>3, <1>8, ZenonT(60)
     DEF Segments, Tracked, Logging, HeadSegment, OldestSegment, Rows, wal, IsMemory, Second, Third
<1> QED BY <1>3, <1>10, <1>11, <1>12, <1>13, <1>14, <1>15, SMTT(30) DEF Running

(* The meta file is written: the directory holds what the partition does. *)
LEMMA WriteMetaKeeps ==
    ASSUME Running, WriteMeta(1)
    PROVE  Running'
<1>1. Typed /\ Linked(parts, head, newest) /\ Shape /\ FlushState /\ Directories /\ Holding /\ Segments
  BY DEF Running
<1> DEFINE d == flusher[1].dir
<1>2. /\ UNCHANGED <<list, client, newest>> /\ flusher[1].pc = "write" /\ parts' = parts /\ head' = head
      /\ client' = client /\ expired' = expired \ {d}
      /\ UNCHANGED <<wal, sweep, closer, retired, acked, calls, scenario>>
  BY Zenon DEF WriteMeta, At, history, list
<1>3. /\ Linked(parts', head', newest') /\ Filled' /\ Apart' /\ Calling'
      /\ Listed' = Listed /\ client.pc # "punctuate"
  BY <1>2, FlushFrame, Zenon
<1>4. /\ flusher[1].at = Third /\ IsMemory(Third) /\ d = DirOf(Third) /\ d \in DOMAIN dirs
      /\ scenario.mode # "memory" /\ Range(dirs[d].data) = Rows(Third)
  BY <1>1, <1>2, Zenon DEF FlushState, Flushing
<1>5. \A n \in DOMAIN parts : IsDisk(n) => DirOf(n) # d
  BY <1>4, DirIsNew
<1>6. dirs' = [dirs EXCEPT ![d].meta = "valid"] /\ flusher' = [flusher EXCEPT ![1].pc = "open"]
  BY <1>4 DEF WriteMeta, Goto, Exists
<1> HIDE DEF d
<1>7. /\ dirs' \in [DOMAIN dirs' -> Directory] /\ DOMAIN dirs' = DOMAIN dirs
      /\ dirs'[d].data = dirs[d].data /\ dirs'[d].meta = "valid"
      /\ \A e \in DOMAIN dirs : e # d => dirs'[e] = dirs[e]
  BY <1>1, <1>4, <1>6 DEF Typed, Directory
<1>8. /\ flusher' \in [{1} -> Flush] /\ flusher'[1].pc = "open" /\ flusher'[1].dir = d
      /\ flusher'[1].at = Third
  BY <1>1, <1>4, <1>6, Zenon DEF Typed, Flush, d
<1>9. /\ Third' = Third /\ Second' = Second /\ IsMemory(Third)' /\ DirOf(Third)' = d
      /\ Rows(Third)' = Rows(Third)
  BY <1>2, <1>4, Zenon DEF Third, Second, IsMemory, DirOf, Rows
<1>10. Holding' /\ \A n \in Listed' : IsDisk(n)' => Valid(DirOf(n))'
  BY <1>2, <1>7, FlushDirFrame, Zenon DEF Flushing, d
<1>11. Typed'
  BY <1>1, <1>2, <1>7, <1>8, Zenon DEF Typed, wal
<1>12. Shape'
  BY <1>1, <1>2, <1>3, <1>8, <1>9, ZenonT(60) DEF Shape, IsMemory, IsDisk, Flushing, Second
<1>13. FlushState'
  BY <1>2, <1>4, <1>7, <1>8, <1>9, Zenon DEF FlushState, Flushing
<1>14. Directories'
  <2>1. \A e \in DOMAIN dirs' :
            \/ dirs'[e].meta = "valid" /\ \E n \in DOMAIN parts' : IsDisk(n)' /\ e = DirOf(n)'
            \/ flusher'[1].pc \in Flushing /\ e = flusher'[1].dir
    BY <1>1, <1>2, <1>7, <1>8, Zenon DEF Directories, Flushing, IsDisk, DirOf, d
  <2>2. \A e \in expired' :
            /\ \/ \E n \in DOMAIN parts' : IsDisk(n)' /\ e = DirOf(n)'
               \/ flusher'[1].pc \in {"open", "swap"} /\ e = flusher'[1].dir
            /\ e \in DOMAIN dirs' => Range(dirs'[e].data) \subseteq retired'
    BY <1>1, <1>2, <1>5, <1>7, ZenonT(60) DEF Directories, IsDisk, DirOf
  <2>3. \A s \in DOMAIN sweep' : \A k \in DOMAIN sweep'[s] :
            IsDisk(sweep[s][k])' /\ DirOf(sweep[s][k])' \in expired'
    <3>1. ASSUME NEW s \in DOMAIN sweep, NEW k \in DOMAIN sweep[s]
          PROVE  IsDisk(sweep[s][k])' /\ DirOf(sweep[s][k])' \in expired'
      <4>1. IsDisk(sweep[s][k]) /\ DirOf(sweep[s][k]) \in expired
        BY <1>1, Zenon DEF Directories
      <4>2. DirOf(sweep[s][k]) # d
        BY <1>5, <4>1 DEF IsDisk
      <4> QED BY <1>2, <4>1, <4>2, Zenon DEF IsDisk, DirOf
    <3> QED BY <1>2, <3>1, Zenon
  <2> QED BY <1>10, <2>1, <2>2, <2>3 DEF Directories
<1>15. Segments'
  BY <1>1, <1>2, <1>3, <1>8, ZenonT(60)
     DEF Segments, Tracked, Logging, HeadSegment, OldestSegment, Rows, wal, IsMemory, Second, Third
<1> QED BY <1>3, <1>10, <1>11, <1>12, <1>13, <1>14, <1>15 DEF Running

(* The directory opens: there are points in it. *)
LEMMA OpenDiskPartitionKeeps ==
    ASSUME Running, OpenDiskPartition(1)
    PROVE  Running'
<1>1. Typed /\ Linked(parts, head, newest) /\ Shape /\ FlushState /\ Directories /\ Holding /\ Segments
  BY DEF Running
<1> DEFINE d == flusher[1].dir
<1>2. /\ UNCHANGED <<list, client, newest>> /\ flusher[1].pc = "open" /\ parts' = parts /\ head' = head
      /\ client' = client
      /\ UNCHANGED <<wal, dirs, sweep, closer, expired, retired, acked, calls, scenario>>
  BY Zenon DEF OpenDiskPartition, At, history, list, retention
<1>3. /\ Linked(parts', head', newest') /\ Filled' /\ Apart' /\ Calling'
      /\ Listed' = Listed /\ client.pc # "punctuate"
  BY <1>2, FlushFrame, Zenon
<1>4. /\ flusher[1].at = Third /\ IsMemory(Third) /\ d = DirOf(Third) /\ d \in DOMAIN dirs
      /\ scenario.mode # "memory" /\ Range(dirs[d].data) = Rows(Third) /\ dirs[d].meta = "valid"
  BY <1>1, <1>2, Zenon DEF FlushState, Flushing
<1>5. Opened(d) = "ok"
  <2>1. parts[Third].points \in Seq(Row) /\ parts[Third].points # <<>>
    BY <1>4, DirIsNew, Zenon
  <2>2. 1 \in DOMAIN parts[Third].points
    BY <2>1
  <2>3. Rows(Third) # {}
    BY <2>2, Zenon DEF Rows, RowsIn, Range
  <2>4. dirs[d].data # <<>>
    BY <1>4, <2>3 DEF Range
  <2> QED BY <1>4, <2>4, Zenon DEF Opened
<1>6. flusher' = [flusher EXCEPT ![1].pc = "swap"]
  BY <1>5, Zenon DEF OpenDiskPartition, Goto
<1>7. /\ flusher' \in [{1} -> Flush] /\ flusher'[1].pc = "swap" /\ flusher'[1].dir = d
      /\ flusher'[1].at = Third
  BY <1>1, <1>4, <1>6, Zenon DEF Typed, Flush
<1>8. Typed'
  BY <1>1, <1>2, <1>7, Zenon DEF Typed, wal
<1>9. Shape'
  BY <1>1, <1>2, <1>3, <1>7, Zenon DEF Shape, IsMemory, IsDisk, Flushing, Second, Third
<1>10. FlushState'
  BY <1>2, <1>4, <1>7, Zenon DEF FlushState, Flushing, IsMemory, IsDisk, Second, Third, DirOf, Rows
<1>11. Directories'
  BY <1>1, <1>2, <1>3, <1>7, Zenon DEF Directories, Flushing, IsDisk, DirOf, Valid
<1>12. Holding'
  BY <1>1, <1>2, <1>3, ZenonT(60) DEF Holding, Owed, Kept, Rows, Valid, DirOf
<1>13. Segments'
  BY <1>1, <1>2, <1>3, <1>7, Zenon
     DEF Segments, Tracked, Logging, HeadSegment, OldestSegment, Rows, wal, IsMemory, Second, Third
<1> QED BY <1>3, <1>8, <1>9, <1>10, <1>11, <1>12, <1>13 DEF Running

(* The segment of the partition that is on the disk now is removed. *)
LEMMA RemoveOldestKeeps ==
    ASSUME Running, RemoveOldest(1)
    PROVE  Running'
<1>1. Typed /\ Linked(parts, head, newest) /\ Shape /\ FlushState /\ Directories /\ Holding /\ Segments
  BY DEF Running
<1>2. /\ UNCHANGED <<list, client, newest>> /\ flusher[1].pc = "removeOldest" /\ parts' = parts /\ head' = head
      /\ client' = client
      /\ UNCHANGED <<index, dirs, sweep, closer, expired, retired, acked, calls, scenario>>
  BY Zenon DEF RemoveOldest, At, history, list, retention
<1>3. /\ Linked(parts', head', newest') /\ Filled' /\ Apart' /\ Calling'
      /\ Listed' = Listed /\ client.pc # "punctuate"
  BY <1>2, FlushFrame, Zenon
<1>4. /\ flusher[1].at \in DOMAIN parts /\ Second # 0
      /\ parts[flusher[1].at].next = 0 \/ IsDisk(parts[flusher[1].at].next)
  BY <1>1, <1>2, Zenon DEF FlushState
<1>5. ~ IsMemory(Third)
  BY <1>1, <1>2, <1>3, Zenon DEF Shape, Flushing
<1>6. Tracked => DOMAIN segs = (index - 3)..(index - 1) /\ index \in Nat
  BY <1>1, <1>2, <1>3, <1>4 DEF Segments, OldestSegment, HeadSegment, Typed
<1>7. ASSUME Tracked
      PROVE  /\ DOMAIN segs # {} /\ segs' = [i \in DOMAIN segs \ {index - 3} |-> segs[i]]
             /\ Logging
  <2>1. index \in Nat /\ index <= 10 /\ Logging
    BY <1>6, <1>7, Zenon DEF Tracked
  <2>2. index - 3 \in DOMAIN segs /\ \A i \in DOMAIN segs : index - 3 <= i /\ i <= 9
    BY <1>6, <1>7, <2>1
  <2>3. \A i \in DOMAIN segs : i >= 0
    BY <1>1 DEF Typed
  <2>4. DOMAIN segs \in SUBSET (0..9)
    BY <1>6, <1>7, <2>2, <2>3
  <2>5. FirstName(DOMAIN segs) = index - 3
    BY <2>2, <2>4, FirstNameLeast
  <2> QED BY <2>1, <2>2, <2>5, Zenon DEF RemoveOldest, removeOldest
<1>8. \/ Advance(1)
      \/ FlushReturns(1, "failed")
  BY Zenon DEF RemoveOldest
<1>9. \/ segs' = segs
      \/ segs' = [i \in DOMAIN segs \ {FirstName(DOMAIN segs)} |-> segs[i]]
  BY Zenon DEF RemoveOldest, removeOldest
<1>10. parts[flusher[1].at].next \in Nat
  BY <1>1, <1>4, ListPlaces, Zenon DEF Partition
<1>12. /\ flusher' \in [{1} -> Flush] /\ flusher'[1].pc \in {"visit", "idle"}
       /\ flusher'[1].pc = "visit" => flusher'[1].at = 0 \/ IsDisk(flusher'[1].at)
  <2>1. CASE Advance(1)
    <3>1. flusher' = [flusher EXCEPT ![1].pc = "visit", ![1].at = parts[flusher[1].at].next]
      BY <1>1, <2>1, Zenon DEF Advance, Typed, Flush
    <3> QED BY <1>1, <1>4, <1>10, <3>1, Zenon DEF Typed, Flush
  <2>2. CASE FlushReturns(1, "failed")
    <3>1. closer.flusher # 1
      BY <1>1 DEF Typed, NotClosing
    <3>2. flusher' = [flusher EXCEPT ![1] = [NoFlush EXCEPT !.pc = "idle"]]
      BY <2>2, <3>1, Zenon DEF FlushReturns
    <3>3. NoFlush \in Flush
      BY Zenon DEF NoFlush, Flush
    <3>4. [NoFlush EXCEPT !.pc = "idle"] \in Flush /\ [NoFlush EXCEPT !.pc = "idle"].pc = "idle"
      BY <3>3, Zenon DEF Flush
    <3> QED BY <1>1, <3>2, <3>4 DEF Typed
  <2> QED BY <1>8, <2>1, <2>2
<1>13. Typed'
  <2>1. segs' \in [DOMAIN segs' -> Seq(Row)] /\ DOMAIN segs' \subseteq Nat
    BY <1>1, <1>9, Zenon DEF Typed
  <2> QED BY <1>1, <1>2, <1>12, <2>1, Zenon DEF Typed
<1>14. Shape'
  BY <1>1, <1>2, <1>3, <1>5, <1>12, ZenonT(60) DEF Shape, IsMemory, IsDisk, Second, Third
<1>15. FlushState'
  BY <1>2, <1>12, Zenon DEF FlushState, Flushing, IsMemory, IsDisk, Second, Third
<1>16. Directories'
  BY <1>1, <1>2, <1>3, <1>12, Zenon DEF Directories, Flushing, IsDisk, DirOf, Valid
<1>17. Holding'
  BY <1>1, <1>2, <1>3, ZenonT(60) DEF Holding, Owed, Kept, Rows, Valid, DirOf
<1>18. Segments'
  <2>1. SUFFICES ASSUME Tracked PROVE Segments'
    BY <1>2, Zenon DEF Segments, Tracked, Logging
  <2>2. /\ DOMAIN segs' = (index - 2)..(index - 1)
        /\ \A i \in DOMAIN segs' : segs'[i] = segs[i]
    BY <1>6, <1>7, <2>1, SMTT(30)
  <2>3. /\ HeadSegment' = index - 1 /\ HeadSegment = index - 1 /\ OldestSegment' = index - 2
        /\ index \in Nat
    <3>1. HeadSegment' = index - 1 /\ HeadSegment = index - 1
      BY <1>2, <1>3, Zenon DEF HeadSegment
    <3>2. Second' # 0 /\ ~ IsMemory(Third)'
      BY <1>2, <1>4, <1>5, Zenon DEF IsMemory, Second, Third
    <3>3. flusher'[1].pc # "removeOldest"
      BY <1>12
    <3>4. OldestSegment' = (index - 1) - 1
      BY <3>1, <3>2, <3>3, Zenon DEF OldestSegment
    <3>5. index \in Nat
      BY <1>6, <2>1, Zenon
    <3> QED BY <3>1, <3>4, <3>5
  <2>4. index - 1 \in DOMAIN segs' /\ (index - 1) - 1 \in DOMAIN segs'
    BY <2>2, <2>3
  <2>5. Rows(head) \subseteq Range(segs[index - 1]) /\ Rows(Second) \subseteq Range(segs[(index - 1) - 1])
    BY <1>1, <1>3, <1>4, <2>1, <2>3, ZenonT(60) DEF Segments
  <2>6. ~ IsMemory(Third)' /\ Second' = Second /\ Rows(head)' = Rows(head) /\ Rows(Second)' = Rows(Second)
    BY <1>2, <1>5, Zenon DEF IsMemory, Second, Third, Rows
  <2>7. DOMAIN segs' = OldestSegment'..(index' - 1)
    BY <1>2, <2>2, <2>3, Zenon
  <2> QED BY <2>2, <2>3, <2>4, <2>5, <2>6, <2>7, Zenon DEF Segments
<1> QED BY <1>3, <1>13, <1>14, <1>15, <1>16, <1>17, <1>18 DEF Running

-----------------------------------------------------------------------------
(* The steps that relink the list *)

SameBut(p, q) ==
    /\ p.kind = q.kind /\ p.min = q.min /\ p.max = q.max /\ p.points = q.points /\ p.late = q.late

(* A function on 1..n is a sequence of length n. *)
LEMMA SeqIs ==
    ASSUME NEW S, NEW n \in Nat, NEW f \in [1..n -> S]
    PROVE  f \in Seq(S) /\ Len(f) = n
OBVIOUS

(* A sequence over S is one over every larger set. *)
LEMMA SeqOver ==
    ASSUME NEW S, NEW T, S \subseteq T, NEW s \in Seq(S)
    PROVE  s \in Seq(T) /\ \A k \in DOMAIN s : s[k] \in S
<1>1. Len(s) \in Nat /\ s \in [1..Len(s) -> S]
  OBVIOUS
<1>2. s \in [1..Len(s) -> T]
  BY <1>1
<1> QED BY <1>1, <1>2, SeqIs, Zenon

(* A disk partition of directory d, in front of k *)
LEMMA DiskIs ==
    ASSUME NEW d \in Nat \X Nat, NEW k \in Nat
    PROVE  LET disk == [DiskPartition(d) EXCEPT !.next = k]
           IN  /\ disk \in Partition /\ disk.kind = "disk" /\ disk.next = k
               /\ disk.min = d[1] /\ disk.max = d[2]
<1>1. d[1] \in Nat /\ d[2] \in Nat
  BY Zenon
<1>2. NewPartition \in Partition
  BY DEF NewPartition, Partition
<1>3. /\ DiskPartition(d) \in Partition /\ DiskPartition(d).kind = "disk"
      /\ DiskPartition(d).min = d[1] /\ DiskPartition(d).max = d[2]
  BY <1>1, <1>2, Zenon DEF DiskPartition, Partition
<1> QED BY <1>3, Zenon DEF Partition

(* The order of three minima along the list. *)
LEMMA LessTransitive ==
    ASSUME NEW a \in Nat, NEW b \in Nat, NEW c \in Nat, a < b, b < c
    PROVE  a < c
OBVIOUS

(* remove: the list is shorter by one, and as ordered as it was. *)
LEMMA RemoveFacts ==
    ASSUME Linked(parts, head, newest), NEW m \in Listed, m # head, remove(m)
    PROVE  /\ head' = head /\ Linked(parts', head', newest)
           /\ DOMAIN parts' = DOMAIN parts /\ Listed' = Listed \ {m}
           /\ \A n \in DOMAIN parts :
                 /\ SameBut(parts'[n], parts[n])
                 /\ parts'[n].next = IF n \in Listed /\ parts[n].next = m
                                     THEN parts[m].next ELSE parts[n].next
<1>1. /\ Ranked(parts) /\ head \in 1..Len(parts) /\ DOMAIN parts = 1..Len(parts) /\ Len(parts) \in Nat
      /\ newest \in Nat /\ parts \in Seq(Partition)
  <2>1. newest \in Nat /\ parts \in Seq(Partition)
    BY Zenon DEF Linked
  <2> QED BY <2>1, LinkedRanked
<1>2. /\ Listed \subseteq DOMAIN parts /\ \A n \in DOMAIN parts : parts[n] \in Partition
      /\ \A n \in DOMAIN parts : parts[n].next # 0 => parts[n].next \in DOMAIN parts
  BY ListPlaces, Zenon
<1>3. m \in DOMAIN parts /\ parts[m].next \in Nat
  BY <1>2 DEF Partition
<1>4. /\ head' = head
      /\ parts' = [n \in DOMAIN parts |-> IF n \in Listed /\ parts[n].next = m
                                          THEN [parts[n] EXCEPT !.next = parts[m].next] ELSE parts[n]]
  BY Zenon DEF remove, replace
<1>5. ASSUME NEW n \in DOMAIN parts
      PROVE  /\ parts'[n] \in Partition /\ SameBut(parts'[n], parts[n])
             /\ parts'[n].next = IF n \in Listed /\ parts[n].next = m
                                 THEN parts[m].next ELSE parts[n].next
  <2>1. parts[n] \in Partition
    BY <1>2, Zenon
  <2>2. parts'[n] = IF n \in Listed /\ parts[n].next = m
                    THEN [parts[n] EXCEPT !.next = parts[m].next] ELSE parts[n]
    BY <1>4
  <2>3. [parts[n] EXCEPT !.next = parts[m].next] \in Partition
    BY <1>3, <2>1, Zenon DEF Partition
  <2>4. /\ [parts[n] EXCEPT !.next = parts[m].next].next = parts[m].next
        /\ SameBut([parts[n] EXCEPT !.next = parts[m].next], parts[n])
    BY <2>1 DEF Partition, SameBut
  <2>5. SameBut(parts[n], parts[n])
    BY DEF SameBut
  <2> QED BY <2>1, <2>2, <2>3, <2>4, <2>5, Zenon
<1>6. DOMAIN parts' = DOMAIN parts /\ parts' \in [1..Len(parts) -> Partition]
  BY <1>1, <1>4, <1>5, Zenon
<1>7. parts' \in Seq(Partition) /\ Len(parts') = Len(parts)
  BY <1>1, <1>6, SeqIs, Zenon
<1>8. \A n \in DOMAIN parts : parts[n].min \in Nat
  BY <1>2, Zenon DEF Partition
<1>9. ASSUME NEW n \in DOMAIN parts
      PROVE  /\ parts'[n].min <= newest
             /\ parts'[n].next # 0 =>
                   /\ parts'[n].next \in DOMAIN parts /\ parts'[parts'[n].next].min > 0
                   /\ parts'[n].min > 0 => parts'[parts'[n].next].min < parts'[n].min
  <2>1. parts'[n].min = parts[n].min /\ parts[n].min <= newest
    BY <1>5, Zenon DEF SameBut, Linked
  <2>2. ASSUME parts'[n].next # 0
        PROVE  /\ parts'[n].next \in DOMAIN parts /\ parts[parts'[n].next].min > 0
               /\ parts[n].min > 0 => parts[parts'[n].next].min < parts[n].min
    <3>1. CASE n \in Listed /\ parts[n].next = m
      <4>1. parts'[n].next = parts[m].next /\ parts[m].next # 0
        BY <1>5, <2>2, <3>1, Zenon
      <4>2. /\ parts[m].next \in DOMAIN parts /\ parts[parts[m].next].min > 0 /\ parts[m].min > 0
            /\ parts[parts[m].next].min < parts[m].min
            /\ parts[n].min > 0 => parts[m].min < parts[n].min
        BY <1>2, <1>3, <3>1, <4>1 DEF Linked
      <4> QED BY <1>3, <1>8, <4>1, <4>2, LessTransitive, Zenon
    <3>2. CASE ~ (n \in Listed /\ parts[n].next = m)
      <4>1. parts'[n].next = parts[n].next
        BY <1>5, <3>2, Zenon
      <4> QED BY <2>2, <4>1, Zenon DEF Linked
    <3> QED BY <3>1, <3>2, Zenon
  <2>3. parts'[n].next # 0 => parts'[parts'[n].next].min = parts[parts'[n].next].min
    BY <1>5, <2>2, Zenon DEF SameBut
  <2> QED BY <2>1, <2>2, <2>3, Zenon
<1>10. Linked(parts', head', newest)
  BY <1>1, <1>4, <1>6, <1>7, <1>9, Zenon DEF Linked
<1>11. Ranked(parts')
  BY <1>10, LinkedRanked, Zenon
<1>12. Listed' = ListIn(parts', head) /\ Listed = ListIn(parts, head)
  BY <1>4, ListedIn, Zenon DEF Listed, From, ListIn, FromIn
<1>13. ListIn(parts', head) = ListIn(parts, head) \ {m}
  <2>1. m \in ListIn(parts, head)
    BY <1>12, Zenon
  <2>2. Spliced(parts, parts', head, m, parts[m].next)
    BY <1>1, <1>5, <1>12, Zenon DEF Spliced
  <2> QED BY <1>1, <1>7, <1>11, <2>1, <2>2, OneLess, SMTT(30)
<1> QED BY <1>4, <1>5, <1>6, <1>10, <1>12, <1>13, Zenon

(* swap: the disk partition is where the memory partition was. *)
LEMMA SwapFacts ==
    ASSUME Linked(parts, head, newest), NEW m \in Listed, m # head, parts[m].min > 0,
           swap(m, DiskPartition(DirOf(m)))
    PROVE  /\ head' = head /\ Linked(parts', head', newest)
           /\ Len(parts) + 1 \notin DOMAIN parts /\ Len(parts) + 1 # 0
           /\ DOMAIN parts' = DOMAIN parts \cup {Len(parts) + 1}
           /\ Listed' = (Listed \ {m}) \cup {Len(parts) + 1}
           /\ \A n \in DOMAIN parts :
                 /\ SameBut(parts'[n], parts[n])
                 /\ parts'[n].next = IF n \in Listed /\ parts[n].next = m
                                     THEN Len(parts) + 1 ELSE parts[n].next
           /\ parts'[Len(parts) + 1] = [DiskPartition(DirOf(m)) EXCEPT !.next = parts[m].next]
<1> DEFINE z == Len(parts) + 1
           disk == [DiskPartition(DirOf(m)) EXCEPT !.next = parts[m].next]
           ps == Append(parts, disk)
<1>1. /\ Ranked(parts) /\ head \in 1..Len(parts) /\ DOMAIN parts = 1..Len(parts) /\ Len(parts) \in Nat
      /\ newest \in Nat /\ parts \in Seq(Partition)
  <2>1. newest \in Nat /\ parts \in Seq(Partition)
    BY Zenon DEF Linked
  <2>2. DOMAIN parts = 1..Len(parts) /\ Len(parts) \in Nat
    BY <2>1
  <2> QED BY <2>1, <2>2, LinkedRanked, Zenon
<1>2. /\ Listed \subseteq DOMAIN parts /\ \A n \in DOMAIN parts : parts[n] \in Partition
      /\ \A n \in DOMAIN parts : parts[n].next # 0 => parts[n].next \in DOMAIN parts
      /\ \A n \in DOMAIN parts : parts[n].next # n
  BY ListPlaces, Zenon
<1>3. m \in DOMAIN parts /\ parts[m].next \in Nat /\ parts[m].min \in Nat /\ parts[m].max \in Nat
  BY <1>2, Zenon DEF Partition
<1>4. /\ disk \in Partition /\ disk.next = parts[m].next /\ disk.min = parts[m].min
  BY <1>3, DiskIs DEF DirOf
<1>5. /\ head' = head
      /\ parts' = [n \in DOMAIN ps |-> IF n \in Listed /\ ps[n].next = m
                                       THEN [ps[n] EXCEPT !.next = z] ELSE ps[n]]
  BY Zenon DEF swap, replace
<1> HIDE DEF disk
<1>6. /\ DOMAIN ps = 1..z /\ ps[z] = disk /\ \A n \in DOMAIN parts : ps[n] = parts[n] /\ n \in 1..z
      /\ z \in 1..z /\ z \notin DOMAIN parts /\ z # 0 /\ 1..z = DOMAIN parts \cup {z} /\ z \in Nat
  BY <1>1, <1>4
<1> HIDE DEF ps, z
<1>7. parts'[z] = disk
  BY <1>2, <1>5, <1>6, Zenon
<1>8. ASSUME NEW n \in DOMAIN parts
      PROVE  /\ parts'[n] \in Partition /\ SameBut(parts'[n], parts[n])
             /\ parts'[n].next = IF n \in Listed /\ parts[n].next = m THEN z ELSE parts[n].next
  <2>1. parts[n] \in Partition
    BY <1>2, Zenon
  <2>2. parts'[n] = IF n \in Listed /\ parts[n].next = m
                    THEN [parts[n] EXCEPT !.next = z] ELSE parts[n]
    BY <1>5, <1>6, Zenon
  <2>3. [parts[n] EXCEPT !.next = z] \in Partition
    BY <1>6, <2>1, Zenon DEF Partition
  <2>4. [parts[n] EXCEPT !.next = z].next = z /\ SameBut([parts[n] EXCEPT !.next = z], parts[n])
    BY <2>1, Zenon DEF Partition, SameBut
  <2>5. SameBut(parts[n], parts[n])
    BY DEF SameBut
  <2> QED BY <2>1, <2>2, <2>3, <2>4, <2>5, Zenon
<1>9. DOMAIN parts' = DOMAIN parts \cup {z} /\ parts' \in [1..z -> Partition]
  BY <1>4, <1>5, <1>6, <1>7, <1>8, ZenonT(60)
<1>10. parts' \in Seq(Partition) /\ Len(parts') = z
  BY <1>6, <1>9, SeqIs, Zenon
<1>11. \A n \in DOMAIN parts : parts[n].min \in Nat
  BY <1>2, Zenon DEF Partition
<1>12. ASSUME NEW n \in DOMAIN parts \cup {z}
       PROVE  /\ parts'[n].min <= newest
              /\ parts'[n].next # 0 =>
                    /\ parts'[n].next \in DOMAIN parts \cup {z} /\ parts'[parts'[n].next].min > 0
                    /\ parts'[n].min > 0 => parts'[parts'[n].next].min < parts'[n].min
  <2>1. CASE n = z
    <3>1. parts'[n].min = parts[m].min /\ parts'[n].next = parts[m].next
      BY <1>4, <1>7, <2>1, Zenon
    <3>2. parts[m].next # 0 =>
              /\ parts[m].next \in DOMAIN parts /\ parts'[parts[m].next].min = parts[parts[m].next].min
              /\ parts[parts[m].next].min > 0 /\ parts[parts[m].next].min < parts[m].min
      BY <1>2, <1>3, <1>8, Zenon DEF Linked, SameBut
    <3> QED BY <1>3, <3>1, <3>2, Zenon DEF Linked
  <2>2. CASE n \in DOMAIN parts
    <3>1. parts'[n].min = parts[n].min /\ parts[n].min <= newest
      BY <1>8, <2>2, Zenon DEF SameBut, Linked
    <3>2. CASE n \in Listed /\ parts[n].next = m
      <4>1. parts'[n].next = z /\ parts'[z].min = parts[m].min
        BY <1>4, <1>7, <1>8, <2>2, <3>2, Zenon
      <4>a. m # 0
        BY <1>1, <1>3
      <4>2. parts[m].min > 0 /\ (parts[n].min > 0 => parts[m].min < parts[n].min)
        BY <2>2, <3>2, <4>a, Zenon DEF Linked
      <4> QED BY <3>1, <4>1, <4>2, Zenon
    <3>3. CASE ~ (n \in Listed /\ parts[n].next = m)
      <4>1. parts'[n].next = parts[n].next
        BY <1>8, <2>2, <3>3, Zenon
      <4>2. parts[n].next # 0 =>
                /\ parts[n].next \in DOMAIN parts /\ parts'[parts[n].next].min = parts[parts[n].next].min
                /\ parts[parts[n].next].min > 0
                /\ parts[n].min > 0 => parts[parts[n].next].min < parts[n].min
        BY <1>2, <1>8, <2>2, Zenon DEF Linked, SameBut
      <4> QED BY <3>1, <4>1, <4>2, Zenon
    <3> QED BY <3>2, <3>3, Zenon
  <2> QED BY <2>1, <2>2, Zenon
<1>13. Linked(parts', head', newest)
  BY <1>1, <1>5, <1>9, <1>10, <1>12, ZenonT(60) DEF Linked
<1>14. Ranked(parts')
  BY <1>13, LinkedRanked, Zenon
<1>15. Listed' = ListIn(parts', head) /\ Listed = ListIn(parts, head)
  BY <1>5, ListedIn, ZenonT(60) DEF Listed, From, ListIn, FromIn
<1>16. ListIn(parts', head) = (ListIn(parts, head) \ {m}) \cup {Len(parts) + 1}
  <2>1. m \in ListIn(parts, head)
    BY <1>15, Zenon
  <2>2. Spliced(parts, parts', head, m, Len(parts) + 1)
    BY <1>1, <1>8, <1>15, Zenon DEF z, Spliced
  <2>3. Len(parts') = Len(parts) + 1 /\ parts'[Len(parts) + 1].next = parts[m].next
    BY <1>4, <1>7, <1>10, Zenon DEF z
  <2> QED BY <1>1, <1>14, <2>1, <2>2, <2>3, OneSwapped, SMTT(30)
<1> QED BY <1>5, <1>6, <1>7, <1>8, <1>9, <1>13, <1>15, <1>16, ZenonT(60) DEF z, disk

(* samePartitions finds the third partition, or a disk partition of the     *)
(* list, and no other in its place.                                         *)
LEMMA MatchOwn ==
    ASSUME Running, NEW t \in DOMAIN parts, t \in Listed \/ IsDisk(t)
    PROVE  Match(t) = IF t \in Listed THEN t ELSE 0
<1>1. Linked(parts, head, newest) /\ Apart
  BY Zenon DEF Running
<1>2. Ranked(parts) /\ head \in 0..Len(parts) /\ Listed \subseteq DOMAIN parts
  BY <1>1, LinkedRanked, ListPlaces, Zenon
<1>3. \A m \in Listed : parts[m].min = parts[t].min => m = t
  BY <1>1, <1>2, Zenon DEF Apart
<1> QED BY <1>2, <1>3, MatchFinds, Zenon

(* The third partition is exchanged for its directory. *)
LEMMA SwapPartitionsKeeps ==
    ASSUME Running, SwapPartitions(1)
    PROVE  Running'
<1>1. /\ Typed /\ Linked(parts, head, newest) /\ Filled /\ Apart /\ Shape /\ Calling /\ FlushState
      /\ Directories /\ Holding /\ Segments
  BY Zenon DEF Running
<1>0. PICK d, t, z, u : d = flusher[1].dir /\ t = Third /\ z = Len(parts) + 1 /\ u = parts[t].next
  BY Zenon
<1>2. /\ flusher[1].pc = "swap" /\ client' = client /\ newest' = newest
      /\ UNCHANGED <<wal, dirs, sweep, closer, expired, retired, acked, calls, scenario>>
  BY Zenon DEF SwapPartitions, At, history, retention
<1>3. /\ flusher[1].at = t /\ IsMemory(t) /\ d = DirOf(t) /\ d \in DOMAIN dirs
      /\ scenario.mode # "memory" /\ Range(dirs[d].data) = Rows(t) /\ dirs[d].meta = "valid"
  BY <1>0, <1>1, <1>2, Zenon DEF FlushState, Flushing
<1>4. /\ Places(head, Second, t) /\ Listed \subseteq DOMAIN parts /\ 0 \notin DOMAIN parts
      /\ \A n \in DOMAIN parts : parts[n] \in Partition
      /\ \A n \in DOMAIN parts : parts[n].next # 0 => parts[n].next \in DOMAIN parts
      /\ \A n \in DOMAIN parts : parts[n].next # n
  BY <1>0, <1>1, ListPlaces, Zenon
<1>5. /\ t \in DOMAIN parts /\ t \in Listed /\ t # 0 /\ d \in Nat \X Nat
      /\ parts[t].min > 0 /\ parts[t].points # <<>>
      /\ \A n \in DOMAIN parts : IsDisk(n) => DirOf(n) # d
  BY <1>0, <1>3, DirIsNew, Zenon
<1>6. t # head /\ t # Second /\ Second # 0 /\ Second \in DOMAIN parts /\ Second \in Listed
      /\ head \in DOMAIN parts /\ head \in Listed /\ Second # head
  BY <1>4, <1>5, Zenon DEF Places
<1>7. Match(t) = t
  BY <1>5, MatchOwn, Zenon
<1>8. swap(t, DiskPartition(DirOf(t))) /\ Goto(1, "removeOldest")
  BY <1>0, <1>3, <1>5, <1>7, Zenon DEF SwapPartitions
<1>9. /\ head' = head /\ Linked(parts', head', newest) /\ z \notin DOMAIN parts /\ z # 0
      /\ DOMAIN parts' = DOMAIN parts \cup {z} /\ Listed' = (Listed \ {t}) \cup {z}
      /\ \A n \in DOMAIN parts :
            /\ SameBut(parts'[n], parts[n])
            /\ parts'[n].next = IF n \in Listed /\ parts[n].next = t THEN z ELSE parts[n].next
      /\ parts'[z] = [DiskPartition(DirOf(t)) EXCEPT !.next = parts[t].next]
  BY <1>0, <1>1, <1>5, <1>6, <1>8, SwapFacts, ZenonT(60)
<1>10. /\ parts'[z] \in Partition /\ parts'[z].kind = "disk" /\ parts'[z].next = parts[t].next
       /\ parts'[z].min = parts[t].min /\ parts'[z].max = parts[t].max
  <2>1. parts[t].next \in Nat /\ DirOf(t) \in Nat \X Nat
    BY <1>0, <1>3, <1>4, <1>5, Zenon DEF Partition
  <2> QED BY <1>0, <1>9, <2>1, DiskIs, SMTT(30) DEF DirOf
<1>11. Second' = Second /\ Third' = z /\ parts[Second].next = t
  BY <1>0, <1>6, <1>9, Zenon DEF Second, Third
<1>12. flusher' = [flusher EXCEPT ![1].pc = "removeOldest"]
  BY <1>8, Zenon DEF Goto
<1>13. flusher' \in [{1} -> Flush] /\ flusher'[1].pc = "removeOldest" /\ flusher'[1].at = t
  BY <1>1, <1>3, <1>12, Zenon DEF Typed, Flush
<1>14. \A n \in DOMAIN parts :
          /\ parts'[n].kind = parts[n].kind /\ parts'[n].min = parts[n].min /\ parts'[n].max = parts[n].max
          /\ parts'[n].points = parts[n].points /\ parts'[n].late = parts[n].late
          /\ IsDisk(n)' = IsDisk(n) /\ DirOf(n)' = DirOf(n) /\ Rows(n)' = Rows(n)
  BY <1>9, Zenon DEF SameBut, IsDisk, DirOf, Rows, RowsIn
<1>15. IsDisk(z)' /\ DirOf(z)' = d
  BY <1>3, <1>9, <1>10, Zenon DEF IsDisk, DirOf
<1>16. client.pc # "punctuate"
  BY <1>1, <1>2, Zenon DEF Calling
<1>17. Typed'
  BY <1>1, <1>2, <1>13, Zenon DEF Typed, wal
<1>18. Filled'
  <2>1. ASSUME NEW n \in DOMAIN parts
        PROVE  /\ parts'[n].min <= parts'[n].max
               /\ parts'[n].min = 0 =>
                     n = head' /\ parts'[n].max = 0 /\ parts'[n].points = <<>> /\ parts'[n].late = <<>>
               /\ parts'[n].min > 0 /\ parts'[n].kind = "memory" => parts'[n].points # <<>>
    <3>1. /\ parts'[n].min = parts[n].min /\ parts'[n].max = parts[n].max /\ parts'[n].kind = parts[n].kind
          /\ parts'[n].points = parts[n].points /\ parts'[n].late = parts[n].late /\ head' = head
      BY <1>9, <1>14, Zenon DEF SameBut
    <3> QED BY <1>1, <3>1, Zenon DEF Filled
  <2>2. parts'[z].min <= parts'[z].max /\ parts'[z].min > 0 /\ parts'[z].min # 0 /\ parts'[z].kind # "memory"
    <3>1. parts[t].min \in Nat /\ parts[t].min <= parts[t].max
      BY <1>1, <1>4, <1>5, Zenon DEF Filled, Partition
    <3> QED BY <1>5, <1>10, <3>1, SMTT(30)
  <2> QED BY <1>9, <2>1, <2>2, Zenon DEF Filled
<1>19. Apart'
  <2>1. ASSUME NEW n \in DOMAIN parts, n \in Listed' \/ IsDisk(n) PROVE parts[n].min # parts[t].min
    <3>1. n # t /\ (n \in Listed \/ IsDisk(n))
      BY <1>3, <1>5, <1>9, <2>1, Zenon DEF IsMemory, IsDisk
    <3> QED BY <1>1, <1>5, <3>1, Zenon DEF Apart
  <2>2. ASSUME NEW m \in DOMAIN parts', NEW n \in DOMAIN parts',
               m \in Listed' \/ IsDisk(m)', n \in Listed' \/ IsDisk(n)', parts'[m].min = parts'[n].min
        PROVE  m = n
    <3>1. CASE m = z \/ n = z
      <4>1. \A k \in DOMAIN parts' : k # z /\ (k \in Listed' \/ IsDisk(k)') => parts'[k].min # parts[t].min
        <5>1. ASSUME NEW k \in DOMAIN parts, k \in Listed' \/ IsDisk(k)' PROVE parts'[k].min # parts[t].min
          BY <1>14, <2>1, <5>1, Zenon
        <5> QED BY <1>9, <5>1, Zenon
      <4>2. parts'[z].min = parts[t].min
        BY <1>10, Zenon
      <4> QED BY <2>2, <3>1, <4>1, <4>2, Zenon
    <3>2. CASE m # z /\ n # z
      <4>1. m \in DOMAIN parts /\ n \in DOMAIN parts
        BY <1>9, <3>2, Zenon
      <4>2. (m \in Listed \/ IsDisk(m)) /\ (n \in Listed \/ IsDisk(n)) /\ parts[m].min = parts[n].min
        BY <1>9, <1>14, <2>2, <3>2, <4>1, Zenon
      <4> QED BY <1>1, <4>1, <4>2, Zenon DEF Apart
    <3> QED BY <3>1, <3>2, Zenon
  <2> QED BY <2>2, Zenon DEF Apart
<1>20. Shape'
  <2>1. IsMemory(head)' /\ IsMemory(Second)' /\ ~ IsMemory(Third)'
    BY <1>1, <1>6, <1>9, <1>10, <1>11, <1>14, Zenon DEF Shape, IsMemory
  <2>2. \A n \in Listed' : n \in {head', Second', Third'} \/ IsDisk(n)'
    BY <1>0, <1>1, <1>4, <1>9, <1>11, <1>14, <1>15, Zenon DEF Shape
  <2>3. ASSUME NEW n \in DOMAIN parts', IsDisk(n)' PROVE (parts[n].next = 0 \/ IsDisk(parts[n].next))'
    <3>1. CASE n = z
      <4>1. u = 0 \/ IsDisk(u)
        BY <1>0, <1>1, <1>5, Zenon DEF Shape
      <4>2. IsDisk(u) => IsDisk(u)'
        BY <1>9, <1>14, Zenon DEF IsDisk
      <4> QED BY <1>0, <1>10, <3>1, <4>1, <4>2, Zenon DEF IsDisk
    <3>2. CASE n # z
      <4>1. n \in DOMAIN parts /\ IsDisk(n)
        BY <1>9, <1>14, <2>3, <3>2, Zenon
      <4>2. parts[n].next = 0 \/ IsDisk(parts[n].next)
        BY <1>1, <4>1, Zenon DEF Shape
      <4>3. parts[n].next # t
        BY <1>3, <1>5, <4>2, Zenon DEF IsDisk, IsMemory
      <4>4. parts'[n].next = parts[n].next
        BY <1>9, <4>1, <4>3, Zenon
      <4> QED BY <1>9, <1>14, <4>2, <4>4, Zenon DEF IsDisk
    <3> QED BY <3>1, <3>2, Zenon
  <2> QED BY <1>11, <1>15, <2>1, <2>2, <2>3, Zenon DEF Shape
<1>21. Calling'
  <2>1. parts'[z].max = parts[t].max
    BY <1>10
  <2>2. client.pc = "idle" => \A n \in DOMAIN parts' : parts'[n].max <= newest
    BY <1>1, <1>5, <1>9, <1>14, <2>1, ZenonT(60) DEF Calling
  <2>3. client.pc # "idle" => \A k \in DOMAIN client.rows : \A n \in DOMAIN parts' :
            parts'[n].max < client.rows[k].ts
    BY <1>1, <1>5, <1>9, <1>14, <2>1, ZenonT(60) DEF Calling
  <2> QED BY <1>1, <1>2, <1>9, <1>16, <2>2, <2>3, Zenon DEF Calling
<1>22. FlushState'
  <2>1. u = 0 \/ IsDisk(u)
    BY <1>0, <1>1, <1>5, Zenon DEF Shape
  <2>2. IsDisk(u) => IsDisk(u)'
    BY <1>9, <1>14, Zenon DEF IsDisk
  <2>3. parts'[t].next = u
    BY <1>0, <1>4, <1>5, <1>9, Zenon
  <2> QED BY <1>5, <1>6, <1>9, <1>11, <1>13, <2>1, <2>2, <2>3, Zenon DEF FlushState, Flushing
<1>23. Directories'
  <2>1. \A e \in DOMAIN dirs' :
            dirs'[e].meta = "valid" /\ \E n \in DOMAIN parts' : IsDisk(n)' /\ e = DirOf(n)'
    <3>1. ASSUME NEW e \in DOMAIN dirs
          PROVE  dirs[e].meta = "valid" /\ \E n \in DOMAIN parts' : IsDisk(n)' /\ e = DirOf(n)'
      <4>1. CASE e = d
        BY <1>3, <1>9, <1>15, <4>1, Zenon
      <4>2. CASE e # d
        BY <1>0, <1>1, <1>9, <1>14, <4>2, SMTT(30) DEF Directories
      <4> QED BY <4>1, <4>2, Zenon
    <3> QED BY <1>2, <3>1, Zenon
  <2>2. \A n \in Listed' : IsDisk(n)' => Valid(DirOf(n))'
    <3>1. ASSUME NEW n \in Listed', IsDisk(n)' PROVE DirOf(n)' \in DOMAIN dirs /\ dirs[DirOf(n)'].meta = "valid"
      <4>1. CASE n = z
        BY <1>3, <1>15, <4>1, Zenon
      <4>2. CASE n # z
        BY <1>1, <1>4, <1>9, <1>14, <3>1, <4>2, SMTT(30) DEF Directories, Valid
      <4> QED BY <4>1, <4>2, Zenon
    <3> QED BY <1>2, <3>1, Zenon DEF Valid
  <2>3. \A e \in expired' :
            /\ \E n \in DOMAIN parts' : IsDisk(n)' /\ e = DirOf(n)'
            /\ e \in DOMAIN dirs' => Range(dirs'[e].data) \subseteq retired'
    <3>1. ASSUME NEW e \in expired
          PROVE  /\ \E n \in DOMAIN parts' : IsDisk(n)' /\ e = DirOf(n)'
                 /\ e \in DOMAIN dirs => Range(dirs[e].data) \subseteq retired
      <4>1. CASE e = d
        BY <1>1, <1>9, <1>15, <4>1, Zenon DEF Directories
      <4>2. CASE e # d
        BY <1>0, <1>1, <1>9, <1>14, <4>2, SMTT(30) DEF Directories
      <4> QED BY <4>1, <4>2, Zenon
    <3> QED BY <1>2, <3>1, Zenon
  <2>4. \A s \in DOMAIN sweep' : \A k \in DOMAIN sweep'[s] :
            IsDisk(sweep[s][k])' /\ DirOf(sweep[s][k])' \in expired'
    <3>1. ASSUME NEW s \in DOMAIN sweep, NEW k \in DOMAIN sweep[s]
          PROVE  IsDisk(sweep[s][k])' /\ DirOf(sweep[s][k])' \in expired'
      <4>1. IsDisk(sweep[s][k]) /\ DirOf(sweep[s][k]) \in expired /\ sweep' = sweep
        BY <1>1, <1>2, Zenon DEF Directories
      <4>2. sweep[s][k] \in DOMAIN parts
        BY <4>1, Zenon DEF IsDisk
      <4>3. IsDisk(sweep[s][k])' /\ DirOf(sweep[s][k])' = DirOf(sweep[s][k])
        BY <1>9, <1>14, <4>1, <4>2, Zenon DEF IsDisk, DirOf
      <4> QED BY <1>2, <4>1, <4>3, Zenon
    <3> QED BY <1>2, <3>1, Zenon
  <2> QED BY <2>1, <2>2, <2>3, <2>4, Zenon DEF Directories
<1>24. Holding'
  <2>1. ASSUME NEW n \in Listed, n # t PROVE Kept(n)' = Kept(n)
    BY <1>2, <1>4, <1>14, Zenon DEF Kept, Valid
  <2>2. Kept(z)' = Kept(t)
    <3>1. Kept(t) = Rows(t)
      BY <1>3, Zenon DEF Kept, IsMemory
    <3>2. Kept(z)' = Range(dirs[d].data)
      BY <1>2, <1>3, <1>10, <1>15, Zenon DEF Kept, Valid
    <3> QED BY <1>3, <3>1, <3>2, Zenon
  <2>3. UNION {Kept(n) : n \in Listed} \subseteq UNION {Kept(n)' : n \in Listed'}
    BY <1>9, <2>1, <2>2, Zenon
  <2>4. Owed' = Owed
    BY <1>2, Zenon DEF Owed
  <2> QED BY <1>1, <2>3, <2>4, Zenon DEF Holding
<1>25. Segments'
  <2>1. SUFFICES ASSUME Tracked PROVE Segments'
    BY <1>2, ZenonT(60) DEF Segments, Tracked, Logging, wal
  <2>2. /\ HeadSegment' = HeadSegment /\ OldestSegment' = HeadSegment - 2 /\ OldestSegment = HeadSegment - 2
        /\ ~ IsMemory(Third)' /\ Second' = Second
    BY <1>0, <1>2, <1>3, <1>6, <1>10, <1>11, <1>13, Zenon DEF HeadSegment, OldestSegment, wal, IsMemory
  <2>3. Rows(head)' = Rows(head) /\ Rows(Second)' = Rows(Second)
    BY <1>6, <1>9, <1>11, <1>14, Zenon
  <2> QED BY <1>1, <1>2, <1>6, <1>16, <2>1, <2>2, <2>3, Zenon DEF Segments, wal
<1>26. Linked(parts', head', newest')
  BY <1>2, <1>9
<1> QED BY <1>17, <1>18, <1>19, <1>20, <1>21, <1>22, <1>23, <1>24, <1>25, <1>26, Zenon DEF Running

=============================================================================
