------------------------- MODULE PartitionListProofs -------------------------
(* The theorems of PartitionList, for any number of goroutines: those for   *)
(* any overlap of their calls, then those for calls that take turns.        *)
EXTENDS WellFoundedInduction, PartitionList, TLAPS

(* Chains of links, whatever the links *)

(* Links lead to older generations. *)
Downhill(L, r) ==
    /\ L \in [Nodes -> Nodes \cup {None}] /\ r \in [Nodes -> Nat]
    /\ \A n \in Nodes : L[n] # None => r[L[n]] < r[n]

(* A set of natural numbers that is not empty has a least element. *)
LEMMA NatMin ==
    ASSUME NEW T \in SUBSET Nat, T # {}
    PROVE  \E x \in T : \A y \in T : x <= y
<1> DEFINE R == OpToRel(<, Nat)
<1>1. IsWellFoundedOn(R, Nat)
  BY NatLessThanWellFounded, Zenon
<1>2. \A x, y \in Nat : x < y => <<x, y>> \in R
  BY DEF OpToRel
<1> HIDE DEF R
<1>3. PICK x \in T : \A y \in T : ~ (<<y, x>> \in R)
  BY <1>1, WFMin, Zenon
<1>4. \A y \in T : ~ (y < x)
  BY <1>2, <1>3, Zenon
<1> QED BY <1>4

(* The links leave no choice: one chain is the beginning of another ... *)
LEMMA ChainBegins ==
    ASSUME NEW f, NEW L, NEW s, NEW t, None \notin Nodes, IsChain(s, f, L), IsChain(t, f, L)
    PROVE  \A i \in 1..Len(s) : i \in 1..Len(t) /\ s[i] = t[i]
<1> DEFINE T == {i \in 1..Len(s) : ~ (i \in 1..Len(t) /\ s[i] = t[i])}
<1>1. /\ s \in Seq(Nodes) /\ t \in Seq(Nodes) /\ Len(s) \in Nat /\ Len(t) \in Nat
      /\ \A i \in 1..Len(s) : s[i] \in Nodes
      /\ f = None => Len(s) = 0 /\ Len(t) = 0
      /\ f # None => Len(s) # 0 /\ Len(t) # 0 /\ s[1] = f /\ t[1] = f
      /\ \A i \in 1..Len(s) : L[s[i]] = IF i = Len(s) THEN None ELSE s[i + 1]
      /\ \A i \in 1..Len(t) : L[t[i]] = IF i = Len(t) THEN None ELSE t[i + 1]
  BY SMTT(30) DEF IsChain
<1>2. SUFFICES ASSUME T # {} PROVE FALSE
  BY Zenon
<1>3. PICK i \in T : \A j \in T : i <= j
  <2>1. T \in SUBSET Nat
    BY <1>1
  <2> HIDE DEF T
  <2> QED BY <1>2, <2>1, NatMin, Zenon
<1>4. i # 1 /\ i \in 1..Len(s)
  BY <1>1, <1>3
<1>5. i - 1 \in 1..Len(s) /\ i - 1 \notin T
  BY <1>1, <1>3, <1>4, SMTT(30)
<1>6. i - 1 \in 1..Len(t) /\ s[i - 1] = t[i - 1] /\ L[s[i - 1]] = s[i] /\ s[i] # None
  BY <1>1, <1>4, <1>5, SMTT(30)
<1>7. i \in 1..Len(t) /\ s[i] = t[i]
  BY <1>1, <1>4, <1>6, SMTT(30)
<1> QED BY <1>3, <1>7, Zenon

(* ... and so there is only one. *)
LEMMA ChainUnique ==
    ASSUME NEW f, NEW L, NEW s, NEW t, None \notin Nodes, IsChain(s, f, L), IsChain(t, f, L)
    PROVE  s = t
<1>1. \A i \in 1..Len(s) : i \in 1..Len(t) /\ s[i] = t[i]
  BY ChainBegins
<1>2. \A i \in 1..Len(t) : i \in 1..Len(s) /\ t[i] = s[i]
  BY ChainBegins
<1>3. s \in Seq(Nodes) /\ t \in Seq(Nodes)
  BY DEF IsChain
<1>4. Len(s) \in Nat /\ Len(t) \in Nat /\ Len(s) <= Len(t) /\ Len(t) <= Len(s)
  <2>1. Len(s) \in Nat /\ Len(t) \in Nat
    BY <1>3
  <2>2. Len(s) # 0 => Len(s) \in 1..Len(t)
    BY <1>1, <2>1
  <2>3. Len(t) # 0 => Len(t) \in 1..Len(s)
    BY <1>2, <2>1
  <2> QED BY <2>1, <2>2, <2>3
<1> QED BY <1>1, <1>3, <1>4

(* Generations descend along a chain. *)
LEMMA ChainDown ==
    ASSUME NEW f, NEW L, NEW s, NEW r, Downhill(L, r), None \notin Nodes, IsChain(s, f, L)
    PROVE  \A i, j \in 1..Len(s) : i < j => r[s[j]] < r[s[i]]
<1>1. /\ s \in Seq(Nodes) /\ Len(s) \in Nat /\ \A i \in 1..Len(s) : s[i] \in Nodes
      /\ \A i \in 1..Len(s) : L[s[i]] = IF i = Len(s) THEN None ELSE s[i + 1]
  BY DEF IsChain
<1>2. \A i \in 1..Len(s) : r[s[i]] \in Nat
  BY <1>1, Zenon DEF Downhill
<1>3. \A i \in 1..Len(s) : i + 1 \in 1..Len(s) => r[s[i + 1]] < r[s[i]]
  BY <1>1 DEF Downhill
<1>4. SUFFICES ASSUME NEW i \in 1..Len(s) PROVE \A j \in 1..Len(s) : i < j => r[s[j]] < r[s[i]]
  BY Zenon
<1> DEFINE T == {j \in 1..Len(s) : i < j /\ ~ (r[s[j]] < r[s[i]])}
<1>5. SUFFICES ASSUME T # {} PROVE FALSE
  OBVIOUS
<1>6. PICK j \in T : \A k \in T : j <= k
  <2>1. T \in SUBSET Nat
    BY <1>1
  <2> HIDE DEF T
  <2> QED BY <1>5, <2>1, NatMin, Zenon
<1>7. j # i + 1
  BY <1>3, <1>6, Zenon
<1>8. j - 1 \in 1..Len(s) /\ i < j - 1 /\ j - 1 \notin T
  BY <1>1, <1>6, <1>7, SMTT(30)
<1>9. r[s[j - 1]] < r[s[i]] /\ r[s[j]] < r[s[j - 1]]
  <2>1. j - 1 + 1 = j
    BY <1>1, <1>6
  <2> QED BY <1>3, <1>6, <1>8, <2>1, Zenon
<1> QED BY <1>2, <1>6, <1>8, <1>9, SMTT(30)

(* A node in front of a chain makes a longer one. *)
LEMMA ChainCons ==
    ASSUME NEW L, NEW f, NEW s, IsChain(s, f, L), None \notin Nodes, NEW g \in Nodes, L[g] = f
    PROVE  IsChain(<<g>> \o s, g, L)
<1>1. /\ s \in Seq(Nodes) /\ Len(s) \in Nat
      /\ f = None => Len(s) = 0
      /\ f # None => Len(s) # 0 /\ s[1] = f
      /\ \A i \in 1..Len(s) : L[s[i]] = IF i = Len(s) THEN None ELSE s[i + 1]
  BY DEF IsChain
<1> DEFINE t == <<g>> \o s
<1>2. /\ t \in Seq(Nodes) /\ Len(t) = Len(s) + 1 /\ t # <<>> /\ t[1] = g
      /\ \A i \in 1..Len(s) : t[i + 1] = s[i]
  BY <1>1
<1> HIDE DEF t
<1>3. ASSUME NEW k \in 1..Len(t) PROVE L[t[k]] = IF k = Len(t) THEN None ELSE t[k + 1]
  <2>1. CASE k = 1
    BY <1>1, <1>2, <2>1
  <2>2. CASE k # 1
    <3>1. k - 1 \in 1..Len(s) /\ k = (k - 1) + 1 /\ (k = Len(t) <=> k - 1 = Len(s))
      BY <1>1, <1>2, <1>3, <2>2, SMTT(30)
    <3>2. PICK j \in 1..Len(s) : k = j + 1 /\ (k = Len(t) <=> j = Len(s))
      BY <3>1, SMTT(30)
    <3>3. t[k] = s[j] /\ L[s[j]] = IF j = Len(s) THEN None ELSE s[j + 1]
      BY <1>1, <1>2, <3>2, Zenon
    <3>4. j # Len(s) => j + 1 \in 1..Len(s)
      BY <1>1
    <3>5. j # Len(s) => t[k + 1] = s[j + 1]
      BY <1>2, <3>2, <3>4, Zenon
    <3> QED BY <3>2, <3>3, <3>5, Zenon
  <2> QED BY <2>1, <2>2, Zenon
<1>4. g # None
  BY Zenon
<1>5. IsChain(t, g, L)
  BY <1>2, <1>3, <1>4 DEF IsChain
<1> QED BY <1>5, Zenon DEF t

(* Links that are the same along a chain leave it a chain. *)
LEMMA ChainSame ==
    ASSUME NEW L, NEW M, NEW f, NEW s, IsChain(s, f, L),
           \A i \in 1..Len(s) : M[s[i]] = L[s[i]]
    PROVE  IsChain(s, f, M)
BY DEF IsChain

(* What a node of a chain links to is the next one. *)
LEMMA ChainNext ==
    ASSUME NEW L, NEW f, NEW s, IsChain(s, f, L), NEW j \in 1..Len(s), L[s[j]] # None
    PROVE  \E i \in 1..Len(s) : i # 1 /\ i - 1 = j /\ s[i] = L[s[j]]
<1>1. j + 1 \in 1..Len(s) /\ j + 1 # 1 /\ j + 1 - 1 = j /\ s[j + 1] = L[s[j]]
  BY DEF IsChain
<1> QED BY <1>1

(* The places of a chain that is not empty *)
LEMMA ChainPlaces ==
    ASSUME NEW L, NEW f, NEW s, IsChain(s, f, L)
    PROVE  /\ DOMAIN s = 1..Len(s) /\ \A i \in 1..Len(s) : s[i] \in Nodes
           /\ f # None => 1 \in 1..Len(s) /\ s[1] = f
BY DEF IsChain

(* What links to the i-th node of a chain, or the head, is led to n instead. *)
Led(s, i, f, L, e, M, n) ==
    /\ L \in [Nodes -> Nodes \cup {None}] /\ IsChain(s, f, L)
    /\ i \in 1..Len(s) /\ \A j, k \in 1..Len(s) : s[j] = s[k] => j = k
    /\ i = 1 => M = L /\ e = n
    /\ i # 1 => M = [L EXCEPT ![s[i - 1]] = n] /\ e = f

(* A sequence without its i-th element, and with another one for old *)
Without(s, i) == [k \in 1..Len(s) - 1 |-> IF k < i THEN s[k] ELSE s[k + 1]]
Replaced(s, old, new) == [k \in DOMAIN s |-> IF s[k] = old THEN new ELSE s[k]]

(* Taking a node out of a chain leaves a chain ... *)
LEMMA ChainWithout ==
    ASSUME None \notin Nodes, NEW L, NEW M, NEW f, NEW e, NEW s, NEW i,
           Led(s, i, f, L, e, M, L[s[i]])
    PROVE  IsChain(Without(s, i), e, M)
<1>0. /\ L \in [Nodes -> Nodes \cup {None}] /\ IsChain(s, f, L)
      /\ i \in 1..Len(s) /\ \A j, k \in 1..Len(s) : s[j] = s[k] => j = k
      /\ i = 1 => M = L /\ e = L[s[i]]
      /\ i # 1 => M = [L EXCEPT ![s[i - 1]] = L[s[i]]] /\ e = f
  BY Zenon DEF Led
<1> USE <1>0
<1> DEFINE n == Len(s)
           t == [k \in 1..n - 1 |-> IF k < i THEN s[k] ELSE s[k + 1]]
<1>1. /\ s \in Seq(Nodes) /\ n \in Nat \ {0} /\ (\A j \in 1..n : s[j] \in Nodes) /\ s[1] = f
      /\ \A j \in 1..n : L[s[j]] = IF j = n THEN None ELSE s[j + 1]
  BY SMTT(30) DEF IsChain
<1>2. /\ t \in Seq(Nodes) /\ Len(t) = n - 1
      /\ \A k \in 1..n - 1 : t[k] = IF k < i THEN s[k] ELSE s[k + 1]
  BY <1>1, SMTT(30)
<1> HIDE DEF t, n
<1>3. /\ e = None => n = 1
      /\ e # None => n # 1 /\ t[1] = e
  <2>1. CASE i = 1
    BY <1>1, <1>2, <2>1, SMTT(30)
  <2>2. CASE i # 1
    BY <1>1, <1>2, <2>2, SMTT(30) DEF n
  <2> QED BY <2>1, <2>2, Zenon
<1>4. ASSUME NEW k \in 1..n - 1 PROVE M[t[k]] = IF k = n - 1 THEN None ELSE t[k + 1]
  <2>1. CASE i = 1
    <3>1. /\ k + 1 \in 1..n /\ ~ (k < 1) /\ (k + 1 = n <=> k = n - 1)
          /\ k # n - 1 => k + 1 \in 1..n - 1 /\ ~ (k + 1 < 1)
      BY <1>1
    <3> QED BY <1>1, <1>2, <1>4, <2>1, <3>1, ZenonT(60)
  <2>2. CASE i # 1 /\ k = i - 1
    BY <1>1, <1>2, <1>4, <2>2 DEF n
  <2>3. CASE i # 1 /\ k # i - 1
    <3>1. t[k] # s[i - 1] /\ t[k] \in Nodes
      <4>1. i - 1 \in 1..n /\ k \in 1..n /\ k + 1 \in 1..n /\ (~ (k < i) => k + 1 # i - 1)
        BY <1>1, <2>3 DEF n
      <4>2. \A a, b \in 1..n : s[a] = s[b] => a = b
        BY Zenon DEF n
      <4> QED BY <1>1, <1>2, <1>4, <2>3, <4>1, <4>2, ZenonT(60)
    <3>2. M[t[k]] = L[t[k]]
      BY <2>3, <3>1, Zenon
    <3>3. CASE k < i
      <4>1. /\ k \in 1..n /\ k # n /\ k # n - 1 /\ k + 1 \in 1..n - 1 /\ k + 1 < i
        BY <1>1, <1>4, <2>3, <3>3, SMTT(30) DEF n
      <4> QED BY <1>1, <1>2, <3>2, <3>3, <4>1, Zenon
    <3>4. CASE ~ (k < i)
      <4>1. /\ k + 1 \in 1..n /\ ~ (k + 1 < i) /\ (k = n - 1 <=> k + 1 = n)
            /\ k # n - 1 => k + 1 \in 1..n - 1
        BY <1>1, <1>4, <2>3, <3>4, SMTT(30) DEF n
      <4> QED BY <1>1, <1>2, <1>4, <3>2, <3>4, <4>1, SMTT(30)
    <3> QED BY <3>3, <3>4, Zenon
  <2> QED BY <2>1, <2>2, <2>3, Zenon
<1>5. e # None => t # <<>>
  BY <1>1, <1>2, <1>3, SMTT(30)
<1>6. e = None => t = <<>>
  BY <1>1, <1>2, <1>3
<1>7. IsChain(t, e, M)
  BY <1>2, <1>3, <1>4, <1>5, <1>6 DEF IsChain
<1> QED BY <1>7, Zenon DEF t, n, Without

(* ... and so does putting another one in its place. *)
LEMMA ChainReplaced ==
    ASSUME None \notin Nodes, NEW L, NEW M, NEW f, NEW e, NEW s, NEW i, NEW g \in Nodes,
           Led(s, i, f, L, e, M, g), L[g] = L[s[i]], \A j \in 1..Len(s) : s[j] # g
    PROVE  IsChain(Replaced(s, s[i], g), e, M)
<1>0. /\ L \in [Nodes -> Nodes \cup {None}] /\ IsChain(s, f, L)
      /\ i \in 1..Len(s) /\ \A j, k \in 1..Len(s) : s[j] = s[k] => j = k
      /\ i = 1 => M = L /\ e = g
      /\ i # 1 => M = [L EXCEPT ![s[i - 1]] = g] /\ e = f
  BY Zenon DEF Led
<1> USE <1>0
<1> DEFINE n == Len(s)
           t == [k \in DOMAIN s |-> IF s[k] = s[i] THEN g ELSE s[k]]
<1>1. /\ s \in Seq(Nodes) /\ n \in Nat \ {0} /\ (\A j \in 1..n : s[j] \in Nodes) /\ s[1] = f
      /\ \A j \in 1..n : L[s[j]] = IF j = n THEN None ELSE s[j + 1]
  BY DEF IsChain
<1>2. /\ t \in Seq(Nodes) /\ Len(t) = n
      /\ \A k \in 1..n : t[k] = IF k = i THEN g ELSE s[k]
  BY <1>1
<1> HIDE DEF t, n
<1>3. e # None /\ t[1] = e /\ t # <<>>
  <2>1. CASE i = 1
    BY <1>1, <1>2, <2>1, SMTT(30)
  <2>2. CASE i # 1
    BY <1>1, <1>2, <2>2, SMTT(30)
  <2> QED BY <2>1, <2>2, Zenon
<1>4. ASSUME NEW k \in 1..n PROVE M[t[k]] = IF k = n THEN None ELSE t[k + 1]
  <2>1. CASE i = 1
    <3>1. k # n => k + 1 \in 1..n /\ k + 1 # 1
      BY <1>1
    <3>2. t[k] = (IF k = 1 THEN g ELSE s[k]) /\ (k # n => t[k + 1] = s[k + 1])
      BY <1>2, <1>4, <2>1, <3>1, Zenon
    <3>3. L[t[k]] = L[s[k]]
      BY <2>1, <3>2, Zenon
    <3> QED BY <1>1, <1>4, <2>1, <3>2, <3>3, Zenon
  <2>2. CASE i # 1 /\ k = i - 1
    BY <1>1, <1>2, <1>4, <2>2, SMTT(30) DEF n
  <2>3. CASE i # 1 /\ k # i - 1
    <3>1. t[k] # s[i - 1] /\ t[k] \in Nodes
      BY <1>1, <1>2, <1>4, <2>3, SMTT(30) DEF n
    <3>2. M[t[k]] = L[t[k]]
      BY <2>3, <3>1, Zenon
    <3>3. CASE k = i
      <4>1. t[k] = g /\ L[g] = L[s[k]] /\ (k # n => k + 1 \in 1..n /\ k + 1 # i)
        BY <1>1, <1>2, <1>4, <3>3
      <4>2. k # n => t[k + 1] = s[k + 1]
        BY <1>2, <4>1, Zenon
      <4>3. M[t[k]] = IF k = n THEN None ELSE s[k + 1]
        BY <1>1, <1>4, <3>2, <4>1, Zenon
      <4> QED BY <4>2, <4>3, Zenon
    <3>4. CASE k # i
      <4>1. t[k] = s[k] /\ (k # n => k + 1 \in 1..n /\ k + 1 # i)
        BY <1>1, <1>2, <1>4, <2>3, <3>4, SMTT(30)
      <4> QED BY <1>1, <1>2, <1>4, <3>2, <4>1, ZenonT(60)
    <3> QED BY <3>3, <3>4, Zenon
  <2> QED BY <2>1, <2>2, <2>3, Zenon
<1>5. IsChain(t, e, M)
  BY <1>2, <1>3, <1>4 DEF IsChain
<1> QED BY <1>5, Zenon DEF t, Replaced

-----------------------------------------------------------------------------
(* The nodes that have been allocated: those a pointer can lead to. *)
Allocated ==
    Opened \cup {g \in Goroutines :
        \/ local[g].op = "insert"
        \/ local[g].op = "swap" /\ local[g].pc \in {"readNext", "relink", "setTail", "done"}}

Walking == {"loadMin", "compare", "advance", "matched", "readNext", "relink"}

(* What a call knows of the nodes its local variables point to: they are    *)
(* allocated, and prev, cur and nxt are of descending generations although  *)
(* they may have been unlinked since they were read.                        *)
Walk(g) ==
    LET l == local[g]
    IN  /\ l.pc = "idle" => l = NewLocal
        /\ {l.cur, l.prev, l.nxt} \subseteq Allocated \cup {None}
        /\ l.visited \subseteq Allocated
        /\ l.pc \in Walking \cup {"newIterator"} =>
              l.target \in Nodes /\ l.op \in {"remove", "swap"}
        /\ l.pc = "newIterator" => l.prev = None
        /\ l.pc \in Walking => /\ l.cur # None
                               /\ l.prev # None => rank[l.cur] < rank[l.prev]
        /\ l.pc \in {"readNext", "relink"} /\ l.op = "swap" =>
              rank[g] = rank[l.cur] /\ l.cur # g
        /\ l.pc = "readNext" => l.op = "swap"
        /\ l.pc = "relink" /\ l.nxt # None => rank[l.nxt] < rank[l.cur]
        /\ l.pc \in {"setTail", "subNum", "clean"} => l.cur # None
        /\ l.pc = "setTail" => l.op \in {"remove", "swap"}
        /\ l.pc \in {"subNum", "clean"} => l.op = "remove"
        /\ l.pc \in {"setHead", "addNum"} => l.op = "insert"
        /\ l.pc = "scan" => l.op = "scan" /\ l.cur # None /\ \A v \in l.visited : rank[l.cur] <= rank[v]
        /\ \A u, v \in l.visited : rank[u] = rank[v] => u = v

(* The same of the list itself, and of the nodes swap has put in place of   *)
(* others.                                                                  *)
Links ==
    /\ head \in Allocated \cup {None}
    /\ \A n \in Nodes : next[n] # None => next[n] \in Allocated /\ rank[next[n]] < rank[n]
    /\ \A n \in Nodes : replaced[n] # None =>
          /\ n \in Allocated /\ replaced[n] \in Allocated
          /\ replaced[n] # n /\ rank[replaced[n]] = rank[n]

Inv == TypeOK /\ (\A g \in Goroutines : Walk(g)) /\ Links

(* A call changes its own local variables only, and the generation of no    *)
(* allocated node.                                                          *)
Steady(g) ==
    /\ \A h \in Goroutines : h # g => local'[h] = local[h]
    /\ \A n \in Allocated : n \in Allocated' /\ rank'[n] = rank[n]

(* The nodes are those of the opened partitions and one for each goroutine. *)
LEMMA NodeFacts ==
    /\ None \notin Nodes /\ Goroutines \subseteq Nodes /\ Opened \subseteq Nodes
    /\ Goroutines \cap Opened = {}
BY GoroutinesAssumption, NumOpenedAssumption DEF Nodes, Opened

(* The other calls keep what they know. *)
LEMMA OthersWalk ==
    ASSUME Inv, NEW g \in Goroutines, Steady(g), NEW h \in Goroutines, h # g
    PROVE  Walk(h)'
<1>1. Walk(h) /\ local'[h] = local[h]
  BY DEF Inv, Steady
<1>2. local[h].pc \in {"readNext", "relink"} /\ local[h].op = "swap" => h \in Allocated
  BY DEF Allocated
<1>3. PICK l : l = local[h]
  OBVIOUS
<1>4. /\ {l.cur, l.prev, l.nxt} \subseteq Allocated \cup {None}
      /\ l.visited \subseteq Allocated
      /\ l.pc \in {"readNext", "relink"} /\ l.op = "swap" => h \in Allocated
  BY <1>1, <1>2, <1>3 DEF Walk
<1>5. /\ {l.cur, l.prev, l.nxt} \subseteq Allocated' \cup {None}
      /\ l.visited \subseteq Allocated'
      /\ l.cur # None => rank'[l.cur] = rank[l.cur]
      /\ l.prev # None => rank'[l.prev] = rank[l.prev]
      /\ l.nxt # None => rank'[l.nxt] = rank[l.nxt]
      /\ \A v \in l.visited : rank'[v] = rank[v]
      /\ l.pc \in {"readNext", "relink"} /\ l.op = "swap" => rank'[h] = rank[h]
  BY <1>4 DEF Steady
<1> QED BY <1>1, <1>3, <1>5 DEF Walk, Walking

(* A step is steady if it allocates no node twice. *)
LEMMA SteadyStep ==
    ASSUME TypeOK, NEW g \in Goroutines,
           \A h \in Goroutines : h # g => local'[h] = local[h],
           UNCHANGED rank \/ (g \notin Allocated /\ \E k : rank' = [rank EXCEPT ![g] = k]),
           g \in Allocated => g \in Allocated'
    PROVE  Steady(g)
<1>1. ASSUME NEW n \in Allocated PROVE n \in Allocated' /\ rank'[n] = rank[n]
  <2>1. n \in Opened \/ n \in Goroutines
    BY DEF Allocated
  <2>2. n \in Allocated'
    BY <2>1 DEF Allocated
  <2>3. n \in Nodes
    BY <2>1, NodeFacts
  <2>4. CASE n = g
    BY <2>2, <2>4
  <2>5. CASE n # g
    BY <2>2, <2>3, <2>5 DEF TypeOK
  <2> QED BY <2>4, <2>5
<1> QED BY <1>1 DEF Steady

(* The goroutine that takes a step allocates at most its own node, and its  *)
(* local variables still lead to older and older nodes.                     *)
LEMMA OwnStep ==
    ASSUME Inv, NEW g \in Goroutines, Insert(g) \/ Call(g) \/ Scan(g) \/ Step(g)
    PROVE  Steady(g) /\ Walk(g)'
<1>1. /\ local \in [Goroutines -> Local] /\ local[g] \in Local /\ Walk(g) /\ TypeOK
      /\ rank \in [Nodes -> Nat] /\ next \in [Nodes -> Nodes \cup {None}]
  BY DEF Inv, TypeOK
<1>2. Allocated \subseteq Nodes
  BY NodeFacts DEF Allocated
<1>3. None \notin Nodes /\ g \in Nodes /\ g \notin Opened
  BY NodeFacts
<1>r. \A n \in Allocated : rank[n] \in Nat
  BY <1>1, <1>2
<1>l. Links
  BY DEF Inv
<1>4. CASE Insert(g)
  <2>0. local[g].pc = "idle"
    BY <1>4 DEF Insert, pc
  <2>i. local[g] = NewLocal
    BY <1>1, <2>0 DEF Walk
  <2>1. /\ local'[g].pc = "setHead"
        /\ local'[g].op = "insert"
        /\ local'[g].target = local[g].target
        /\ local'[g].cur = local[g].cur
        /\ local'[g].prev = local[g].prev
        /\ local'[g].nxt = local[g].nxt
        /\ local'[g].visited = local[g].visited
        /\ \A h \in Goroutines : h # g => local'[h] = local[h]
    BY <1>4, <1>1 DEF Insert, Continue, Goto, Local
  <2>2. g \notin Allocated
    BY <1>3, <2>0, <2>i DEF Allocated, NewLocal
  <2>3. Steady(g)
    BY <1>4, <1>1, <2>1, <2>2, SteadyStep, Zenon DEF Insert, history
  <2>4. Walk(g)'
    BY <1>4, <1>1, <1>2, <1>3, <1>r, <1>l, <2>0, <2>1, <2>2, <2>3, <2>i, SMTT(30) DEF Insert, Walk, Walking, Steady, Links, history, NewLocal
  <2> QED BY <2>3, <2>4
<1>5. CASE SetHead(g)
  <2>0. local[g].pc = "setHead"
    BY <1>5 DEF SetHead, pc
  <2>1. /\ local'[g].pc = "addNum"
        /\ local'[g].op = local[g].op
        /\ local'[g].target = local[g].target
        /\ local'[g].cur = local[g].cur
        /\ local'[g].prev = local[g].prev
        /\ local'[g].nxt = local[g].nxt
        /\ local'[g].visited = local[g].visited
        /\ \A h \in Goroutines : h # g => local'[h] = local[h]
    BY <1>5, <1>1, Zenon DEF SetHead, Continue, Goto, Local
  <2>2. g \in Allocated => g \in Allocated'
    BY <1>1, <1>3, <2>0, <2>1, Zenon DEF Allocated, Walk, Walking
  <2>3. Steady(g)
    BY <1>5, <1>1, <2>1, <2>2, SteadyStep, Zenon DEF SetHead, history
  <2>4. Walk(g)'
    BY <1>5, <1>1, <1>2, <1>3, <1>r, <1>l, <2>0, <2>1, <2>2, <2>3 DEF SetHead, Walk, Walking, Steady, Links, history
  <2> QED BY <2>3, <2>4
<1>6. CASE AddNum(g)
  <2>0. local[g].pc = "addNum"
    BY <1>6 DEF AddNum, pc
  <2>1. /\ local'[g].pc = "done"
        /\ local'[g].op = local[g].op
        /\ local'[g].target = local[g].target
        /\ local'[g].cur = local[g].cur
        /\ local'[g].prev = local[g].prev
        /\ local'[g].nxt = local[g].nxt
        /\ local'[g].visited = local[g].visited
        /\ \A h \in Goroutines : h # g => local'[h] = local[h]
    BY <1>6, <1>1, Zenon DEF AddNum, Continue, Goto, Local
  <2>2. g \in Allocated => g \in Allocated'
    BY <1>1, <1>3, <2>0, <2>1, Zenon DEF Allocated, Walk, Walking
  <2>3. Steady(g)
    BY <1>6, <1>1, <2>1, <2>2, SteadyStep, Zenon DEF AddNum, history
  <2>4. Walk(g)'
    BY <1>6, <1>1, <1>2, <1>3, <1>r, <1>l, <2>0, <2>1, <2>2, <2>3 DEF AddNum, Walk, Walking, Steady, Links, history
  <2> QED BY <2>3, <2>4
<1>7. CASE Call(g)
  <2>0. local[g].pc = "idle"
    BY <1>7, Zenon DEF Call, pc
  <2>i. local[g] = NewLocal
    BY <1>1, <2>0 DEF Walk
  <2>a. PICK op \in {"remove", "swap"}, t \in Targets :
           Continue(g, [local[g] EXCEPT !.pc = IF numPartitions <= 0 THEN "done" ELSE "newIterator",
                                        !.op = op, !.target = t,
                                        !.before = {n \in {t} : min[n] # 0}])
    BY <1>7, Zenon DEF Call
  <2>b. t \in Nodes
    BY NodeFacts DEF Targets, Published
  <2>1. /\ local'[g].pc \in {"done", "newIterator"}
        /\ local'[g].op \in {"remove", "swap"} /\ local'[g].target \in Nodes
        /\ local'[g].cur = None /\ local'[g].prev = None /\ local'[g].nxt = None
        /\ local'[g].visited = {}
        /\ \A h \in Goroutines : h # g => local'[h] = local[h]
    BY <1>1, <2>a, <2>b, <2>i, SMTT(30) DEF Continue, Local, NewLocal
  <2>2. g \in Allocated => g \in Allocated'
    BY <1>1, <1>3, <2>0, <2>1, <2>i DEF Allocated, Walk, Walking, NewLocal
  <2>3. Steady(g)
    BY <1>7, <1>1, <2>1, <2>2, SteadyStep, Zenon DEF Call, history
  <2>4. Walk(g)'
    BY <1>7, <1>1, <1>2, <1>3, <1>r, <1>l, <2>0, <2>1, <2>2, <2>3, <2>i, Zenon DEF Call, Walk, Walking, Steady, Links, history, NewLocal
  <2> QED BY <2>3, <2>4
<1>8. CASE NewIterator(g)
  <2>0. local[g].pc = "newIterator"
    BY <1>8 DEF NewIterator, pc
  <2>1. /\ local'[g].pc = (IF head = None THEN "done" ELSE "loadMin")
        /\ local'[g].op = local[g].op
        /\ local'[g].target = local[g].target
        /\ local'[g].cur = head
        /\ local'[g].prev = local[g].prev
        /\ local'[g].nxt = local[g].nxt
        /\ local'[g].visited = local[g].visited
        /\ \A h \in Goroutines : h # g => local'[h] = local[h]
    BY <1>8, <1>1, Zenon DEF NewIterator, Continue, Goto, Local
  <2>2. g \in Allocated => g \in Allocated'
    BY <1>1, <1>3, <2>0, <2>1 DEF Allocated, Walk, Walking
  <2>3. Steady(g)
    BY <1>8, <1>1, <2>1, <2>2, SteadyStep DEF NewIterator, history
  <2>4. Walk(g)'
    BY <1>8, <1>1, <1>2, <1>3, <1>r, <1>l, <2>0, <2>1, <2>2, <2>3 DEF NewIterator, Walk, Walking, Steady, Links, history
  <2> QED BY <2>3, <2>4
<1>9. CASE LoadMin(g)
  <2>0. local[g].pc = "loadMin"
    BY <1>9 DEF LoadMin, pc
  <2>1. /\ local'[g].pc = "compare"
        /\ local'[g].op = local[g].op
        /\ local'[g].target = local[g].target
        /\ local'[g].cur = local[g].cur
        /\ local'[g].prev = local[g].prev
        /\ local'[g].nxt = local[g].nxt
        /\ local'[g].visited = local[g].visited
        /\ \A h \in Goroutines : h # g => local'[h] = local[h]
    BY <1>9, <1>1, Zenon DEF LoadMin, Continue, Goto, Local
  <2>2. g \in Allocated => g \in Allocated'
    BY <1>1, <1>3, <2>0, <2>1 DEF Allocated, Walk, Walking
  <2>3. Steady(g)
    BY <1>9, <1>1, <2>1, <2>2, SteadyStep DEF LoadMin, history
  <2>4. Walk(g)'
    BY <1>9, <1>1, <1>2, <1>3, <1>r, <1>l, <2>0, <2>1, <2>2, <2>3 DEF LoadMin, Walk, Walking, Steady, Links, history
  <2> QED BY <2>3, <2>4
<1>10. CASE Compare(g)
  <2>0. local[g].pc = "compare"
    BY <1>10 DEF Compare, pc
  <2>1. /\ local'[g].pc = (IF local[g].curMin = min[local[g].target] THEN "matched" ELSE "advance")
        /\ local'[g].op = local[g].op
        /\ local'[g].target = local[g].target
        /\ local'[g].cur = local[g].cur
        /\ local'[g].prev = local[g].prev
        /\ local'[g].nxt = local[g].nxt
        /\ local'[g].visited = local[g].visited
        /\ \A h \in Goroutines : h # g => local'[h] = local[h]
    BY <1>10, <1>1, Zenon DEF Compare, Continue, Goto, Local
  <2>2. g \in Allocated => g \in Allocated'
    BY <1>1, <1>3, <2>0, <2>1, Zenon DEF Allocated, Walk, Walking
  <2>3. Steady(g)
    BY <1>10, <1>1, <2>1, <2>2, SteadyStep, Zenon DEF Compare, history
  <2>4. Walk(g)'
    BY <1>10, <1>1, <1>2, <1>3, <1>r, <1>l, <2>0, <2>1, <2>2, <2>3 DEF Compare, Walk, Walking, Steady, Links, history
  <2> QED BY <2>3, <2>4
<1>11. CASE Advance(g)
  <2>0. local[g].pc = "advance"
    BY <1>11 DEF Advance, pc
  <2>1. /\ local'[g].pc = (IF next[local[g].cur] = None THEN "done" ELSE "loadMin")
        /\ local'[g].op = local[g].op
        /\ local'[g].target = local[g].target
        /\ local'[g].cur = next[local[g].cur]
        /\ local'[g].prev = local[g].cur
        /\ local'[g].nxt = local[g].nxt
        /\ local'[g].visited = local[g].visited
        /\ \A h \in Goroutines : h # g => local'[h] = local[h]
    BY <1>11, <1>1, Zenon DEF Advance, Continue, Goto, Local
  <2>2. g \in Allocated => g \in Allocated'
    BY <1>1, <1>3, <2>0, <2>1, Zenon DEF Allocated, Walk, Walking
  <2>3. Steady(g)
    BY <1>11, <1>1, <2>1, <2>2, SteadyStep, Zenon DEF Advance, history
  <2>4. Walk(g)'
    BY <1>11, <1>1, <1>2, <1>3, <1>r, <1>l, <2>0, <2>1, <2>2, <2>3 DEF Advance, Walk, Walking, Steady, Links, history
  <2> QED BY <2>3, <2>4
<1>12. CASE NewNode(g)
  <2>0. local[g].pc = "matched" /\ local[g].op = "swap"
    BY <1>12 DEF NewNode, pc
  <2>1. /\ local'[g].pc = "readNext"
        /\ local'[g].op = local[g].op
        /\ local'[g].target = local[g].target
        /\ local'[g].cur = local[g].cur
        /\ local'[g].prev = local[g].prev
        /\ local'[g].nxt = local[g].nxt
        /\ local'[g].visited = local[g].visited
        /\ \A h \in Goroutines : h # g => local'[h] = local[h]
    BY <1>12, <1>1 DEF NewNode, Continue, Goto, Local
  <2>2. g \notin Allocated
    BY <1>3, <2>0 DEF Allocated
  <2>3. Steady(g)
    BY <1>12, <1>1, <2>1, <2>2, SteadyStep, Zenon DEF NewNode, history
  <2>4. Walk(g)'
    BY <1>12, <1>1, <1>2, <1>3, <1>r, <1>l, <2>0, <2>1, <2>2, <2>3 DEF NewNode, Walk, Walking, Steady, Links, history
  <2> QED BY <2>3, <2>4
<1>13. CASE ReadNext(g)
  <2>0. local[g].pc = "readNext" \/ (local[g].pc = "matched" /\ local[g].op = "remove")
    BY <1>13 DEF ReadNext, pc
  <2>1. /\ local'[g].pc = "relink"
        /\ local'[g].op = local[g].op
        /\ local'[g].target = local[g].target
        /\ local'[g].cur = local[g].cur
        /\ local'[g].prev = local[g].prev
        /\ local'[g].nxt = next[local[g].cur]
        /\ local'[g].visited = local[g].visited
        /\ \A h \in Goroutines : h # g => local'[h] = local[h]
    BY <1>13, <1>1, Zenon DEF ReadNext, Continue, Goto, Local
  <2>2. g \in Allocated => g \in Allocated'
    BY <1>1, <1>3, <2>0, <2>1 DEF Allocated, Walk, Walking
  <2>3. Steady(g)
    BY <1>13, <1>1, <2>1, <2>2, SteadyStep, Zenon DEF ReadNext, history
  <2>4. Walk(g)'
    BY <1>13, <1>1, <1>2, <1>3, <1>r, <1>l, <2>0, <2>1, <2>2, <2>3 DEF ReadNext, Walk, Walking, Steady, Links, history
  <2> QED BY <2>3, <2>4
<1>14. CASE RemoveNode(g)
  <2>0. local[g].pc = "relink" /\ local[g].op = "remove"
    BY <1>14 DEF RemoveNode, pc
  <2>1. /\ local'[g].pc = (IF local[g].prev # None /\ local[g].nxt = None THEN "setTail" ELSE "subNum")
        /\ local'[g].op = local[g].op
        /\ local'[g].target = local[g].target
        /\ local'[g].cur = local[g].cur
        /\ local'[g].prev = local[g].prev
        /\ local'[g].nxt = local[g].nxt
        /\ local'[g].visited = local[g].visited
        /\ \A h \in Goroutines : h # g => local'[h] = local[h]
    BY <1>14, <1>1, Zenon DEF RemoveNode, Continue, Goto, Local, Relink
  <2>2. g \in Allocated => g \in Allocated'
    BY <1>1, <1>3, <2>0, <2>1, Zenon DEF Allocated, Walk, Walking
  <2>3. Steady(g)
    BY <1>14, <1>1, <2>1, <2>2, SteadyStep, Zenon DEF RemoveNode, history
  <2>4. Walk(g)'
    BY <1>14, <1>1, <1>2, <1>3, <1>r, <1>l, <2>0, <2>1, <2>2, <2>3 DEF RemoveNode, Walk, Walking, Steady, Links, history
  <2> QED BY <2>3, <2>4
<1>15. CASE SwapNode(g)
  <2>0. local[g].pc = "relink" /\ local[g].op = "swap"
    BY <1>15 DEF SwapNode, pc
  <2>1. /\ local'[g].pc = (IF local[g].prev # None /\ local[g].nxt = None THEN "setTail" ELSE "done")
        /\ local'[g].op = local[g].op
        /\ local'[g].target = local[g].target
        /\ local'[g].cur = local[g].cur
        /\ local'[g].prev = local[g].prev
        /\ local'[g].nxt = local[g].nxt
        /\ local'[g].visited = local[g].visited
        /\ \A h \in Goroutines : h # g => local'[h] = local[h]
    BY <1>15, <1>1, Zenon DEF SwapNode, Continue, Goto, Local, Relink
  <2>2. g \in Allocated => g \in Allocated'
    BY <1>1, <1>3, <2>0, <2>1, Zenon DEF Allocated, Walk, Walking
  <2>3. Steady(g)
    BY <1>15, <1>1, <2>1, <2>2, SteadyStep, Zenon DEF SwapNode, history
  <2>4. Walk(g)'
    BY <1>15, <1>1, <1>2, <1>3, <1>r, <1>l, <2>0, <2>1, <2>2, <2>3 DEF SwapNode, Walk, Walking, Steady, Links, history
  <2> QED BY <2>3, <2>4
<1>16. CASE SetTail(g)
  <2>0. local[g].pc = "setTail"
    BY <1>16 DEF SetTail, pc
  <2>1. /\ local'[g].pc = (IF local[g].op = "remove" THEN "subNum" ELSE "done")
        /\ local'[g].op = local[g].op
        /\ local'[g].target = local[g].target
        /\ local'[g].cur = local[g].cur
        /\ local'[g].prev = local[g].prev
        /\ local'[g].nxt = local[g].nxt
        /\ local'[g].visited = local[g].visited
        /\ \A h \in Goroutines : h # g => local'[h] = local[h]
    BY <1>16, <1>1 DEF SetTail, Continue, Goto, Local
  <2>2. g \in Allocated => g \in Allocated'
    BY <1>1, <1>3, <2>0, <2>1 DEF Allocated, Walk, Walking
  <2>3. Steady(g)
    BY <1>16, <1>1, <2>1, <2>2, SteadyStep, Zenon DEF SetTail, history
  <2>4. Walk(g)'
    BY <1>16, <1>1, <1>2, <1>3, <1>r, <1>l, <2>0, <2>1, <2>2, <2>3 DEF SetTail, Walk, Walking, Steady, Links, history
  <2> QED BY <2>3, <2>4
<1>17. CASE SubNum(g)
  <2>0. local[g].pc = "subNum"
    BY <1>17 DEF SubNum, pc
  <2>1. /\ local'[g].pc = "clean"
        /\ local'[g].op = local[g].op
        /\ local'[g].target = local[g].target
        /\ local'[g].cur = local[g].cur
        /\ local'[g].prev = local[g].prev
        /\ local'[g].nxt = local[g].nxt
        /\ local'[g].visited = local[g].visited
        /\ \A h \in Goroutines : h # g => local'[h] = local[h]
    BY <1>17, <1>1, Zenon DEF SubNum, Continue, Goto, Local
  <2>2. g \in Allocated => g \in Allocated'
    BY <1>1, <1>3, <2>0, <2>1, Zenon DEF Allocated, Walk, Walking
  <2>3. Steady(g)
    BY <1>17, <1>1, <2>1, <2>2, SteadyStep, Zenon DEF SubNum, history
  <2>4. Walk(g)'
    BY <1>17, <1>1, <1>2, <1>3, <1>r, <1>l, <2>0, <2>1, <2>2, <2>3 DEF SubNum, Walk, Walking, Steady, Links, history
  <2> QED BY <2>3, <2>4
<1>18. CASE Clean(g)
  <2>0. local[g].pc = "clean"
    BY <1>18 DEF Clean, pc
  <2>1. /\ local'[g].pc = "done"
        /\ local'[g].op = local[g].op
        /\ local'[g].target = local[g].target
        /\ local'[g].cur = local[g].cur
        /\ local'[g].prev = local[g].prev
        /\ local'[g].nxt = local[g].nxt
        /\ local'[g].visited = local[g].visited
        /\ \A h \in Goroutines : h # g => local'[h] = local[h]
    BY <1>18, <1>1, Zenon DEF Clean, Continue, Goto, Local
  <2>2. g \in Allocated => g \in Allocated'
    BY <1>1, <1>3, <2>0, <2>1 DEF Allocated, Walk, Walking
  <2>3. Steady(g)
    BY <1>18, <1>1, <2>1, <2>2, SteadyStep, Zenon DEF Clean, history
  <2>4. Walk(g)'
    BY <1>18, <1>1, <1>2, <1>3, <1>r, <1>l, <2>0, <2>1, <2>2, <2>3 DEF Clean, Walk, Walking, Steady, Links, history
  <2> QED BY <2>3, <2>4
<1>19. CASE Scan(g)
  <2>0. local[g].pc = "idle"
    BY <1>19 DEF Scan, pc
  <2>i. local[g] = NewLocal
    BY <1>1, <2>0 DEF Walk
  <2>1. /\ local'[g].pc = (IF head = None THEN "done" ELSE "scan") /\ local'[g].op = "scan"
        /\ local'[g].cur = head /\ local'[g].prev = None /\ local'[g].nxt = None
        /\ local'[g].visited = {head} \ {None}
        /\ \A h \in Goroutines : h # g => local'[h] = local[h]
    BY <1>19, <1>1, <2>i DEF Scan, Visit, Continue, Local, NewLocal
  <2>2. g \in Allocated => g \in Allocated'
    BY <1>1, <1>3, <2>0, <2>1, <2>i DEF Allocated, Walk, Walking, NewLocal
  <2>3. Steady(g)
    BY <1>19, <1>1, <2>1, <2>2, SteadyStep DEF Scan, history
  <2>4. Walk(g)'
    BY <1>19, <1>1, <1>2, <1>3, <1>r, <1>l, <2>0, <2>1, <2>2, <2>3, <2>i DEF Scan, Walk, Walking, Steady, Links, history, NewLocal
  <2> QED BY <2>3, <2>4
<1>20. CASE ScanOn(g)
  <2>0. local[g].pc = "scan"
    BY <1>20 DEF ScanOn, pc
  <2>1. /\ local'[g].pc = (IF next[local[g].cur] = None THEN "done" ELSE "scan")
        /\ local'[g].op = local[g].op
        /\ local'[g].target = local[g].target
        /\ local'[g].cur = next[local[g].cur]
        /\ local'[g].prev = local[g].prev
        /\ local'[g].nxt = local[g].nxt
        /\ local'[g].visited = local[g].visited \cup ({next[local[g].cur]} \ {None})
        /\ \A h \in Goroutines : h # g => local'[h] = local[h]
    BY <1>20, <1>1, Zenon DEF ScanOn, Continue, Goto, Local, Visit
  <2>2. g \in Allocated => g \in Allocated'
    BY <1>1, <1>3, <2>0, <2>1 DEF Allocated, Walk, Walking
  <2>3. Steady(g)
    BY <1>20, <1>1, <2>1, <2>2, SteadyStep, Zenon DEF ScanOn, history
  <2>4. Walk(g)'
    BY <1>20, <1>1, <1>2, <1>3, <1>r, <1>l, <2>0, <2>1, <2>2, <2>3 DEF ScanOn, Walk, Walking, Steady, Links, history
  <2> QED BY <2>3, <2>4
<1> QED
  BY <1>4, <1>5, <1>6, <1>7, <1>8, <1>9, <1>10, <1>11, <1>12, <1>13, <1>14, <1>15, <1>16, <1>17, <1>18, <1>19, <1>20, Zenon DEF Step

(* A step that relinks nothing keeps the links. *)
LEMMA QuietLinks ==
    ASSUME Inv, NEW g \in Goroutines, Steady(g), UNCHANGED <<head, next, rank, replaced>>
    PROVE  Links'
BY DEF Inv, Links, Steady

(* The links that a step sets lead to allocated nodes of older generations. *)
LEMMA OwnLinks ==
    ASSUME Inv, NEW g \in Goroutines, Steady(g), Insert(g) \/ Call(g) \/ Scan(g) \/ Step(g)
    PROVE  Links'
<1>1. /\ Walk(g) /\ Links /\ None \notin Nodes /\ g \in Nodes /\ g \notin Opened
      /\ rank \in [Nodes -> Nat] /\ next \in [Nodes -> Nodes \cup {None}]
      /\ replaced \in [Nodes -> Nodes \cup {None}]
      /\ local \in [Goroutines -> Local] /\ local[g] \in Local
  BY NodeFacts, Zenon DEF Inv, TypeOK
<1>2. Allocated \subseteq Nodes
  BY NodeFacts DEF Allocated
<1>3. \A n \in Allocated : rank[n] \in Nat
  BY <1>1, <1>2
<1>4. CASE Insert(g)
  <2>1. g \notin Allocated
    BY <1>1, <1>4 DEF Allocated, Walk, NewLocal, Insert, pc
  <2>2. /\ next' = [next EXCEPT ![g] = head] /\ UNCHANGED <<head, replaced>>
        /\ rank' = [rank EXCEPT ![g] = IF head = None THEN 0 ELSE rank[head] + 1]
    BY <1>4 DEF Insert, list
  <2>3. ASSUME NEW n \in Nodes, next'[n] # None
        PROVE  next'[n] \in Allocated' /\ rank'[next'[n]] < rank'[n]
    <3>1. CASE n = g
      BY <1>1, <1>2, <1>3, <2>1, <2>2, <2>3, <3>1 DEF Links, Steady
    <3>2. CASE n # g
      BY <1>1, <1>2, <2>1, <2>2, <2>3, <3>2, SMTT(30) DEF Links, Steady
    <3> QED BY <3>1, <3>2
  <2> QED BY <1>1, <2>2, <2>3 DEF Links, Steady
<1>5. CASE SetHead(g)
  <2>1. /\ g \in Allocated /\ head' = g /\ UNCHANGED <<next, rank, replaced>>
    BY <1>1, <1>5, Zenon DEF SetHead, Walk, Allocated, pc, history
  <2> QED BY <1>1, <2>1, Zenon DEF Links, Steady
<1>6. CASE NewNode(g)
  <2>1. g \notin Allocated /\ local[g].cur \in Allocated
    BY <1>1, <1>6 DEF Allocated, Walk, Walking, NewNode, pc
  <2>2. /\ next' = [next EXCEPT ![g] = next[local[g].cur]] /\ UNCHANGED <<head, replaced>>
        /\ rank' = [rank EXCEPT ![g] = rank[local[g].cur]]
    BY <1>6, Zenon DEF NewNode, list
  <2>3. ASSUME NEW n \in Nodes, next'[n] # None
        PROVE  next'[n] \in Allocated' /\ rank'[next'[n]] < rank'[n]
    <3>1. CASE n = g
      <4>1. next'[n] = next[local[g].cur] /\ rank'[n] = rank[local[g].cur]
        BY <1>1, <2>2, <3>1
      <4>2. next'[n] \in Allocated /\ rank[next'[n]] < rank[local[g].cur]
        BY <1>1, <1>2, <2>1, <2>3, <4>1, Zenon DEF Links
      <4> QED BY <4>1, <4>2 DEF Steady
    <3>2. CASE n # g
      BY <1>1, <1>2, <2>1, <2>2, <2>3, <3>2 DEF Links, Steady
    <3> QED BY <3>1, <3>2
  <2> QED BY <1>1, <2>2, <2>3 DEF Links, Steady
<1>7. ASSUME NEW x \in Allocated' \cup {None}, NEW then, Relink(g, x, then), UNCHANGED rank,
             local[g].prev # None => local[g].prev \in Nodes,
             x # None /\ local[g].prev # None => rank[x] < rank[local[g].prev]
      PROVE  /\ head' \in Allocated' \cup {None}
             /\ \A n \in Nodes : next'[n] # None => next'[n] \in Allocated' /\ rank'[next'[n]] < rank'[n]
  <2>1. CASE local[g].prev = None
    BY <1>1, <1>7, <2>1, Zenon DEF Relink, Links, Steady
  <2>2. CASE local[g].prev # None
    <3>1. head' = head /\ next' = [next EXCEPT ![local[g].prev] = x]
      BY <1>7, <2>2, Zenon DEF Relink
    <3> QED BY <1>1, <1>7, <2>2, <3>1, Zenon DEF Links, Steady
  <2> QED BY <2>1, <2>2, Zenon
<1>8. CASE RemoveNode(g)
  <2>1. /\ Relink(g, local[g].nxt, "subNum") /\ UNCHANGED <<rank, replaced>> /\ local[g].pc = "relink"
    BY <1>8, Zenon DEF RemoveNode, history, pc
  <2>2. /\ {local[g].cur, local[g].prev, local[g].nxt} \subseteq Allocated \cup {None}
        /\ local[g].cur # None
        /\ local[g].prev # None => rank[local[g].cur] < rank[local[g].prev]
        /\ local[g].nxt # None => rank[local[g].nxt] < rank[local[g].cur]
    BY <1>1, <2>1, Zenon DEF Walk, Walking
  <2>3. PICK x \in Allocated' \cup {None} : x = local[g].nxt
    BY <2>2 DEF Steady
  <2>4. local[g].prev # None => local[g].prev \in Nodes
    BY <1>2, <2>2
  <2>5. x # None /\ local[g].prev # None => rank[x] < rank[local[g].prev]
    BY <1>3, <2>2, <2>3
  <2>6. Relink(g, x, "subNum")
    BY <2>1, <2>3
  <2> QED BY <1>1, <1>7, <2>1, <2>4, <2>5, <2>6, Zenon DEF Links, Steady
<1>9. CASE SwapNode(g)
  <2>1. /\ Relink(g, g, "done") /\ UNCHANGED rank /\ local[g].pc = "relink"
        /\ replaced' = [replaced EXCEPT ![g] = local[g].cur] /\ local[g].op = "swap"
    BY <1>9, Zenon DEF SwapNode, pc
  <2>2. /\ {local[g].cur, local[g].prev} \subseteq Allocated \cup {None}
        /\ local[g].cur # None /\ g \in Allocated
        /\ local[g].prev # None => rank[local[g].cur] < rank[local[g].prev]
        /\ rank[g] = rank[local[g].cur] /\ local[g].cur # g
    BY <1>1, <2>1, Zenon DEF Walk, Walking, Allocated
  <2>3. g \in Allocated' /\ (local[g].prev # None => local[g].prev \in Nodes)
    BY <1>2, <2>2, Zenon DEF Steady
  <2>4. /\ head' \in Allocated' \cup {None}
        /\ \A n \in Nodes : next'[n] # None => next'[n] \in Allocated' /\ rank'[next'[n]] < rank'[n]
    BY <1>7, <2>1, <2>2, <2>3
  <2>5. ASSUME NEW n \in Nodes, replaced'[n] # None
        PROVE  /\ n \in Allocated' /\ replaced'[n] \in Allocated'
               /\ replaced'[n] # n /\ rank'[replaced'[n]] = rank'[n]
    <3>1. CASE n = g
      BY <1>1, <2>1, <2>2, <2>3, <3>1, Zenon DEF Steady
    <3>2. CASE n # g
      BY <1>1, <2>1, <2>5, <3>2 DEF Steady, Links
    <3> QED BY <3>1, <3>2, Zenon
  <2> QED BY <2>4, <2>5 DEF Links
<1>10. CASE UNCHANGED <<head, next, rank, replaced>>
  BY <1>10, QuietLinks
<1>11. Call(g) \/ Scan(g) \/ AddNum(g) \/ NewIterator(g) \/ LoadMin(g) \/ Compare(g) \/ Advance(g)
          \/ ReadNext(g) \/ SetTail(g) \/ SubNum(g) \/ Clean(g) \/ ScanOn(g)
            => UNCHANGED <<head, next, rank, replaced>>
  BY Zenon DEF Call, Scan, AddNum, NewIterator, LoadMin, Compare, Advance, ReadNext, SetTail, SubNum,
         Clean, ScanOn, list, history
<1> QED BY <1>4, <1>5, <1>6, <1>8, <1>9, <1>10, <1>11 DEF Step

(* Every step keeps the types. *)
LEMMA OwnTypes ==
    ASSUME Inv, NEW g \in Goroutines, Insert(g) \/ Call(g) \/ Scan(g) \/ Step(g)
    PROVE  TypeOK'
<1>1. /\ TypeOK /\ Walk(g) /\ None \notin Nodes /\ g \in Nodes
      /\ local[g] \in Local
  BY NodeFacts, Zenon DEF Inv, TypeOK
<1>2. /\ local[g].pc \in Walking => local[g].cur \in Nodes /\ local[g].target \in Nodes
      /\ local[g].pc \in {"scan", "setTail", "subNum", "clean"} => local[g].cur \in Nodes
  BY <1>1, NodeFacts DEF Walk, Walking, Allocated
<1>3. ASSUME NEW l \in Local, Continue(g, l) PROVE local' \in [Goroutines -> Local]
  BY <1>1, <1>3 DEF TypeOK, Continue
<1>4. \A label \in Labels : [local[g] EXCEPT !.pc = label] \in Local
  BY <1>1 DEF Local
<1>5. ASSUME NEW label \in Labels, Goto(g, label) PROVE local' \in [Goroutines -> Local]
  BY <1>3, <1>4, <1>5 DEF Goto
<1>6. {"done", "setHead", "addNum", "newIterator", "loadMin", "compare", "advance", "matched",
       "readNext", "relink", "setTail", "subNum", "clean", "scan"} \subseteq Labels
  BY DEF Labels
<1> USE DEF TypeOK
<1>7. CASE Insert(g)
  <2>1. local' \in [Goroutines -> Local]
    <3>1. [local[g] EXCEPT !.pc = "setHead", !.op = "insert"] \in Local
      BY <1>1, <1>6, Zenon DEF Local
    <3> QED BY <1>3, <1>7, <3>1 DEF Insert
  <2>2. MinOf[g] \in Nat
    BY <1>1, MinOfAssumption
  <2>3. rank' \in [Nodes -> Nat]
    BY <1>1, <1>7 DEF Insert
  <2>4. min' \in [Nodes -> Nat]
    BY <1>1, <1>7, <2>2, SMTT(30) DEF Insert
  <2> QED BY <1>1, <1>7, <2>1, <2>3, <2>4 DEF Insert, list
<1>8. CASE SetHead(g)
  BY <1>1, <1>5, <1>6, <1>8 DEF SetHead, history
<1>9. CASE AddNum(g)
  BY <1>1, <1>5, <1>6, <1>9 DEF AddNum, history
<1>10. CASE Call(g)
  <2>1. local' \in [Goroutines -> Local]
    <3>1. PICK op \in {"remove", "swap"}, t \in Targets :
             Continue(g, [local[g] EXCEPT !.pc = IF numPartitions <= 0 THEN "done" ELSE "newIterator",
                                          !.op = op, !.target = t,
                                          !.before = {n \in {t} : min[n] # 0}])
      BY <1>10, Zenon DEF Call
    <3>2. t \in Nodes
      BY NodeFacts DEF Targets, Published
    <3>3. [local[g] EXCEPT !.pc = IF numPartitions <= 0 THEN "done" ELSE "newIterator",
                           !.op = op, !.target = t, !.before = {n \in {t} : min[n] # 0}] \in Local
      BY <1>1, <1>6, <3>2, Zenon DEF Local
    <3> QED BY <1>3, <3>1, <3>3
  <2> QED BY <1>1, <1>10, <2>1, Zenon DEF Call, list, history
<1>11. CASE NewIterator(g)
  <2>1. [local[g] EXCEPT !.pc = IF head = None THEN "done" ELSE "loadMin",
                         !.cur = head] \in Local
    BY <1>1, <1>6, Zenon DEF Local
  <2> QED BY <1>1, <1>3, <1>11, <2>1 DEF NewIterator, list, history
<1>12. CASE LoadMin(g)
  <2>1. min[local[g].cur] \in Nat
    BY <1>1, <1>2, <1>12 DEF LoadMin, pc, Walking
  <2>2. [local[g] EXCEPT !.pc = "compare", !.curMin = min[local[g].cur]] \in Local
    BY <1>1, <1>6, <2>1, Zenon DEF Local
  <2> QED BY <1>1, <1>3, <1>12, <2>2 DEF LoadMin, list, history
<1>13. CASE Compare(g)
  <2>1. local' \in [Goroutines -> Local]
    BY <1>5, <1>6, <1>13 DEF Compare
  <2> QED BY <1>1, <1>13, <2>1, Zenon DEF Compare, list, history
<1>14. CASE Advance(g)
  <2>1. next[local[g].cur] \in Nodes \cup {None}
    BY <1>1, <1>2, <1>14 DEF Advance, pc, Walking
  <2>2. [local[g] EXCEPT !.pc = IF next[local[g].cur] = None THEN "done" ELSE "loadMin",
                         !.prev = local[g].cur, !.cur = next[local[g].cur]] \in Local
    BY <1>1, <1>6, <2>1, Zenon DEF Local
  <2> QED BY <1>1, <1>3, <1>14, <2>2 DEF Advance, list, history
<1>15. CASE NewNode(g)
  <2>1. local[g].cur \in Nodes /\ local[g].target \in Nodes
    BY <1>2, <1>15 DEF NewNode, pc, Walking
  <2> QED BY <1>1, <1>5, <1>6, <1>15, <2>1 DEF NewNode, list
<1>16. CASE ReadNext(g)
  <2>1. next[local[g].cur] \in Nodes \cup {None}
    BY <1>1, <1>2, <1>16 DEF ReadNext, pc, Walking
  <2>2. [local[g] EXCEPT !.pc = "relink", !.nxt = next[local[g].cur]] \in Local
    BY <1>1, <1>6, <2>1, Zenon DEF Local
  <2> QED BY <1>1, <1>3, <1>16, <2>2 DEF ReadNext, list, history
<1>17. CASE RemoveNode(g)
  <2>1. local[g].nxt \in Nodes \cup {None} /\ local[g].prev \in Nodes \cup {None}
    BY <1>1, Zenon DEF Local
  <2>2. local' \in [Goroutines -> Local]
    BY <1>5, <1>6, <1>17, Zenon DEF RemoveNode, Relink
  <2> QED BY <1>1, <1>17, <2>1, <2>2 DEF RemoveNode, Relink, history
<1>18. CASE SwapNode(g)
  <2>1. local[g].cur \in Nodes \cup {None} /\ local[g].prev \in Nodes \cup {None}
    BY <1>1, Zenon DEF Local
  <2>2. local' \in [Goroutines -> Local]
    BY <1>5, <1>6, <1>18 DEF SwapNode, Relink
  <2> QED BY <1>1, <1>18, <2>1, <2>2 DEF SwapNode, Relink, history
<1>19. CASE SetTail(g)
  <2>1. local[g].prev \in Nodes \cup {None}
    BY <1>1, Zenon DEF Local
  <2>2. local' \in [Goroutines -> Local]
    BY <1>5, <1>6, <1>19 DEF SetTail
  <2> QED BY <1>1, <1>19, <2>1, <2>2 DEF SetTail, history
<1>20. CASE SubNum(g)
  BY <1>1, <1>5, <1>6, <1>20 DEF SubNum, history
<1>21. CASE Clean(g)
  BY <1>1, <1>2, <1>5, <1>6, <1>21 DEF Clean, list, history, pc
<1>22. CASE Scan(g)
  <2>1. Linked \in SUBSET Nodes
    BY DEF Linked, Reach
  <2>2. local[g].visited \cup ({head} \ {None}) \in SUBSET Nodes
    <3>1. local[g].visited \in SUBSET Nodes /\ head \in Nodes \cup {None}
      BY <1>1 DEF Local
    <3> QED BY <3>1
  <2>3. [[local[g] EXCEPT !.op = "scan", !.before = Linked] EXCEPT
            !.pc = IF head = None THEN "done" ELSE "scan", !.cur = head,
            !.visited = local[g].visited \cup ({head} \ {None})] \in Local
    BY <1>1, <1>6, <2>1, <2>2, ZenonT(60) DEF Local
  <2>4. [local[g] EXCEPT !.op = "scan", !.before = Linked].visited = local[g].visited
    BY <1>1 DEF Local
  <2> QED BY <1>1, <1>3, <1>22, <2>3, <2>4 DEF Scan, Visit, list, history
<1>23. CASE ScanOn(g)
  <2>1. next[local[g].cur] \in Nodes \cup {None}
    BY <1>1, <1>2, <1>23 DEF ScanOn, pc
  <2>2. local[g].visited \cup ({next[local[g].cur]} \ {None}) \in SUBSET Nodes
    BY <1>1, <2>1 DEF Local
  <2>3. [local[g] EXCEPT !.pc = IF next[local[g].cur] = None THEN "done" ELSE "scan",
                         !.cur = next[local[g].cur],
                         !.visited = local[g].visited \cup ({next[local[g].cur]} \ {None})] \in Local
    BY <1>1, <1>6, <2>1, <2>2, Zenon DEF Local
  <2> QED BY <1>1, <1>3, <1>23, <2>3 DEF ScanOn, Visit, list, history
<1> QED
  BY <1>7, <1>8, <1>9, <1>10, <1>11, <1>12, <1>13, <1>14, <1>15, <1>16, <1>17, <1>18, <1>19, <1>20, <1>21, <1>22, <1>23, Zenon DEF Step

(* Every step of every goroutine keeps the invariant.                       *)
LEMMA InvInductive == Inv /\ [Next]_vars => Inv'
<1> SUFFICES ASSUME Inv, [Next]_vars PROVE Inv'
  OBVIOUS
<1>1. ASSUME NEW g \in Goroutines, Insert(g) \/ Call(g) \/ Scan(g) \/ Step(g) PROVE Inv'
  <2>1. Steady(g) /\ Walk(g)'
    BY <1>1, OwnStep
  <2>2. \A h \in Goroutines : Walk(h)'
    BY <2>1, OthersWalk
  <2>3. Links' /\ TypeOK'
    BY <1>1, <2>1, OwnLinks, OwnTypes
  <2> QED BY <2>2, <2>3 DEF Inv
<1>2. ASSUME UNCHANGED <<list, next, local, cleaned, history>>, min' \in [Nodes -> Nat]
      PROVE  Inv'
  <2>1. TypeOK' /\ Allocated' = Allocated /\ Links'
    BY <1>2, ZenonT(60) DEF Inv, TypeOK, Links, Allocated, list, history
  <2>2. ASSUME NEW g \in Goroutines PROVE Walk(g)'
    <3>1. Walk(g)
      BY DEF Inv
    <3> QED BY <1>2, <2>1, <3>1 DEF Walk, history
  <2> QED BY <2>1, <2>2, Zenon DEF Inv
<1>3. ASSUME NEW n \in Nodes, SetMin(n) PROVE Inv'
  <2>1. min' \in [Nodes -> Nat]
    BY <1>3, MinOfAssumption, Zenon DEF SetMin, Inv, TypeOK
  <2> QED BY <1>2, <1>3, <2>1 DEF SetMin
<1>4. CASE UNCHANGED vars
  BY <1>2, <1>4 DEF vars, Inv, TypeOK
<1> QED BY <1>1, <1>3, <1>4 DEF Next, Finished

(* newPartitionList with the opened partitions, and no call.                *)
LEMMA InvInit == Init => Inv
<1> SUFFICES ASSUME Init PROVE Inv
  OBVIOUS
<1>1. /\ None \notin Nodes /\ Opened \subseteq Nodes /\ Goroutines \cap Opened = {}
      /\ NumOpened \in Nat
  BY NodeFacts, NumOpenedAssumption
<1>2. \A n \in Opened : n \in Nat /\ (n # 1 => n - 1 \in Opened)
  BY <1>1 DEF Opened
<1>3. NumOpened # 0 => NumOpened \in Opened
  BY <1>1 DEF Opened
<1>4. NewLocal \in Local
  <2>1. "idle" \in Labels
    BY DEF Labels
  <2> QED BY <2>1 DEF NewLocal, Local
<1>5. MinOf \in [Nodes -> Nat]
  BY MinOfAssumption
<1>6. TypeOK
  BY <1>1, <1>2, <1>3, <1>4, <1>5 DEF Init, TypeOK
<1>7. \A g \in Goroutines : Walk(g)
  BY ZenonT(60) DEF Init, NewLocal, Walk, Walking
<1>8. Opened \subseteq Allocated
  BY DEF Allocated
<1>9. Links
  BY <1>1, <1>2, <1>3, <1>8 DEF Init, Links
<1> QED BY <1>6, <1>7, <1>9 DEF Inv

(* So it holds in every state.                                              *)
LEMMA InvAlways == Spec => []Inv
BY InvInit, InvInductive, PTL DEF Spec

(* Every reachable state of the list is well typed. *)
THEOREM TypeCorrect == Spec => []TypeOK
<1>1. Inv => TypeOK
  BY Zenon DEF Inv
<1> QED BY <1>1, InvAlways, PTL

(* However inserts, removes and swaps overlap, a link leads to an older     *)
(* generation: the list never has a cycle.                                  *)
THEOREM AlwaysDescending == Spec => []Descending
<1>1. Inv => Descending
  BY DEF Inv, Links, Descending
<1> QED BY <1>1, InvAlways, PTL

(* No scan meets both a partition and the one that has replaced it. *)
THEOREM NeverTwins == Spec => []NoTwins
<1>1. ASSUME Inv PROVE NoTwins
  <2>1. SUFFICES ASSUME NEW g \in Goroutines, NEW n \in local[g].visited,
                        replaced[n] \in local[g].visited
                 PROVE  FALSE
    BY Zenon DEF NoTwins
  <2>2. /\ local[g].visited \subseteq Nodes /\ None \notin Nodes
        /\ \A u, v \in local[g].visited : rank[u] = rank[v] => u = v
    BY <1>1, NodeFacts, Zenon DEF Inv, TypeOK, Local, Walk
  <2>3. replaced[n] # n /\ rank[replaced[n]] = rank[n]
    BY <1>1, <2>1, <2>2 DEF Inv, Links
  <2> QED BY <2>1, <2>2, <2>3
<1> QED BY <1>1, InvAlways, PTL
-----------------------------------------------------------------------------
(* Where links lead *)

(* From n one gets to n, and to nodes only. *)
LEMMA ReachStep ==
    ASSUME NEW L, NEW n \in Nodes
    PROVE  n \in Reach(n, L) /\ Reach(n, L) \subseteq Nodes
BY DEF Reach

(* No link leads out of the nodes one gets to. *)
LEMMA ReachClosed ==
    ASSUME NEW L \in [Nodes -> Nodes \cup {None}], NEW n \in Nodes
    PROVE  Closed(Reach(n, L), L)
<1>1. SUFFICES ASSUME NEW m \in Reach(n, L), L[m] # None PROVE L[m] \in Reach(n, L)
  BY DEF Closed
<1>2. m \in Nodes /\ L[m] \in Nodes
  BY <1>1 DEF Reach
<1>3. ASSUME NEW S \in SUBSET Nodes, n \in S, Closed(S, L) PROVE L[m] \in S
  <2>1. m \in S
    BY <1>3 DEF Reach
  <2> QED BY <1>1, <1>3, <2>1 DEF Closed
<1> QED BY <1>2, <1>3 DEF Reach

(* ... and nowhere else. *)
LEMMA ReachLeast ==
    ASSUME NEW L, NEW n, NEW S \in SUBSET Nodes, n \in S, Closed(S, L)
    PROVE  Reach(n, L) \subseteq S
BY DEF Reach

(* The list that begins at n is n and the list that begins behind it. *)
LEMMA ReachNext ==
    ASSUME NEW L \in [Nodes -> Nodes \cup {None}], NEW n \in Nodes
    PROVE  Reach(n, L) = {n} \cup (IF L[n] = None THEN {} ELSE Reach(L[n], L))
<1> DEFINE T == {n} \cup (IF L[n] = None THEN {} ELSE Reach(L[n], L))
<1>1. L[n] # None => L[n] \in Nodes /\ Closed(Reach(L[n], L), L) /\ L[n] \in Reach(L[n], L)
                     /\ Reach(L[n], L) \subseteq Nodes
  BY ReachStep, ReachClosed
<1>2. T \in SUBSET Nodes /\ n \in T /\ Closed(T, L)
  <2>1. T \in SUBSET Nodes /\ n \in T
    BY <1>1
  <2>2. ASSUME NEW m \in T, L[m] # None PROVE L[m] \in T
    BY <1>1, <2>2 DEF Closed
  <2> QED BY <2>1, <2>2 DEF Closed
<1>3. Reach(n, L) \subseteq T
  <2> HIDE DEF T
  <2> QED BY <1>2, ReachLeast
<1>4. n \in Reach(n, L) /\ Closed(Reach(n, L), L) /\ Reach(n, L) \in SUBSET Nodes
  BY ReachStep, ReachClosed
<1>5. L[n] # None => Reach(L[n], L) \subseteq Reach(n, L)
  <2>1. SUFFICES ASSUME L[n] # None PROVE Reach(L[n], L) \subseteq Reach(n, L)
    OBVIOUS
  <2>2. L[n] \in Reach(n, L)
    BY <1>4, <2>1 DEF Closed
  <2> QED BY <1>4, <2>2, ReachLeast
<1> QED BY <1>3, <1>4, <1>5

(* Links that agree where one gets lead to the same nodes. *)
LEMMA ReachSame ==
    ASSUME NEW L \in [Nodes -> Nodes \cup {None}], NEW M \in [Nodes -> Nodes \cup {None}],
           NEW S \in SUBSET Nodes, Closed(S, L), \A m \in S : M[m] = L[m], NEW n \in S
    PROVE  Reach(n, M) = Reach(n, L)
<1>1. Reach(n, L) \subseteq S /\ n \in Reach(n, L) /\ Closed(Reach(n, L), L) /\ Reach(n, L) \in SUBSET Nodes
  BY ReachLeast, ReachStep, ReachClosed
<1>2. Closed(S, M)
  BY DEF Closed
<1>3. Reach(n, M) \subseteq S /\ n \in Reach(n, M) /\ Closed(Reach(n, M), M) /\ Reach(n, M) \in SUBSET Nodes
  BY <1>2, ReachLeast, ReachStep, ReachClosed, Zenon
<1>4. Closed(Reach(n, L), M)
  BY <1>1 DEF Closed
<1>5. Closed(Reach(n, M), L)
  BY <1>3 DEF Closed
<1>6. Reach(n, M) \subseteq Reach(n, L)
  BY <1>1, <1>4, ReachLeast
<1>7. Reach(n, L) \subseteq Reach(n, M)
  BY <1>3, <1>5, ReachLeast
<1> QED BY <1>6, <1>7

(* Whoever one gets to is older. *)
LEMMA ReachOlder ==
    ASSUME NEW L, NEW r, Downhill(L, r), NEW n \in Nodes, NEW m \in Reach(n, L)
    PROVE  m = n \/ r[m] < r[n]
<1> DEFINE S == {x \in Nodes : x = n \/ r[x] < r[n]}
<1>1. S \in SUBSET Nodes /\ n \in S
  OBVIOUS
<1>2. ASSUME NEW x \in S, L[x] # None PROVE L[x] \in S
  <2>1. x \in Nodes /\ L[x] \in Nodes /\ r[L[x]] < r[x] /\ r[x] \in Nat /\ r[L[x]] \in Nat /\ r[n] \in Nat
    BY <1>2 DEF Downhill
  <2> QED BY <1>2, <2>1
<1>3. Reach(n, L) \subseteq S
  <2> HIDE DEF S
  <2> QED BY <1>1, <1>2, ReachLeast DEF Closed
<1> QED BY <1>3

(* Of two nodes of a list one leads to the other. *)
LEMMA ReachOrder ==
    ASSUME NEW L, NEW r, Downhill(L, r), NEW h \in Nodes, NEW x \in Reach(h, L), NEW y \in Reach(h, L)
    PROVE  y \in Reach(x, L) \/ x \in Reach(y, L)
<1> DEFINE R == Reach(h, L)
           A == {z \in R : y \in Reach(z, L) \/ z \in Reach(y, L)}
<1>0. L \in [Nodes -> Nodes \cup {None}]
  BY DEF Downhill
<1>1. h \in R /\ R \subseteq Nodes /\ Closed(R, L)
  BY <1>0, ReachStep, ReachClosed
<1>2. A \in SUBSET Nodes /\ h \in A
  BY <1>1, Zenon
<1>3. ASSUME NEW z \in A, L[z] # None PROVE L[z] \in A
  <2>1. z \in R /\ z \in Nodes /\ y \in Nodes /\ L[z] \in R
    BY <1>1, <1>3, Zenon DEF Closed
  <2>2. CASE y \in Reach(z, L)
    <3>1. y = z \/ y \in Reach(L[z], L)
      BY <1>0, <1>3, <2>1, <2>2, ReachNext, Zenon
    <3>2. CASE y = z
      <4>1. Closed(Reach(y, L), L) /\ y \in Reach(y, L)
        BY <1>0, <2>1, ReachStep, ReachClosed
      <4>2. L[z] \in Reach(y, L)
        BY <1>3, <3>2, <4>1 DEF Closed
      <4> QED BY <2>1, <4>2
    <3> QED BY <2>1, <3>1, <3>2
  <2>3. CASE z \in Reach(y, L)
    <3>1. Closed(Reach(y, L), L)
      BY <1>0, <2>1, ReachClosed
    <3>2. L[z] \in Reach(y, L)
      BY <1>3, <2>3, <3>1 DEF Closed
    <3> QED BY <2>1, <3>2
  <2> QED BY <1>3, <2>2, <2>3, Zenon
<1>4. R \subseteq A
  <2>1. Closed(A, L)
    BY <1>3 DEF Closed
  <2> HIDE DEF A
  <2> QED BY <1>2, <2>1, ReachLeast, Zenon
<1> QED BY <1>4

(* So a list has one node of each generation ... *)
LEMMA OneOfEach ==
    ASSUME NEW L, NEW r, Downhill(L, r), NEW h \in Nodes, NEW x \in Reach(h, L), NEW y \in Reach(h, L),
           r[x] = r[y]
    PROVE  x = y
<1>1. x \in Nodes /\ y \in Nodes
  BY ReachStep
<1>2. r[x] \in Nat /\ r[y] \in Nat
  BY <1>1 DEF Downhill
<1>3. y \in Reach(x, L) \/ x \in Reach(y, L)
  BY ReachOrder
<1>4. y \in Reach(x, L) => y = x \/ r[y] < r[x]
  BY <1>1, ReachOlder
<1>5. x \in Reach(y, L) => x = y \/ r[x] < r[y]
  BY <1>1, ReachOlder
<1> QED BY <1>2, <1>3, <1>4, <1>5

(* ... and only one link to a node. *)
LEMMA OneLink ==
    ASSUME NEW L, NEW r, Downhill(L, r), NEW h \in Nodes, NEW x \in Reach(h, L), NEW y \in Reach(h, L),
           L[x] = L[y], L[x] # None
    PROVE  x = y
<1>0. L \in [Nodes -> Nodes \cup {None}]
  BY DEF Downhill
<1>1. x \in Nodes /\ y \in Nodes
  BY ReachStep
<1>2. L[x] \in Nodes /\ r[x] \in Nat /\ r[y] \in Nat /\ r[L[x]] \in Nat /\ r[L[x]] < r[x] /\ r[L[x]] < r[y]
  BY <1>1, Zenon DEF Downhill
<1>3. ASSUME y \in Reach(x, L) PROVE x = y
  <2>1. y = x \/ y \in Reach(L[x], L)
    BY <1>0, <1>1, <1>3, ReachNext, Zenon
  <2>2. y \in Reach(L[x], L) => y = L[x] \/ r[y] < r[L[x]]
    BY <1>2, ReachOlder, Zenon
  <2> QED BY <1>2, <2>1, <2>2
<1>4. ASSUME x \in Reach(y, L) PROVE x = y
  <2>1. x = y \/ x \in Reach(L[y], L)
    BY <1>0, <1>1, <1>4, ReachNext, Zenon
  <2>2. x \in Reach(L[x], L) => x = L[x] \/ r[x] < r[L[x]]
    BY <1>2, ReachOlder
  <2> QED BY <1>2, <2>1, <2>2
<1> QED BY <1>3, <1>4, ReachOrder

(* A list without its first node *)
LEMMA WithoutFirst ==
    ASSUME NEW L, NEW r, Downhill(L, r), NEW h \in Nodes
    PROVE  Reach(h, L) \ {h} = IF L[h] = None THEN {} ELSE Reach(L[h], L)
<1>0. L \in [Nodes -> Nodes \cup {None}]
  BY DEF Downhill
<1>1. Reach(h, L) = {h} \cup (IF L[h] = None THEN {} ELSE Reach(L[h], L))
  BY <1>0, ReachNext
<1>2. ASSUME L[h] # None PROVE h \notin Reach(L[h], L)
  <2>1. L[h] \in Nodes /\ r[L[h]] < r[h] /\ r[h] \in Nat /\ r[L[h]] \in Nat
    BY <1>2 DEF Downhill
  <2>2. h \in Reach(L[h], L) => h = L[h] \/ r[h] < r[L[h]]
    BY <2>1, ReachOlder
  <2> QED BY <2>1, <2>2
<1> QED BY <1>1, <1>2

(* The relinking of remove and swap: the link to cur now leads to n, which  *)
(* is what follows cur or leads there itself.                               *)
Relinked(L, M, prev, cur, n) ==
    /\ L \in [Nodes -> Nodes \cup {None}] /\ prev \in Nodes /\ cur \in Nodes /\ L[prev] = cur
    /\ n \in Nodes \cup {None} /\ M = [L EXCEPT ![prev] = n]
    /\ n = L[cur] \/ (n \in Nodes /\ n # prev /\ L[n] = L[cur])

(* Whoever gets somewhere still gets there, or to cur or what is put for it. *)
LEMMA Bypass ==
    ASSUME NEW L, NEW M, NEW prev, NEW cur, NEW n, Relinked(L, M, prev, cur, n), NEW c \in Nodes
    PROVE  /\ Reach(c, L) \subseteq Reach(c, M) \cup {cur}
           /\ cur \in Reach(c, L) /\ n # None => cur \in Reach(c, M) \/ n \in Reach(c, M)
<1> DEFINE Q == Reach(c, M)
           S == Q \cup (IF prev \in Q THEN {cur} ELSE {})
<1>1. /\ L \in [Nodes -> Nodes \cup {None}] /\ prev \in Nodes /\ cur \in Nodes /\ L[prev] = cur
      /\ n \in Nodes \cup {None} /\ M \in [Nodes -> Nodes \cup {None}] /\ None \notin Nodes
      /\ M[prev] = n /\ \A x \in Nodes : x # prev => M[x] = L[x]
      /\ n = L[cur] \/ (n \in Nodes /\ n # prev /\ L[n] = L[cur])
  BY NodeFacts DEF Relinked
<1>2. c \in Q /\ Q \subseteq Nodes /\ Closed(Q, M)
  BY <1>1, ReachStep, ReachClosed
<1> HIDE DEF Q
<1>3. S \in SUBSET Nodes /\ c \in S
  BY <1>1, <1>2, Zenon
<1>4. ASSUME NEW x \in S, L[x] # None PROVE L[x] \in S
  <2>1. CASE x \in Q /\ x # prev
    <3>1. M[x] = L[x]
      BY <1>1, <1>2, <2>1
    <3>2. M[x] \in Q
      BY <1>2, <1>4, <2>1, <3>1 DEF Closed
    <3> QED BY <3>1, <3>2
  <2>2. CASE x \in Q /\ x = prev
    BY <1>1, <2>2
  <2>3. CASE x = cur /\ prev \in Q
    <3>1. n # None => n \in Q
      BY <1>1, <1>2, <2>3 DEF Closed
    <3>2. CASE n = L[cur]
      BY <1>4, <2>3, <3>1, <3>2
    <3>3. CASE n \in Nodes /\ n # prev /\ L[n] = L[cur]
      <4>1. n \in Q /\ M[n] = L[cur]
        BY <1>1, <3>1, <3>3
      <4>2. L[cur] \in Q
        BY <1>2, <1>4, <2>3, <4>1 DEF Closed
      <4> QED BY <2>3, <4>2
    <3> QED BY <1>1, <3>2, <3>3
  <2> QED BY <1>4, <2>1, <2>2, <2>3
<1>5. Reach(c, L) \subseteq S
  <2>1. Closed(S, L)
    BY <1>4 DEF Closed
  <2> HIDE DEF S
  <2> QED BY <1>3, <2>1, ReachLeast
<1>6. prev \in Q /\ n # None => n \in Q
  BY <1>1, <1>2, Zenon DEF Closed
<1> QED BY <1>5, <1>6 DEF Q

(* What the list that begins at h is after it. *)
LEMMA RelinkedList ==
    ASSUME NEW L, NEW r, Downhill(L, r), NEW M, NEW prev, NEW cur, NEW n, Relinked(L, M, prev, cur, n),
           NEW h \in Nodes, prev \in Reach(h, L), n \in Reach(h, L) => n = L[cur]
    PROVE  Reach(h, M) = (Reach(h, L) \ {cur}) \cup ({n} \ {None})
<1> DEFINE R == Reach(h, L)
           T == (R \ {cur}) \cup ({n} \ {None})
<1>1. /\ L \in [Nodes -> Nodes \cup {None}] /\ prev \in Nodes /\ cur \in Nodes /\ L[prev] = cur
      /\ n \in Nodes \cup {None} /\ M \in [Nodes -> Nodes \cup {None}] /\ None \notin Nodes
      /\ M[prev] = n /\ \A x \in Nodes : x # prev => M[x] = L[x]
      /\ n = L[cur] \/ (n \in Nodes /\ n # prev /\ L[n] = L[cur])
  BY NodeFacts, Zenon DEF Relinked
<1>2. /\ h \in R /\ R \subseteq Nodes /\ Closed(R, L) /\ prev \in R /\ cur \in R
      /\ L[cur] # None => L[cur] \in R /\ L[cur] # cur
      /\ h # cur /\ prev # cur
  <2>1. h \in R /\ R \subseteq Nodes /\ Closed(R, L) /\ prev \in R
    BY <1>1, ReachStep, ReachClosed, Zenon
  <2>2. cur \in R
    BY <1>1, <2>1 DEF Closed
  <2>3. r[cur] < r[prev] /\ r[cur] \in Nat /\ r[prev] \in Nat /\ r[h] \in Nat
    BY <1>1, Zenon DEF Downhill
  <2>4. prev = h \/ r[prev] < r[h]
    BY ReachOlder, Zenon
  <2>5. L[cur] # None => L[cur] \in R /\ r[L[cur]] < r[cur] /\ r[L[cur]] \in Nat
    BY <1>1, <2>1, <2>2 DEF Closed, Downhill
  <2> QED BY <2>1, <2>2, <2>3, <2>4, <2>5
<1>3. \A x \in R : x # prev => L[x] # cur
  BY <1>1, OneLink, Zenon
<1> HIDE DEF R
<1>4. n # None => n # cur
  BY <1>1, <1>2, Zenon DEF R
<1>5. T \in SUBSET Nodes /\ h \in T
  BY <1>1, <1>2, Zenon
<1>6. ASSUME NEW x \in T, M[x] # None PROVE M[x] \in T
  <2>1. CASE x \in R /\ x # cur /\ x # prev
    <3>1. M[x] = L[x] /\ L[x] # cur
      BY <1>1, <1>2, <1>3, <2>1
    <3> QED BY <1>2, <1>6, <2>1, <3>1, Zenon DEF Closed
  <2>2. CASE x = prev
    BY <1>1, <1>6, <2>2, Zenon
  <2>3. CASE x = n /\ n # None /\ n \notin R
    <3>1. n \in Nodes /\ n # prev /\ L[n] = L[cur]
      BY <1>1, <1>2, <2>3
    <3>2. M[n] = L[cur]
      BY <1>1, <3>1
    <3> QED BY <1>2, <1>6, <2>3, <3>2, Zenon
  <2> QED BY <1>4, <1>6, <2>1, <2>2, <2>3, Zenon
<1>7. Reach(h, M) \subseteq T
  <2>1. Closed(T, M)
    BY <1>6, Zenon DEF Closed
  <2> HIDE DEF T
  <2> QED BY <1>5, <2>1, ReachLeast, Zenon
<1>8. R \subseteq Reach(h, M) \cup {cur}
  BY Bypass, Zenon DEF R
<1>9. n # None => n \in Reach(h, M)
  <2>1. prev \in Reach(h, M) /\ Closed(Reach(h, M), M)
    BY <1>1, <1>2, <1>8, ReachClosed, Zenon
  <2> QED BY <1>1, <2>1, Zenon DEF Closed
<1>10. cur \notin T
  BY <1>1, <1>2, <1>4, Zenon
<1> QED BY <1>7, <1>8, <1>9, <1>10, Zenon DEF R
-----------------------------------------------------------------------------
(* Callers that take turns *)

(* What a scan has read or will read if the links stay as they are *)
Reads(g) == local[g].visited \cup (IF pc(g) = "scan" THEN Reach(local[g].cur, next) ELSE {})

(* Of every partition of the list that was there when the scan began,       *)
(* itself or as one it stands for, the scan reads one.                      *)
Covers(g) ==
    \A n \in Linked : Lineage(n) \cap local[g].before # {} => Lineage(n) \cap Reads(g) # {}

(* With one mutator at a time what a call has read of the list stays true.  *)
Turn(g) ==
    LET l == local[g]
    IN  /\ l.pc = "setHead" => next[g] = head
        /\ l.pc \in Walking =>
              /\ l.cur \in Linked
              /\ l.prev = None => head = l.cur
              /\ l.prev # None => l.prev \in Linked /\ next[l.prev] = l.cur
        /\ l.pc \in {"readNext", "relink"} /\ l.op = "swap" => next[g] = next[l.cur]
        /\ l.pc = "relink" => l.nxt = next[l.cur]
        /\ l.pc \in {"setTail", "subNum", "clean"} /\ l.op = "remove" => l.cur \in Published \ Linked
        /\ l.visited \cup l.before \subseteq Published
        /\ l.pc = "scan" => l.cur \in l.visited
        /\ l.op = "scan" => Covers(g)

Turns ==
    /\ \A g, h \in Mutating : g = h
    /\ Linked \subseteq Published /\ Closed(Published, next)
    /\ cleaned \subseteq Published \ Linked
    /\ \A n \in Nodes : replaced[n] # None => n \in Published /\ replaced[n] \in Published
    /\ \A g \in Goroutines : Turn(g)

(* A node that a call has not put into the list yet *)
Unseen(g) == g \in Goroutines /\ pc(g) \notin {"addNum", "setTail", "done"}

(* The links lead downhill, and from an allocated node to allocated ones. *)
LEMMA InvFacts ==
    ASSUME Inv
    PROVE  /\ Downhill(next, rank) /\ Allocated \subseteq Nodes
           /\ next \in [Nodes -> Nodes \cup {None}] /\ replaced \in [Nodes -> Nodes \cup {None}]
           /\ rank \in [Nodes -> Nat] /\ head \in Nodes \cup {None} /\ None \notin Nodes
           /\ Closed(Allocated, next) /\ Closed(Allocated, replaced)
<1>1. Allocated \subseteq Nodes /\ None \notin Nodes
  BY NodeFacts DEF Allocated
<1>2. TypeOK /\ Links
  BY DEF Inv
<1> QED BY <1>1, <1>2 DEF TypeOK, Links, Downhill, Closed

(* The nodes of the list *)
LEMMA LinkedFacts ==
    ASSUME Inv
    PROVE  /\ Linked \subseteq Allocated /\ Linked \subseteq Nodes /\ Closed(Linked, next)
           /\ head = None => Linked = {}
           /\ head # None => head \in Nodes /\ head \in Linked /\ Linked = Reach(head, next)
<1>1. CASE head = None
  BY <1>1 DEF Linked, Closed
<1>2. CASE head # None
  <2>1. head \in Allocated /\ Allocated \in SUBSET Nodes /\ Closed(Allocated, next)
    BY <1>2, InvFacts DEF Inv, Links
  <2>2. Linked = Reach(head, next) /\ head \in Nodes
    BY <1>2, <2>1 DEF Linked
  <2>3. Reach(head, next) \subseteq Allocated
    BY <2>1, ReachLeast, Zenon
  <2>4. head \in Reach(head, next) /\ Closed(Reach(head, next), next)
    BY <2>2, InvFacts, ReachStep, ReachClosed
  <2> QED BY <1>2, <2>1, <2>2, <2>3, <2>4, Zenon
<1> QED BY <1>1, <1>2, Zenon

(* One node of each generation is in the list. *)
LEMMA LinkedRanks ==
    ASSUME Inv, NEW x \in Linked, NEW y \in Linked, rank[x] = rank[y]
    PROVE  x = y
<1>1. head # None /\ head \in Nodes /\ Linked = Reach(head, next)
  BY LinkedFacts
<1>2. Downhill(next, rank)
  BY InvFacts
<1> QED BY <1>1, <1>2, OneOfEach

(* The chain of the list has each of its nodes once, and is the sequence    *)
(* that Chain chooses.                                                      *)
LEMMA ChainFacts ==
    ASSUME Inv, NEW s, IsChain(s, head, next)
    PROVE  /\ s = Chain /\ s \in Seq(Linked) /\ Linked = {s[i] : i \in DOMAIN s}
           /\ \A i, j \in DOMAIN s : s[i] = s[j] => i = j
<1>1. /\ s \in Seq(Nodes) /\ Len(s) \in Nat /\ \A i \in 1..Len(s) : s[i] \in Nodes
      /\ \A i \in 1..Len(s) : next[s[i]] = IF i = Len(s) THEN None ELSE s[i + 1]
      /\ head = None => Len(s) = 0
      /\ head # None => Len(s) # 0 /\ s[1] = head
  BY DEF IsChain
<1>2. /\ Downhill(next, rank) /\ None \notin Nodes /\ rank \in [Nodes -> Nat]
  BY InvFacts, Zenon
<1> DEFINE R == {s[i] : i \in DOMAIN s}
<1>3. Linked \subseteq R
  <2>1. CASE head = None
    BY <2>1, LinkedFacts, Zenon
  <2>2. CASE head # None
    <3>1. R \in SUBSET Nodes /\ head \in R
      BY <1>1, <2>2
    <3>2. ASSUME NEW i \in 1..Len(s), next[s[i]] # None PROVE next[s[i]] \in R
      <4>1. i + 1 \in DOMAIN s /\ next[s[i]] = s[i + 1]
        BY <1>1, <3>2
      <4> QED BY <4>1, Zenon
    <3>3. Closed(R, next)
      BY <1>1, <3>2 DEF Closed
    <3>4. Linked = Reach(head, next)
      BY <2>2, LinkedFacts, Zenon
    <3> HIDE DEF R
    <3> QED BY <3>1, <3>3, <3>4, ReachLeast, Zenon
  <2> QED BY <2>1, <2>2, Zenon
<1>4. \A i \in 1..Len(s) : s[i] \in Linked
  <2> DEFINE T == {i \in 1..Len(s) : s[i] \notin Linked}
  <2>1. SUFFICES ASSUME T # {} PROVE FALSE
    OBVIOUS
  <2>2. PICK i \in T : \A k \in T : i <= k
    <3>1. T \in SUBSET Nat
      BY <1>1, SMTT(30)
    <3> HIDE DEF T
    <3> QED BY <2>1, <3>1, NatMin, Zenon
  <2>3. i # 1
    BY <1>1, <2>2, LinkedFacts, SMTT(30)
  <2>4. i - 1 \in 1..Len(s) /\ i - 1 \notin T /\ next[s[i - 1]] = s[i] /\ s[i] # None
    <3>1. i - 1 \in 1..Len(s) /\ i - 1 \notin T
      BY <1>1, <2>2, <2>3
    <3>2. i - 1 # Len(s) /\ i - 1 + 1 = i /\ s[i] \in Nodes
      BY <1>1, <2>2, SMTT(30)
    <3> QED BY <1>1, <1>2, <3>1, <3>2, Zenon
  <2>5. s[i - 1] \in Linked /\ Closed(Linked, next)
    BY <2>4, LinkedFacts, Zenon
  <2> QED BY <2>2, <2>4, <2>5, Zenon DEF Closed
<1>5. \A i, j \in 1..Len(s) : s[i] = s[j] => i = j
  <2>1. \A i, j \in 1..Len(s) : i < j => rank[s[j]] < rank[s[i]]
    BY <1>2, ChainDown, Zenon
  <2> QED BY <1>1, <1>2, <2>1
<1>6. s \in [1..Len(s) -> Linked] /\ Linked = R
  BY <1>1, <1>3, <1>4
<1>7. Len(s) \in 0..Longest
  <2>1. CASE head = None
    BY <1>1, <2>1 DEF Longest
  <2>2. CASE head # None
    <3> DEFINE S == {n \in Nodes : \E i \in 1..Len(s) : s[i] = n /\ rank[n] + i <= rank[head] + 1}
    <3>1. head \in S
      BY <1>1, <1>2, <2>2, SMTT(30)
    <3>2. ASSUME NEW n \in S, next[n] # None PROVE next[n] \in S
      <4>1. PICK i \in 1..Len(s) : s[i] = n /\ rank[n] + i <= rank[head] + 1
        BY Zenon
      <4>2. i + 1 \in 1..Len(s) /\ s[i + 1] = next[n] /\ next[n] \in Nodes
        BY <1>1, <3>2, <4>1, SMTT(30)
      <4>3. rank[next[n]] < rank[n] /\ rank[next[n]] \in Nat /\ rank[n] \in Nat /\ rank[head] \in Nat
        BY <1>2, <2>2, <3>2, <4>2, LinkedFacts, Zenon DEF Downhill
      <4>4. rank[next[n]] + (i + 1) <= rank[head] + 1
        <5>1. \A a, b, c, d \in Nat : a < b /\ b + d <= c + 1 => a + (d + 1) <= c + 1
          BY SMT
        <5>2. i \in Nat
          BY <1>1
        <5> QED BY <4>1, <4>3, <5>1, <5>2, Zenon
      <4> QED BY <4>2, <4>4, Zenon
    <3>3. Closed(S, next) /\ S \in SUBSET Nodes
      BY <3>2, Zenon DEF Closed
    <3>4. Linked = Reach(head, next)
      BY <2>2, LinkedFacts
    <3>5. Len(s) \in 1..Len(s) /\ s[Len(s)] \in Linked
      BY <1>1, <1>4, <2>2
    <3>6. s[Len(s)] \in S
      <4> HIDE DEF S
      <4> QED BY <3>1, <3>3, <3>4, <3>5, ReachLeast, Zenon
    <3>7. rank[s[Len(s)]] + Len(s) <= rank[head] + 1
      BY <1>5, <3>5, <3>6, Zenon
    <3>8. rank[s[Len(s)]] \in Nat /\ rank[head] \in Nat
      BY <1>1, <1>2, <2>2, <3>5
    <3> QED BY <1>1, <2>2, <3>7, <3>8, SMTT(30) DEF Longest
  <2> QED BY <2>1, <2>2, Zenon
<1>8. IsChain(Chain, head, next)
  <2>1. s \in UNION {[1..n -> Linked] : n \in 0..Longest}
    BY <1>6, <1>7, Zenon
  <2> QED BY <2>1, Zenon DEF Chain
<1>9. s = Chain
  BY <1>2, <1>8, ChainUnique, Zenon
<1> QED BY <1>1, <1>5, <1>6, <1>9

(* Chain is the chain of the list, and there is no other. *)
Chained == IsChain(Chain, head, next)
Unrivalled == \A s : IsChain(s, head, next) => s = Chain

(* The links of the list never allow for two. *)
LEMMA InvUnrivalled == Inv => Unrivalled
BY ChainFacts, Zenon DEF Unrivalled

(* NewStorage leaves the opened partitions, the newest first. *)
LEMMA ChainInit == Init => Abstract!Init /\ Chained
<1>1. SUFFICES ASSUME Init PROVE Abstract!Init /\ Chained
  OBVIOUS
<1> DEFINE s == [i \in 1..NumOpened |-> NumOpened + 1 - i]
<1>2. NumOpened \in Nat /\ Opened = 1..NumOpened /\ Opened \subseteq Nodes /\ None \notin Nodes
  BY NumOpenedAssumption, NodeFacts, Zenon DEF Opened
<1>3. /\ s \in Seq(Nodes) /\ Len(s) = NumOpened
      /\ \A i \in 1..NumOpened : s[i] = NumOpened + 1 - i /\ s[i] \in Opened
  BY <1>2
<1>4. /\ head = IF NumOpened = 0 THEN None ELSE NumOpened
      /\ \A n \in Nodes : next[n] = IF n \in Opened /\ n # 1 THEN n - 1 ELSE None
  BY <1>1, Zenon DEF Init
<1> HIDE DEF s
<1>5. ASSUME NEW i \in 1..NumOpened PROVE next[s[i]] = IF i = NumOpened THEN None ELSE s[i + 1]
  <2>1. next[s[i]] = IF s[i] # 1 THEN s[i] - 1 ELSE None
    BY <1>2, <1>3, <1>4, Zenon
  <2> QED BY <1>2, <1>3, <2>1
<1>6. IF head = None THEN s = <<>> ELSE s # <<>> /\ s[1] = head
  <2>1. CASE NumOpened = 0
    BY <1>3, <1>4, <2>1
  <2>2. CASE NumOpened # 0
    <3>1. NumOpened \in Nodes /\ 1 \in 1..NumOpened /\ NumOpened + 1 - 1 = NumOpened
      BY <1>2, <2>2
    <3>2. head = NumOpened /\ head # None /\ s[1] = head /\ Len(s) # 0
      BY <1>2, <1>3, <1>4, <2>2, <3>1, Zenon
    <3>3. s # <<>>
      BY <3>2
    <3> QED BY <3>2, <3>3, Zenon
  <2> QED BY <2>1, <2>2
<1>7. IsChain(s, head, next)
  BY <1>3, <1>5, <1>6, SMTT(30) DEF IsChain
<1>8. s = Chain
  BY <1>1, <1>7, InvInit, ChainFacts, Zenon
<1> QED BY <1>7, <1>8, Zenon DEF s, Chained, Abstract!Init

(* A node is of the generation of those it stands for. *)
LEMMA LineageRank ==
    ASSUME Inv, NEW n \in Allocated
    PROVE  /\ n \in Lineage(n) /\ Lineage(n) \subseteq Allocated
           /\ \A m \in Lineage(n) : rank[m] = rank[n]
<1> DEFINE S == {m \in Allocated : rank[m] = rank[n]}
<1>1. /\ Allocated \subseteq Nodes /\ Closed(Allocated, replaced)
      /\ replaced \in [Nodes -> Nodes \cup {None}]
  BY InvFacts
<1>2. ASSUME NEW m \in S, replaced[m] # None PROVE replaced[m] \in S
  <2>1. replaced[m] \in Allocated /\ rank[replaced[m]] = rank[m]
    BY <1>1, <1>2 DEF Inv, Links
  <2> QED BY <2>1, Zenon
<1>3. S \in SUBSET Nodes /\ n \in S /\ Closed(S, replaced)
  BY <1>1, <1>2 DEF Closed
<1>4. Reach(n, replaced) \subseteq S
  <2> HIDE DEF S
  <2> QED BY <1>3, ReachLeast
<1>5. n \in Reach(n, replaced)
  BY <1>1, ReachStep, Zenon
<1> QED BY <1>4, <1>5 DEF Lineage

(* Such a node is in no list, scan or lineage but its own. *)
LEMMA UnseenFacts ==
    ASSUME Inv, Turns, NEW g, Unseen(g)
    PROVE  /\ g \in Nodes /\ g \notin Published /\ g \notin Linked /\ replaced[g] = None
           /\ Lineage(g) = {g} /\ \A n \in Nodes : n # g => g \notin Lineage(n)
           /\ \A h \in Goroutines : g \notin local[h].visited /\ g \notin local[h].before
<1>1. g \in Goroutines /\ g \in Nodes /\ g \notin Opened
  BY NodeFacts DEF Unseen
<1>2. g \notin Published
  BY <1>1, Zenon DEF Published, Unseen, pc
<1>3. g \notin Linked /\ replaced[g] = None /\ \A n \in Nodes : replaced[n] # g
  BY <1>1, <1>2, InvFacts, Zenon DEF Turns
<1>4. \A h \in Goroutines : g \notin local[h].visited /\ g \notin local[h].before
  BY <1>2 DEF Turns, Turn
<1>5. Lineage(g) = {g}
  BY <1>1, <1>3, InvFacts, ReachNext DEF Lineage
<1>6. ASSUME NEW n \in Nodes, n # g PROVE g \notin Lineage(n)
  <2> DEFINE S == Nodes \ {g}
  <2>1. S \in SUBSET Nodes /\ n \in S /\ Closed(S, replaced)
    BY <1>3, <1>6, InvFacts DEF Closed
  <2>2. Reach(n, replaced) \subseteq S
    <3> HIDE DEF S
    <3> QED BY <2>1, ReachLeast
  <2> QED BY <2>2, Zenon DEF Lineage
<1> QED BY <1>1, <1>2, <1>3, <1>4, <1>5, <1>6
-----------------------------------------------------------------------------
(* What the steps do to the list *)

(* A step that leaves the list as it is, except that it may give an         *)
(* unallocated node a link                                                  *)
Quiet(g) ==
    /\ UNCHANGED <<head, replaced>>
    /\ UNCHANGED next \/ (g \in Nodes \ Allocated /\ \E k : next' = [next EXCEPT ![g] = k])

(* Such a step changes neither the list nor what a call can get to. *)
LEMMA QuietReach ==
    ASSUME Inv, Inv', NEW g, Quiet(g)
    PROVE  /\ Linked' = Linked
           /\ \A c \in Allocated : Reach(c, next') = Reach(c, next)
           /\ \A n : Lineage(n)' = Lineage(n)
<1>1. /\ next \in [Nodes -> Nodes \cup {None}] /\ next' \in [Nodes -> Nodes \cup {None}]
      /\ Allocated \in SUBSET Nodes /\ Closed(Allocated, next)
  <2>1. TypeOK'
    BY DEF Inv
  <2> QED BY <2>1, InvFacts DEF TypeOK
<1>2. \A m \in Allocated : next'[m] = next[m]
  BY <1>1 DEF Quiet
<1>3. \A c \in Allocated : Reach(c, next') = Reach(c, next)
  BY <1>1, <1>2, ReachSame, Zenon
<1>4. head # None => head \in Allocated
  BY DEF Inv, Links
<1>5. Linked' = Linked
  BY <1>3, <1>4 DEF Quiet, Linked
<1>6. \A n : Lineage(n)' = Lineage(n)
  BY Zenon DEF Quiet, Lineage
<1> QED BY <1>3, <1>5, <1>6, Zenon

(* insert puts its node in front. *)
LEMMA SetHeadLinks ==
    ASSUME Inv, Turns, NEW g \in Goroutines, SetHead(g)
    PROVE  /\ Linked' = Linked \cup {g} /\ Unseen(g) /\ next' = next /\ replaced' = replaced
           /\ head' = g
<1>1. /\ pc(g) = "setHead" /\ head' = g /\ next' = next /\ replaced' = replaced
      /\ next[g] = head /\ g \in Nodes /\ g # None
  BY NodeFacts DEF SetHead, history, Turns, Turn, pc
<1>2. Linked' = Reach(g, next)
  BY <1>1, Zenon DEF Linked
<1>3. Reach(g, next) = {g} \cup (IF head = None THEN {} ELSE Reach(head, next))
  BY <1>1, InvFacts, ReachNext, Zenon
<1> QED BY <1>1, <1>2, <1>3, Zenon DEF Linked, Unseen

(* What a relinking needs, for remove and for swap *)
LEMMA RelinkFacts ==
    ASSUME Inv, Turns, NEW g \in Goroutines, pc(g) = "relink"
    PROVE  LET l == local[g]
           IN  /\ l.cur \in Linked /\ l.cur \in Nodes /\ head \in Nodes /\ l.nxt = next[l.cur]
               /\ l.prev = None => head = l.cur
               /\ l.prev # None => l.prev \in Linked /\ l.prev \in Nodes /\ next[l.prev] = l.cur
               /\ l.op = "swap" => /\ next[g] = next[l.cur] /\ g # l.prev /\ g # l.cur
                                   /\ g \notin Linked /\ g \in Nodes
<1>1. Turn(g) /\ Unseen(g) /\ local[g].pc = "relink"
  BY DEF Turns, Unseen, pc
<1>2. g \notin Linked /\ g \in Nodes
  BY <1>1, UnseenFacts, Zenon
<1>3. local[g].cur \in Linked
  BY <1>1 DEF Turn, Walking
<1>4. Linked \subseteq Nodes /\ head \in Nodes
  BY <1>3, LinkedFacts, Zenon
<1> QED BY <1>1, <1>2, <1>3, <1>4, NodeFacts, Zenon DEF Turn, Walking

(* remove takes the current node out; everyone still gets to all others.    *)
LEMMA RemoveLinks ==
    ASSUME Inv, Turns, NEW g \in Goroutines, RemoveNode(g)
    PROVE  /\ Linked' = Linked \ {local[g].cur} /\ local[g].cur \in Linked
           /\ \A c \in Nodes : Reach(c, next) \subseteq Reach(c, next') \cup {local[g].cur}
           /\ replaced' = replaced
<1>1. PICK prev, cur, nxt : prev = local[g].prev /\ cur = local[g].cur /\ nxt = local[g].nxt
  BY Zenon
<1>2. /\ pc(g) = "relink" /\ replaced' = replaced
      /\ IF prev = None THEN head' = nxt /\ next' = next
         ELSE next' = [next EXCEPT ![prev] = nxt] /\ head' = head
  BY <1>1, Zenon DEF RemoveNode, Relink, history
<1>3. /\ cur \in Linked /\ cur \in Nodes /\ head \in Nodes /\ nxt = next[cur]
      /\ prev = None => head = cur
      /\ prev # None => prev \in Linked /\ prev \in Nodes /\ next[prev] = cur
  BY <1>1, <1>2, RelinkFacts, Zenon
<1>4. /\ Downhill(next, rank) /\ next \in [Nodes -> Nodes \cup {None}] /\ None \notin Nodes
      /\ Linked = Reach(head, next)
  BY <1>3, InvFacts, LinkedFacts, Zenon
<1>5. CASE prev = None
  <2>1. Reach(cur, next) \ {cur} = IF next[cur] = None THEN {} ELSE Reach(next[cur], next)
    BY <1>3, <1>4, WithoutFirst, Zenon
  <2>2. Linked' = IF next[cur] = None THEN {} ELSE Reach(next[cur], next)
    BY <1>2, <1>3, <1>5, Zenon DEF Linked
  <2> QED BY <1>1, <1>2, <1>3, <1>4, <1>5, <2>1, <2>2, Zenon
<1>6. CASE prev # None
  <2>1. nxt \in Nodes \cup {None}
    BY <1>3, <1>4, Zenon
  <2>2. Relinked(next, next', prev, cur, nxt)
    BY <1>2, <1>3, <1>4, <1>6, <2>1, Zenon DEF Relinked
  <2>3. Reach(head, next') = (Reach(head, next) \ {cur}) \cup ({nxt} \ {None})
    BY <1>3, <1>4, <1>6, <2>2, RelinkedList
  <2>4. nxt # None => nxt \in Linked /\ nxt # cur
    <3>1. SUFFICES ASSUME nxt # None PROVE nxt \in Linked /\ nxt # cur
      OBVIOUS
    <3>2. Closed(Linked, next)
      BY LinkedFacts
    <3>3. rank[nxt] < rank[cur] /\ rank[cur] \in Nat
      BY <1>3, <1>4, <3>1, Zenon DEF Downhill
    <3> QED BY <1>3, <3>1, <3>2, <3>3 DEF Closed
  <2>5. Linked' = Reach(head, next')
    BY <1>2, <1>3, <1>4, <1>6, Zenon DEF Linked
  <2>6. \A c \in Nodes : Reach(c, next) \subseteq Reach(c, next') \cup {cur}
    BY <2>2, Bypass, Zenon
  <2> QED BY <1>1, <1>2, <1>3, <1>4, <2>3, <2>4, <2>5, <2>6
<1> QED BY <1>5, <1>6

(* swap puts its node in the place of the current one; everyone still gets  *)
(* to all others, and to the current one or the new one.                    *)
LEMMA SwapLinks ==
    ASSUME Inv, Turns, NEW g \in Goroutines, SwapNode(g)
    PROVE  /\ Linked' = (Linked \ {local[g].cur}) \cup {g} /\ local[g].cur \in Linked /\ Unseen(g)
           /\ \A c \in Nodes :
                 /\ Reach(c, next) \subseteq Reach(c, next') \cup {local[g].cur}
                 /\ local[g].cur \in Reach(c, next) =>
                       local[g].cur \in Reach(c, next') \/ g \in Reach(c, next')
           /\ replaced' = [replaced EXCEPT ![g] = local[g].cur]
<1>1. PICK prev, cur : prev = local[g].prev /\ cur = local[g].cur
  BY Zenon
<1>2. /\ pc(g) = "relink" /\ replaced' = [replaced EXCEPT ![g] = cur] /\ local[g].op = "swap"
      /\ IF prev = None THEN head' = g /\ next' = next
         ELSE next' = [next EXCEPT ![prev] = g] /\ head' = head
  BY <1>1, Zenon DEF SwapNode, Relink
<1>3. /\ cur \in Linked /\ cur \in Nodes /\ head \in Nodes
      /\ prev = None => head = cur
      /\ prev # None => prev \in Linked /\ prev \in Nodes /\ next[prev] = cur
      /\ next[g] = next[cur] /\ g # prev /\ g # cur /\ g \notin Linked /\ g \in Nodes
  BY <1>1, <1>2, RelinkFacts, Zenon
<1>4. /\ Downhill(next, rank) /\ next \in [Nodes -> Nodes \cup {None}] /\ None \notin Nodes
      /\ Linked = Reach(head, next)
  BY <1>3, InvFacts, LinkedFacts, Zenon
<1>5. Unseen(g)
  BY <1>2, Zenon DEF Unseen
<1>6. CASE prev = None
  <2>1. Reach(cur, next) \ {cur} = IF next[cur] = None THEN {} ELSE Reach(next[cur], next)
    BY <1>3, <1>4, WithoutFirst, Zenon
  <2>2. Reach(g, next) = {g} \cup IF next[g] = None THEN {} ELSE Reach(next[g], next)
    BY <1>3, <1>4, ReachNext, Zenon
  <2>3. Linked' = Reach(g, next)
    BY <1>2, <1>3, <1>4, <1>6, Zenon DEF Linked
  <2>4. Linked' = (Linked \ {cur}) \cup {g}
    BY <1>3, <1>4, <1>6, <2>1, <2>2, <2>3, Zenon
  <2> QED BY <1>1, <1>2, <1>3, <1>5, <1>6, <2>4, Zenon
<1>7. CASE prev # None
  <2>2. Relinked(next, next', prev, cur, g)
    BY <1>2, <1>3, <1>4, <1>7, Zenon DEF Relinked
  <2>3. Reach(head, next') = (Reach(head, next) \ {cur}) \cup ({g} \ {None})
    BY <1>3, <1>4, <1>7, <2>2, RelinkedList, SMTT(30)
  <2>4. Linked' = Reach(head, next') /\ g # None
    BY <1>2, <1>3, <1>4, <1>7, Zenon DEF Linked
  <2>5. \A c \in Nodes :
           /\ Reach(c, next) \subseteq Reach(c, next') \cup {cur}
           /\ cur \in Reach(c, next) => cur \in Reach(c, next') \/ g \in Reach(c, next')
    BY <2>2, <2>4, Bypass, Zenon
  <2> QED BY <1>1, <1>2, <1>3, <1>4, <1>5, <2>3, <2>4, <2>5, ZenonT(60)
<1> QED BY <1>6, <1>7
-----------------------------------------------------------------------------
(* Scans beside the calls that change the list *)

(* A scan that goes on as it was still covers the list. *)
LEMMA CoversKept ==
    ASSUME Inv, Inv', Turns, NEW g \in Goroutines, NEW h \in Goroutines,
           local'[h] = local[h], local[h].op = "scan",
           Quiet(g) \/ SetHead(g) \/ RemoveNode(g) \/ SwapNode(g)
    PROVE  Covers(h)'
<1>1. PICK l : l = local[h]
  BY Zenon
<1>2. PICK reads : reads = Reads(h)
  BY Zenon
<1>3. PICK after : after = Reads(h)'
  BY Zenon
<1>4. Turn(h) /\ Walk(h) /\ Linked \subseteq Allocated /\ Allocated \subseteq Nodes
  BY InvFacts, LinkedFacts, Zenon DEF Inv, Turns
<1>5. Covers(h)
  BY <1>4 DEF Turn
<1>6. l.pc = "scan" => l.cur \in Allocated
  BY <1>1, <1>4, ZenonT(60) DEF Walk
<1>7. /\ reads = l.visited \cup (IF l.pc = "scan" THEN Reach(l.cur, next) ELSE {})
      /\ after = l.visited \cup (IF l.pc = "scan" THEN Reach(l.cur, next') ELSE {})
  BY <1>1, <1>2, <1>3, Zenon DEF Reads, pc
<1>8. SUFFICES ASSUME NEW n \in Linked', Lineage(n)' \cap l.before # {} PROVE Lineage(n)' \cap after # {}
  BY <1>1, <1>3, Zenon DEF Covers
<1>9. \A m \in Linked : Lineage(m) \cap l.before # {} => Lineage(m) \cap reads # {}
  BY <1>1, <1>2, <1>5, Zenon DEF Covers
<1>10. CASE Quiet(g)
  <2>1. /\ Linked' = Linked /\ \A c \in Allocated : Reach(c, next') = Reach(c, next)
        /\ \A m : Lineage(m)' = Lineage(m)
    BY <1>10, QuietReach, Zenon
  <2>2. reads = after
    BY <1>6, <1>7, <2>1, Zenon
  <2> QED BY <1>8, <1>9, <2>1, <2>2, Zenon
<1>11. CASE SetHead(g)
  <2>1. Linked' = Linked \cup {g} /\ Unseen(g) /\ next' = next /\ replaced' = replaced
    BY <1>11, SetHeadLinks, Zenon
  <2>2. reads = after /\ \A m : Lineage(m)' = Lineage(m)
    BY <1>7, <2>1, Zenon DEF Lineage
  <2>3. Lineage(g) = {g} /\ g \notin l.before
    BY <1>1, <2>1, UnseenFacts, Zenon
  <2>4. n # g
    BY <1>8, <2>2, <2>3, Zenon
  <2> QED BY <1>8, <1>9, <2>1, <2>2, <2>4, Zenon
<1>12. CASE RemoveNode(g)
  <2>0. PICK cur : cur = local[g].cur
    BY Zenon
  <2>1. /\ Linked' = Linked \ {cur} /\ cur \in Linked /\ replaced' = replaced
        /\ \A c \in Nodes : Reach(c, next) \subseteq Reach(c, next') \cup {cur}
    BY <1>12, <2>0, RemoveLinks, Zenon
  <2>2. \A m : Lineage(m)' = Lineage(m)
    BY <2>1, Zenon DEF Lineage
  <2>3. PICK m \in Lineage(n) : m \in reads
    BY <1>8, <1>9, <2>1, <2>2, Zenon
  <2>4. n \in Linked /\ n # cur /\ n \in Allocated
    BY <1>4, <1>8, <2>1, Zenon
  <2>5. rank[m] = rank[n]
    BY <2>4, LineageRank, Zenon
  <2>6. m # cur
    BY <2>1, <2>4, <2>5, LinkedRanks, Zenon
  <2>7. m \in after
    BY <1>4, <1>6, <1>7, <2>1, <2>3, <2>6, Zenon
  <2> QED BY <2>2, <2>3, <2>7, Zenon
<1>13. CASE SwapNode(g)
  <2>0. PICK cur : cur = local[g].cur
    OBVIOUS
  <2>1. /\ Linked' = (Linked \ {cur}) \cup {g} /\ cur \in Linked /\ Unseen(g)
        /\ replaced' = [replaced EXCEPT ![g] = cur]
        /\ \A c \in Nodes :
              /\ Reach(c, next) \subseteq Reach(c, next') \cup {cur}
              /\ cur \in Reach(c, next) => cur \in Reach(c, next') \/ g \in Reach(c, next')
    BY <1>13, <2>0, SwapLinks, Zenon
  <2>2. /\ g \in Nodes /\ g \notin Linked /\ replaced[g] = None /\ g \notin l.before
        /\ \A m \in Nodes : m # g => g \notin Lineage(m)
    BY <1>1, <2>1, UnseenFacts, Zenon
  <2>3. /\ replaced \in [Nodes -> Nodes \cup {None}] /\ None \notin Nodes
        /\ replaced' \in [Nodes -> Nodes \cup {None}]
        /\ cur \in Nodes /\ cur # None
    BY <1>4, <2>1, <2>2, InvFacts, Zenon
  <2>4. ASSUME NEW m \in Nodes, m # g PROVE Lineage(m)' = Lineage(m)
    <3>1. Lineage(m) \in SUBSET Nodes /\ m \in Lineage(m) /\ Closed(Lineage(m), replaced)
      BY <2>3, ReachStep, ReachClosed, Zenon DEF Lineage
    <3>2. \A x \in Lineage(m) : replaced'[x] = replaced[x]
      BY <2>1, <2>2, <2>3, <2>4, <3>1, ZenonT(60)
    <3> QED BY <2>3, <3>1, <3>2, ReachSame, ZenonT(60) DEF Lineage
  <2>5. Lineage(g)' = {g} \cup Lineage(cur)
    <3>1. replaced'[g] = cur
      BY <2>1, <2>2, <2>3, Zenon
    <3>2. Reach(g, replaced') = {g} \cup Reach(cur, replaced')
      BY <2>2, <2>3, <3>1, ReachNext, Zenon
    <3>3. cur # g
      BY <2>1, <2>2, Zenon
    <3>4. Lineage(cur)' = Lineage(cur)
      BY <2>3, <2>4, <3>3, Zenon
    <3> QED BY <3>2, <3>4, Zenon DEF Lineage
  <2>6. PICK old \in Linked : (n = g /\ old = cur) \/ (n # g /\ old = n /\ n # cur)
    BY <1>8, <2>1, Zenon
  <2>7. Lineage(n)' = IF n = g THEN {g} \cup Lineage(old) ELSE Lineage(old)
    BY <1>4, <2>4, <2>5, <2>6, Zenon
  <2>8. Lineage(old) \cap l.before # {}
    BY <1>8, <2>2, <2>7, Zenon
  <2>9. PICK m \in Lineage(old) : m \in reads
    BY <1>9, <2>6, <2>8, Zenon
  <2>10. CASE m = cur
    <3>1. old \in Allocated /\ rank[cur] = rank[old]
      BY <1>4, <2>6, <2>9, <2>10, LineageRank, Zenon
    <3>2. old = cur /\ n = g
      BY <2>1, <2>6, <3>1, LinkedRanks, Zenon
    <3>3. cur \in Lineage(n)' /\ g \in Lineage(n)'
      BY <2>7, <2>9, <2>10, <3>2, Zenon
    <3>4. cur \in after \/ g \in after
      BY <1>4, <1>6, <1>7, <2>1, <2>9, <2>10, Zenon
    <3> QED BY <3>3, <3>4, Zenon
  <2>11. CASE m # cur
    <3>1. m \in after
      BY <1>4, <1>6, <1>7, <2>1, <2>9, <2>11, Zenon
    <3> QED BY <2>7, <2>9, <3>1, Zenon
  <2> QED BY <2>10, <2>11, SMTT(30)
<1> QED BY <1>10, <1>11, <1>12, <1>13, Zenon
-----------------------------------------------------------------------------
(* One mutator at a time *)

(* A call of a goroutine *)
Acts(g) == Insert(g) \/ Call(g) \/ Scan(g) \/ Step(g)

(* The steps of a call that changes the list *)
Mutates(g) ==
    \/ Insert(g) \/ Call(g) \/ SetHead(g) \/ AddNum(g) \/ NewIterator(g) \/ LoadMin(g) \/ Compare(g)
    \/ Advance(g) \/ NewNode(g) \/ ReadNext(g) \/ RemoveNode(g) \/ SwapNode(g) \/ SetTail(g)
    \/ SubNum(g) \/ Clean(g)

(* Only one call changes the list at any time. *)
LEMMA StepAlone ==
    ASSUME Inv, Turns, Exclusive, NEW g \in Goroutines, Acts(g)
    PROVE  /\ \A h \in Goroutines : h # g => local'[h] = local[h]
           /\ UNCHANGED <<head, next, min, cleaned, history>> \/ \A h \in Mutating : h = g
           /\ \A a, b \in Mutating' : a = b
<1>1. Inv /\ local \in [Goroutines -> Local] /\ local[g] \in Local /\ Walk(g)
  BY Zenon DEF Inv, TypeOK
<1>2. \A h \in Goroutines : h # g => local'[h] = local[h]
  BY OwnStep, Zenon DEF Acts, Steady
<1>3. Mutates(g) \/ Scan(g) \/ ScanOn(g)
  BY Zenon DEF Acts, Step, Mutates
<1>4. CASE Insert(g) \/ Call(g)
  <2>1. Mutating = {}
    BY <1>4, Zenon DEF Insert, Call, MayMutate
  <2>2. Mutating' \subseteq {g}
    BY <1>2, <2>1, Zenon DEF Mutating, pc
  <2> QED BY <1>2, <2>1, <2>2
<1>5. CASE Scan(g) \/ ScanOn(g)
  <2>1. local'[g].op = "scan"
    <3>1. CASE Scan(g)
      BY <1>1, <3>1 DEF Scan, Visit, Continue, Local
    <3>2. CASE ScanOn(g)
      BY <1>1, <3>2 DEF ScanOn, Visit, Continue, Local, Walk, pc
    <3> QED BY <1>5, <3>1, <3>2
  <2>2. Mutating' \subseteq Mutating
    BY <1>2, <2>1 DEF Mutating, pc
  <2>3. UNCHANGED <<head, next, min, cleaned, history>>
    BY <1>5, Zenon DEF Scan, ScanOn, list
  <2> QED BY <1>2, <2>2, <2>3, Zenon DEF Turns
<1>6. CASE Mutates(g) /\ ~ Insert(g) /\ ~ Call(g)
  <2>1. local[g].pc \notin {"idle", "done"} /\ local[g].op # "scan"
    BY <1>1, <1>6, Zenon DEF Mutates, SetHead, AddNum, NewIterator, LoadMin, Compare,
       Advance, NewNode, ReadNext, RemoveNode, SwapNode, SetTail, SubNum, Clean, pc, Walk, Walking
  <2>2. g \in Mutating
    BY <2>1, Zenon DEF Mutating, pc
  <2>3. \A h \in Mutating : h = g
    BY <2>2, Zenon DEF Turns
  <2>4. Mutating' \subseteq {g}
    BY <1>2, <2>3 DEF Mutating, pc
  <2> QED BY <1>2, <2>3, <2>4, Zenon
<1> QED BY <1>3, <1>4, <1>5, <1>6, Zenon

(* A step either leaves the list alone or is one of the three that relink,  *)
(* and no partition is hidden again.                                        *)
LEMMA StepKind ==
    ASSUME Inv, Turns, NEW g \in Goroutines, Acts(g)
    PROVE  /\ Quiet(g) \/ SetHead(g) \/ RemoveNode(g) \/ SwapNode(g)
           /\ Published \subseteq Published'
<1>1. /\ local \in [Goroutines -> Local] /\ local[g] \in Local /\ Walk(g) /\ g \in Nodes /\ g \notin Opened
      /\ \A h \in Goroutines : h # g => local'[h] = local[h]
      /\ replaced \in [Nodes -> Nodes \cup {None}] /\ None \notin Nodes
  BY OwnStep, NodeFacts, InvFacts, Zenon DEF Acts, Inv, TypeOK, Steady
<1>2. Quiet(g) \/ SetHead(g) \/ RemoveNode(g) \/ SwapNode(g)
  <2>1. CASE Insert(g)
    <3>1. g \notin Allocated
      BY <1>1, <2>1 DEF Insert, Allocated, Walk, NewLocal, pc
    <3> QED BY <1>1, <2>1, <3>1, Zenon DEF Insert, Quiet, list, history
  <2>2. CASE NewNode(g)
    <3>1. g \notin Allocated
      BY <1>1, <2>2 DEF NewNode, Allocated, pc
    <3> QED BY <1>1, <2>2, <3>1, Zenon DEF NewNode, Quiet, list, history
  <2>3. CASE Call(g) \/ Scan(g) \/ AddNum(g) \/ NewIterator(g) \/ LoadMin(g) \/ Compare(g) \/ Advance(g)
             \/ ReadNext(g) \/ SetTail(g) \/ SubNum(g) \/ Clean(g) \/ ScanOn(g)
    BY <2>3, Zenon DEF Call, Scan, AddNum, NewIterator, LoadMin, Compare, Advance, ReadNext, SetTail, SubNum,
       Clean, ScanOn, Quiet, list, history
  <2> QED BY <2>1, <2>2, <2>3 DEF Acts, Step
<1>3. replaced' = replaced \/ SwapNode(g)
  BY <1>2, Zenon DEF Quiet, SetHead, RemoveNode, history
<1>4. \A n \in Nodes : n # g => replaced'[n] = replaced[n]
  BY <1>1, <1>3, Zenon DEF SwapNode
<1>5. g \in Published => g \in Published'
  <2>1. SUFFICES ASSUME g \in Published PROVE g \in Published'
    BY Zenon
  <2>2. /\ local[g].pc \in {"addNum", "setTail", "done"}
        /\ local[g].op = "insert" \/ replaced[g] # None
    BY <1>1, <2>1, Zenon DEF Published, pc
  <2>3. replaced[g] # None => local[g].op \in {"insert", "swap"}
    BY <1>1 DEF Inv, Links, Allocated
  <2>4. AddNum(g) \/ SetTail(g)
    BY <2>2, ZenonT(60) DEF Acts, Insert, Call, Scan, Step, SetHead, NewIterator, LoadMin, Compare, Advance, NewNode,
       ReadNext, RemoveNode, SwapNode, SubNum, Clean, ScanOn, pc
  <2>5. /\ local'[g].pc = "done" /\ local'[g].op = local[g].op /\ replaced' = replaced
        /\ local[g].op \in {"insert", "swap"}
    <3>1. CASE AddNum(g)
      BY <1>1, <3>1 DEF AddNum, Goto, Continue, Local, Walk, history, pc
    <3>2. CASE SetTail(g)
      <4>1. local[g].op = "swap"
        BY <1>1, <2>2, <2>3, <3>2, Zenon DEF SetTail, Walk, pc
      <4> QED BY <1>1, <3>2, <4>1 DEF SetTail, Goto, Continue, Local, history
    <3> QED BY <2>4, <3>1, <3>2, Zenon
  <2> QED BY <2>2, <2>5 DEF Published, pc
<1>6. ASSUME NEW n \in Published, n # g PROVE n \in Published'
  <2>1. CASE n \in Opened
    BY <2>1, Zenon DEF Published
  <2>2. CASE n \in Goroutines
    <3>1. local'[n] = local[n] /\ replaced'[n] = replaced[n]
      BY <1>1, <1>4, <1>6, <2>2, NodeFacts, ZenonT(60)
    <3> QED BY <1>6, <2>2, <3>1, Zenon DEF Published, pc
  <2> QED BY <1>6, <2>1, <2>2, Zenon DEF Published
<1> QED BY <1>2, <1>5, <1>6

(* What the other calls know stays true. *)
LEMMA OthersTurn ==
    ASSUME Inv, Inv', Turns, Exclusive, NEW g \in Goroutines, Acts(g),
           NEW h \in Goroutines, h # g
    PROVE  Turn(h)'
<1>1. /\ local'[h] = local[h] /\ Turn(h) /\ Walk(h) /\ Published \subseteq Published'
      /\ Quiet(g) \/ SetHead(g) \/ RemoveNode(g) \/ SwapNode(g)
      /\ UNCHANGED <<head, next, replaced, cleaned>> \/ \A k \in Mutating : k = g
  BY StepAlone, StepKind, Zenon DEF Turns, Inv, history
<1>2. PICK l : l = local[h]
  OBVIOUS
<1>3. l.op = "scan" => Covers(h)'
  BY <1>1, <1>2, CoversKept, Zenon
<1>4. l.visited \cup l.before \subseteq Published' /\ (l.pc = "scan" => l.cur \in l.visited)
  BY <1>1, <1>2, Zenon DEF Turn
<1>5. CASE UNCHANGED <<head, next, replaced, cleaned>>
  <2>1. Linked' = Linked
    BY <1>5, Zenon DEF Linked
  <2>2. local'[h] = l /\ Turn(h) /\ Published \subseteq Published'
    BY <1>1, <1>2, Zenon
  <2>3. l.pc \in {"setTail", "subNum", "clean"} /\ l.op = "remove" => l.cur \in Published' \ Linked'
    BY <1>2, <2>1, <2>2 DEF Turn
  <2> QED BY <1>2, <1>3, <1>4, <1>5, <2>1, <2>2, <2>3, Zenon DEF Turn
<1>6. CASE \A k \in Mutating : k = g
  <2>1. l.pc \in {"idle", "done"} \/ l.op = "scan"
    BY <1>2, <1>6 DEF Mutating, pc
  <2>2. l.pc \notin {"setHead", "readNext", "relink", "setTail", "subNum", "clean"} /\ l.pc \notin Walking
    BY <1>1, <1>2, <2>1, Zenon DEF Walk, Walking
  <2> QED BY <1>1, <1>2, <1>3, <1>4, <2>2, Zenon DEF Turn
<1> QED BY <1>1, <1>5, <1>6

(* And so does what the call that takes the step knows. *)
LEMMA OwnTurn ==
    ASSUME Inv, Inv', Turns, NEW g \in Goroutines, Acts(g)
    PROVE  Turn(g)'
<1>1. /\ local \in [Goroutines -> Local] /\ local[g] \in Local /\ Walk(g) /\ Turn(g)
      /\ g \in Nodes /\ None \notin Nodes /\ Published \subseteq Published'
      /\ local[g].visited \cup local[g].before \subseteq Published
      /\ next \in [Nodes -> Nodes \cup {None}]
  BY NodeFacts, StepKind, InvFacts, Zenon DEF Inv, TypeOK, Turns, Turn
<1>2. /\ Linked \subseteq Allocated /\ Linked \subseteq Nodes /\ Closed(Linked, next)
      /\ head # None => head \in Linked
      /\ Linked \subseteq Published /\ Closed(Published, next)
  BY LinkedFacts, Zenon DEF Turns
<1>3. UNCHANGED <<head, next>> => Linked' = Linked
  BY DEF Linked
<1>4. CASE Insert(g)
  <2>1. /\ local'[g].pc = "setHead" /\ local'[g].op = "insert" /\ local'[g].visited = local[g].visited
        /\ local'[g].before = local[g].before /\ next'[g] = head'
    BY <1>1, <1>4, SMTT(30) DEF Insert, Continue, Local, list
  <2> QED BY <1>1, <2>1, Zenon DEF Turn, Walking
<1>5. CASE SetHead(g) \/ AddNum(g)
  <2>1. /\ local'[g].pc \in {"addNum", "done"} /\ local'[g].op = "insert"
        /\ local'[g].visited = local[g].visited /\ local'[g].before = local[g].before
    BY <1>1, <1>5 DEF SetHead, AddNum, Goto, Continue, Local, Walk, pc
  <2> QED BY <1>1, <2>1, Zenon DEF Turn, Walking
<1>6. CASE Call(g)
  <2>1. PICK op \in {"remove", "swap"}, t \in Targets :
           local' = [local EXCEPT ![g] =
                       [local[g] EXCEPT !.pc = IF numPartitions <= 0 THEN "done" ELSE "newIterator",
                                        !.op = op, !.target = t,
                                        !.before = {n \in {t} : min[n] # 0}]]
    BY <1>6, Zenon DEF Call, Continue
  <2>2. /\ local'[g].pc \in {"newIterator", "done"} /\ local'[g].op # "scan"
        /\ local'[g].visited = local[g].visited /\ local'[g].before \subseteq {t}
    BY <1>1, <2>1 DEF Local
  <2>3. t \in Published
    BY <2>1, Zenon DEF Targets
  <2> QED BY <1>1, <2>2, <2>3, Zenon DEF Turn, Walking
<1>7. CASE NewIterator(g)
  <2>1. /\ local'[g].pc = IF head = None THEN "done" ELSE "loadMin"
        /\ local'[g].op = local[g].op /\ local[g].op \in {"remove", "swap"}
        /\ local'[g].cur = head /\ local'[g].prev = None
        /\ local'[g].visited = local[g].visited /\ local'[g].before = local[g].before
        /\ UNCHANGED <<head, next>>
    BY <1>1, <1>7 DEF NewIterator, Continue, Local, Walk, pc, list
  <2> QED BY <1>1, <1>2, <1>3, <2>1, Zenon DEF Turn, Walking
<1>8. CASE LoadMin(g) \/ Compare(g)
  <2>1. /\ local[g].pc \in Walking /\ local'[g].pc \in {"compare", "matched", "advance"}
        /\ local'[g].op = local[g].op /\ local[g].op \in {"remove", "swap"}
        /\ local'[g].cur = local[g].cur /\ local'[g].prev = local[g].prev
        /\ local'[g].visited = local[g].visited /\ local'[g].before = local[g].before
        /\ UNCHANGED <<head, next>>
    <3>1. CASE LoadMin(g)
      BY <1>1, <3>1 DEF LoadMin, Continue, Local, Walk, Walking, pc, list
    <3>2. CASE Compare(g)
      BY <1>1, <3>2 DEF Compare, Goto, Continue, Local, Walk, Walking, pc, list
    <3> QED BY <1>8, <3>1, <3>2, Zenon
  <2> QED BY <1>1, <1>3, <2>1, Zenon DEF Turn, Walking
<1>9. CASE Advance(g)
  <2>1. /\ local[g].pc \in Walking /\ local'[g].pc = IF next[local[g].cur] = None THEN "done" ELSE "loadMin"
        /\ local'[g].op = local[g].op /\ local[g].op \in {"remove", "swap"}
        /\ local'[g].cur = next[local[g].cur] /\ local'[g].prev = local[g].cur
        /\ local'[g].visited = local[g].visited /\ local'[g].before = local[g].before
        /\ UNCHANGED <<head, next>>
    BY <1>1, <1>9 DEF Advance, Continue, Local, Walk, Walking, pc, list
  <2>2. local[g].cur \in Linked /\ local[g].cur # None
    BY <1>1, <2>1, Zenon DEF Turn, Walk
  <2>3. next[local[g].cur] # None => next[local[g].cur] \in Linked
    BY <1>2, <2>2 DEF Closed
  <2> QED BY <1>1, <1>3, <2>1, <2>2, <2>3, Zenon DEF Turn, Walking
<1>10. CASE NewNode(g)
  <2>1. /\ local[g].pc \in Walking /\ local'[g].pc = "readNext" /\ local'[g].op = "swap"
        /\ local'[g].cur = local[g].cur /\ local'[g].prev = local[g].prev
        /\ local'[g].visited = local[g].visited /\ local'[g].before = local[g].before
        /\ head' = head /\ next' = [next EXCEPT ![g] = next[local[g].cur]] /\ replaced' = replaced
    BY <1>1, <1>10, Zenon DEF NewNode, Goto, Continue, Local, Walking, pc, list
  <2>2. g \notin Allocated
    BY <1>1, <1>10, NodeFacts DEF NewNode, Allocated, pc
  <2>3. Linked' = Linked
    BY <1>1, <2>1, <2>2, QuietReach, Zenon DEF Quiet
  <2>4. \A n \in Linked : next'[n] = next[n]
    BY <1>1, <1>2, <2>1, <2>2
  <2>5. local[g].cur \in Linked /\ next'[g] = next[local[g].cur]
    BY <1>1, <2>1, Zenon DEF Turn
  <2> QED BY <1>1, <2>1, <2>3, <2>4, <2>5, Zenon DEF Turn, Walking
<1>11. CASE ReadNext(g)
  <2>1. /\ local[g].pc \in {"matched", "readNext"} /\ local'[g].pc = "relink"
        /\ local'[g].op = local[g].op /\ local[g].op \in {"remove", "swap"}
        /\ local[g].pc = "matched" => local[g].op = "remove"
        /\ local'[g].cur = local[g].cur /\ local'[g].prev = local[g].prev
        /\ local'[g].nxt = next[local[g].cur]
        /\ local'[g].visited = local[g].visited /\ local'[g].before = local[g].before
        /\ UNCHANGED <<head, next>>
    BY <1>1, <1>11 DEF ReadNext, Continue, Local, Walk, Walking, pc, list
  <2> QED BY <1>1, <1>3, <2>1, Zenon DEF Turn, Walking
<1>12. CASE RemoveNode(g)
  <2>1. /\ local'[g].pc \in {"setTail", "subNum"} /\ local'[g].op = "remove"
        /\ local'[g].cur = local[g].cur
        /\ local'[g].visited = local[g].visited /\ local'[g].before = local[g].before
    BY <1>1, <1>12, Zenon DEF RemoveNode, Relink, Goto, Continue, Local
  <2>2. local[g].cur \in Linked /\ local[g].cur \notin Linked'
    BY <1>12, RemoveLinks
  <2> QED BY <1>1, <1>2, <2>1, <2>2, Zenon DEF Turn, Walking
<1>13. CASE SwapNode(g)
  <2>1. /\ local'[g].pc \in {"setTail", "done"} /\ local'[g].op = "swap"
        /\ local'[g].visited = local[g].visited /\ local'[g].before = local[g].before
    BY <1>1, <1>13 DEF SwapNode, Relink, Goto, Continue, Local
  <2> QED BY <1>1, <2>1, Zenon DEF Turn, Walking
<1>14. CASE SetTail(g) \/ SubNum(g) \/ Clean(g)
  <2>1. /\ local[g].pc \in {"setTail", "subNum", "clean"} /\ local'[g].pc \in {"subNum", "clean", "done"}
        /\ local'[g].op = local[g].op /\ local[g].op \in {"remove", "swap"}
        /\ local'[g].cur = local[g].cur
        /\ local'[g].visited = local[g].visited /\ local'[g].before = local[g].before
        /\ UNCHANGED <<head, next>>
    BY <1>1, <1>14 DEF SetTail, SubNum, Clean, Goto, Continue, Local, Walk, pc, list
  <2> QED BY <1>1, <1>3, <2>1, Zenon DEF Turn, Walking
<1>15. CASE Scan(g)
  <2>1. /\ local'[g].pc = IF head = None THEN "done" ELSE "scan"
        /\ local'[g].op = "scan" /\ local'[g].before = Linked /\ local'[g].cur = head
        /\ local'[g].visited = local[g].visited \cup ({head} \ {None})
        /\ UNCHANGED <<head, next, replaced>>
    BY <1>1, <1>15, Zenon DEF Scan, Visit, Continue, Local, list, history
  <2>2. Linked \subseteq Reads(g)'
    BY <2>1, Zenon DEF Reads, Linked, pc
  <2>3. Covers(g)'
    BY <1>3, <2>1, <2>2, Zenon DEF Covers, Lineage
  <2>4. local'[g].visited \cup local'[g].before \subseteq Published'
    BY <1>1, <1>2, <2>1, Zenon
  <2> QED BY <2>1, <2>3, <2>4, Zenon DEF Turn, Walking
<1>16. CASE ScanOn(g)
  <2>1. PICK n : n = next[local[g].cur]
    OBVIOUS
  <2>2. /\ local'[g].pc = IF n = None THEN "done" ELSE "scan"
        /\ local'[g].op = "scan" /\ local'[g].before = local[g].before /\ local'[g].cur = n
        /\ local'[g].visited = local[g].visited \cup ({n} \ {None})
        /\ local[g].pc = "scan" /\ local[g].op = "scan"
        /\ UNCHANGED <<head, next, replaced>>
    BY <1>1, <1>16, <2>1, Zenon DEF ScanOn, Visit, Continue, Local, Walk, list, history, pc
  <2>3. local[g].cur \in local[g].visited /\ local[g].cur \in Published /\ local[g].cur \in Nodes /\ Covers(g)
    <3>1. local[g].cur \in local[g].visited /\ Covers(g)
      BY <1>1, <2>2, ZenonT(60) DEF Turn
    <3> QED BY <1>1, <3>1 DEF Local
  <2>4. n # None => n \in Published
    BY <1>2, <2>1, <2>3, Zenon DEF Closed
  <2>5. Reach(local[g].cur, next) = {local[g].cur} \cup (IF n = None THEN {} ELSE Reach(n, next))
    BY <1>1, <2>1, <2>3, ReachNext, Zenon
  <2>6. Reads(g) \subseteq Reads(g)'
    BY <2>2, <2>3, <2>5 DEF Reads, pc
  <2>7. Covers(g)'
    BY <1>3, <2>2, <2>3, <2>6, ZenonT(60) DEF Covers, Lineage
  <2>8. local'[g].visited \cup local'[g].before \subseteq Published'
    BY <1>1, <2>2, <2>4, Zenon
  <2> QED BY <2>2, <2>7, <2>8, Zenon DEF Turn, Walking
<1> QED BY <1>4, <1>5, <1>6, <1>7, <1>8, <1>9, <1>10, <1>11, <1>12, <1>13, <1>14, <1>15, <1>16, Zenon
        DEF Acts, Step

(* A partition is first met once insert or swap has put it into the list.   *)
LEMMA NewlyPublished ==
    ASSUME Inv, Turns, NEW g \in Goroutines, Acts(g)
    PROVE  /\ Published \subseteq Allocated /\ Published' \subseteq Published \cup {g}
           /\ g \in Published' => g \in Published \/ SetHead(g) \/ SwapNode(g)
           /\ SetHead(g) \/ SwapNode(g) => g \in Published'
<1>1. /\ local \in [Goroutines -> Local] /\ local[g] \in Local /\ Walk(g) /\ Links
      /\ g \in Nodes /\ None \notin Nodes /\ g \notin Opened /\ Goroutines \subseteq Nodes
      /\ \A h \in Goroutines : h # g => local'[h] = local[h]
      /\ replaced \in [Nodes -> Nodes \cup {None}]
  BY OwnStep, NodeFacts, InvFacts, Zenon DEF Acts, Inv, TypeOK, Steady
<1>2. Published \subseteq Allocated
  BY <1>1, Zenon DEF Published, Allocated, Links
<1>3. \A n \in Goroutines : n # g => replaced'[n] = replaced[n]
  <2>1. replaced' = replaced \/ SwapNode(g)
    BY StepKind, Zenon DEF Quiet, SetHead, RemoveNode, history
  <2> QED BY <1>1, <2>1, Zenon DEF SwapNode
<1>4. Published' \subseteq Published \cup {g}
  BY <1>1, <1>3 DEF Published, pc
<1>5. SetHead(g) \/ SwapNode(g) => g \in Published'
  <2>1. CASE SetHead(g)
    <3>1. local'[g].pc = "addNum" /\ local'[g].op = "insert"
      BY <1>1, <2>1, Zenon DEF SetHead, Goto, Continue, Local, Walk, pc
    <3> QED BY <3>1 DEF Published, pc
  <2>2. CASE SwapNode(g)
    <3>1. local'[g].pc \in {"setTail", "done"} /\ replaced'[g] = local[g].cur /\ local[g].cur # None
      BY <1>1, <2>2 DEF SwapNode, Relink, Goto, Continue, Local, Walk, Walking, pc
    <3> QED BY <3>1 DEF Published, pc
  <2> QED BY <2>1, <2>2, Zenon
<1>6. ASSUME g \in Published', g \notin Published, ~ SetHead(g), ~ SwapNode(g) PROVE FALSE
  <2>1. replaced' = replaced
    BY <1>6, StepKind, Zenon DEF Quiet, RemoveNode, history
  <2>2. /\ local'[g].pc \in {"addNum", "setTail", "done"}
        /\ local'[g].op = "insert" \/ replaced[g] # None
    BY <1>1, <1>6, <2>1, Zenon DEF Published, pc
  <2>3. replaced[g] # None => g \in Allocated
    BY <1>1 DEF Links
  <2>4. CASE Insert(g)
    BY <1>1, <2>2, <2>4, Zenon DEF Insert, Continue, Local
  <2>5. CASE Call(g) \/ Scan(g)
    <3>0. local[g].pc = "idle"
      BY <2>5, ZenonT(60) DEF Call, Scan, pc
    <3>1. g \notin Allocated
      <4>1. local[g] = NewLocal
        BY <1>1, <3>0, Zenon DEF Walk
      <4>2. local[g].op = "none"
        BY <4>1 DEF NewLocal
      <4>3. g \notin Opened
        BY <1>1, GoroutinesAssumption, Zenon DEF Opened
      <4> QED BY <4>2, <4>3 DEF Allocated
    <3>2. local'[g].op # "insert"
      <4>1. CASE Call(g)
        BY <1>1, <4>1 DEF Call, Continue, Local
      <4>2. CASE Scan(g)
        BY <1>1, <4>2 DEF Scan, Visit, Continue, Local
      <4> QED BY <2>5, <4>1, <4>2
    <3> QED BY <2>2, <2>3, <3>1, <3>2
  <2>6. CASE AddNum(g)
    BY <1>1, <1>6, <2>6, Zenon DEF AddNum, Walk, Published, pc
  <2>7. CASE SetTail(g)
    <3>1. local'[g].op # "insert" /\ (local[g].op = "remove" => local'[g].pc = "subNum")
          /\ local[g].op \in {"remove", "swap"} /\ local[g].pc = "setTail"
      BY <1>1, <2>7 DEF SetTail, Goto, Continue, Local, Walk, pc
    <3> QED BY <1>1, <1>6, <2>2, <3>1, Zenon DEF Published, pc
  <2>8. CASE NewIterator(g) \/ LoadMin(g) \/ Compare(g) \/ Advance(g) \/ NewNode(g) \/ ReadNext(g)
             \/ RemoveNode(g) \/ SubNum(g) \/ Clean(g) \/ ScanOn(g)
    <3>1. /\ local[g].op \in {"remove", "swap", "scan"} /\ local'[g].op = local[g].op
          /\ local[g].op = "swap" => local'[g].pc \in {"readNext", "relink"} \/ g \notin Allocated
      <4>1. CASE NewIterator(g)
        BY <1>1, <4>1 DEF NewIterator, Continue, Local, Walk, Walking, Allocated, pc
      <4>2. CASE LoadMin(g)
        BY <1>1, <4>2 DEF LoadMin, Continue, Local, Walk, Walking, Allocated, pc
      <4>3. CASE Compare(g)
        BY <1>1, <4>3 DEF Compare, Goto, Continue, Local, Walk, Walking, Allocated, pc
      <4>4. CASE Advance(g)
        BY <1>1, <4>4 DEF Advance, Continue, Local, Walk, Walking, Allocated, pc
      <4>5. CASE NewNode(g)
        BY <1>1, <4>5 DEF NewNode, Goto, Continue, Local, Walk, Walking, pc
      <4>6. CASE ReadNext(g)
        BY <1>1, <4>6 DEF ReadNext, Continue, Local, Walk, Walking, pc
      <4>7. CASE RemoveNode(g)
        BY <1>1, <4>7 DEF RemoveNode, Relink, Goto, Continue, Local, Walk, Walking, pc
      <4>8. CASE SubNum(g)
        BY <1>1, <4>8 DEF SubNum, Goto, Continue, Local, Walk, Walking, pc
      <4>9. CASE Clean(g)
        BY <1>1, <4>9 DEF Clean, Goto, Continue, Local, Walk, Walking, pc
      <4>10. CASE ScanOn(g)
        BY <1>1, <4>10, Zenon DEF ScanOn, Visit, Continue, Local, Walk, Walking, pc
      <4> QED BY <2>8, <4>1, <4>2, <4>3, <4>4, <4>5, <4>6, <4>7, <4>8, <4>9, <4>10, Zenon
    <3>2. local[g].op \in {"remove", "scan"} => g \notin Allocated
      BY <1>1, Zenon DEF Allocated
    <3> QED BY <2>2, <2>3, <3>1, <3>2
  <2> QED BY <1>6, <2>4, <2>5, <2>6, <2>7, <2>8, Zenon DEF Acts, Step
<1> QED BY <1>2, <1>4, <1>5, <1>6

(* What is known of the list itself stays true. *)
LEMMA ListTurn ==
    ASSUME Inv, Inv', Turns, NEW g \in Goroutines, Acts(g)
    PROVE  /\ Linked' \subseteq Published' /\ Closed(Published', next')
           /\ cleaned' \subseteq Published' \ Linked'
           /\ \A n \in Nodes : replaced'[n] # None => n \in Published' /\ replaced'[n] \in Published'
<1>1. /\ g \in Nodes /\ None \notin Nodes /\ Turn(g) /\ Walk(g)
      /\ next \in [Nodes -> Nodes \cup {None}] /\ replaced \in [Nodes -> Nodes \cup {None}]
      /\ Linked \subseteq Published /\ Closed(Published, next)
      /\ cleaned \subseteq Published \ Linked
      /\ \A n \in Nodes : replaced[n] # None => n \in Published /\ replaced[n] \in Published
  BY NodeFacts, InvFacts, Zenon DEF Inv, Turns
<1>2. /\ Published \subseteq Published' /\ Published' \subseteq Published \cup {g}
      /\ Published \subseteq Nodes /\ Published \subseteq Allocated
      /\ g \in Published' => g \in Published \/ SetHead(g) \/ SwapNode(g)
      /\ SetHead(g) \/ SwapNode(g) => g \in Published'
  BY NewlyPublished, StepKind, InvFacts, Zenon
<1>3. CASE Quiet(g) /\ ~ SetHead(g) /\ ~ SwapNode(g)
  <2>1. Linked' = Linked /\ replaced' = replaced /\ Published' = Published
    BY <1>2, <1>3, QuietReach, Zenon DEF Quiet
  <2>2. \A n \in Published : next'[n] = next[n]
    BY <1>1, <1>2, <1>3, ZenonT(60) DEF Quiet
  <2>3. Closed(Published', next')
    BY <1>1, <2>1, <2>2, Zenon DEF Closed
  <2>4. cleaned' = cleaned \/ (local[g].cur \in Published \ Linked /\ cleaned' = cleaned \cup {local[g].cur})
    <3>1. CASE Clean(g)
      BY <1>1, <3>1, Zenon DEF Clean, Turn, Walk, pc
    <3>2. CASE ~ Clean(g)
      BY <3>2, ZenonT(60) DEF Acts, Insert, Call, Scan, Step, SetHead, AddNum, NewIterator, LoadMin, Compare,
         Advance, NewNode, ReadNext, RemoveNode, SwapNode, SetTail, SubNum, ScanOn
    <3> QED BY <3>1, <3>2
  <2> QED BY <1>1, <2>1, <2>3, <2>4, Zenon
<1>4. CASE SetHead(g)
  <2>1. Linked' = Linked \cup {g} /\ Unseen(g) /\ next' = next /\ replaced' = replaced
    BY <1>4, SetHeadLinks, Zenon
  <2>2. g \notin Published /\ g \in Published'
    BY <1>2, <1>4, <2>1, UnseenFacts
  <2>3. next[g] = head /\ (head # None => head \in Linked) /\ cleaned' = cleaned
    BY <1>1, <1>4, LinkedFacts, Zenon DEF SetHead, Turn, pc
  <2>4. Closed(Published', next')
    BY <1>1, <1>2, <2>1, <2>2, <2>3 DEF Closed
  <2> QED BY <1>1, <1>2, <2>1, <2>2, <2>3, <2>4, Zenon
<1>5. CASE RemoveNode(g) \/ SwapNode(g)
  <2>1. PICK prev, cur, nxt : prev = local[g].prev /\ cur = local[g].cur /\ nxt = local[g].nxt
    BY Zenon
  <2>2. /\ pc(g) = "relink" /\ cleaned' = cleaned
        /\ RemoveNode(g) => IF prev = None THEN next' = next ELSE next' = [next EXCEPT ![prev] = nxt]
        /\ SwapNode(g) => IF prev = None THEN next' = next ELSE next' = [next EXCEPT ![prev] = g]
        /\ SwapNode(g) => local[g].op = "swap"
    BY <1>5, <2>1, Zenon DEF RemoveNode, SwapNode, Relink
  <2>3. /\ cur \in Linked /\ nxt = next[cur]
        /\ prev # None => prev \in Linked /\ prev \in Nodes
        /\ local[g].op = "swap" => next[g] = next[cur]
    BY <2>1, <2>2, RelinkFacts, Zenon
  <2>4. cur \in Published /\ (next[cur] # None => next[cur] \in Published)
    BY <1>1, <2>3 DEF Closed
  <2>5. CASE RemoveNode(g)
    <3>1. Linked' = Linked \ {cur} /\ replaced' = replaced
      BY <2>1, <2>5, RemoveLinks
    <3>2. ~ SetHead(g) /\ ~ SwapNode(g)
      BY <2>5, Zenon DEF RemoveNode, SetHead, SwapNode, pc
    <3>3. Published' = Published
      BY <1>2, <3>2
    <3>4. \A n \in Published : next'[n] = next[n] \/ next'[n] = next[cur]
      BY <1>1, <1>2, <2>2, <2>3, <2>5, Zenon
    <3>5. Closed(Published', next')
      BY <1>1, <2>4, <3>3, <3>4, Zenon DEF Closed
    <3> QED BY <1>1, <2>2, <3>1, <3>3, <3>5, Zenon
  <2>6. CASE SwapNode(g)
    <3>1. Linked' = (Linked \ {cur}) \cup {g} /\ Unseen(g) /\ replaced' = [replaced EXCEPT ![g] = cur]
      BY <2>1, <2>6, SwapLinks, Zenon
    <3>2. g \notin Published /\ g \notin Linked /\ g \in Published'
      BY <1>2, <2>6, <3>1, UnseenFacts, Zenon
    <3>3. \A n \in Published : next'[n] = next[n] \/ next'[n] = g
      BY <1>1, <1>2, <2>2, <2>3, <2>6, Zenon
    <3>4. next'[g] = next[cur]
      BY <1>1, <2>2, <2>3, <2>6, <3>2, Zenon
    <3>5. Closed(Published', next')
      BY <1>1, <1>2, <2>4, <3>2, <3>3, <3>4, Zenon DEF Closed
    <3>6. \A n \in Nodes : replaced'[n] # None => n \in Published' /\ replaced'[n] \in Published'
      BY <1>1, <1>2, <2>4, <3>1, <3>2, Zenon
    <3> QED BY <1>1, <1>2, <2>2, <3>1, <3>2, <3>5, <3>6, ZenonT(60)
  <2> QED BY <1>5, <2>5, <2>6, Zenon
<1> QED BY <1>3, <1>4, <1>5, StepKind, Zenon

(* Taking turns is inductive when only one call may change the list.        *)
LEMMA TurnsInductive ==
    ASSUME Exclusive
    PROVE  Inv /\ Inv' /\ Turns /\ [Next]_vars => Turns'
<1>1. SUFFICES ASSUME Inv, Inv', Turns, [Next]_vars PROVE Turns'
  BY Zenon
<1>2. ASSUME NEW g \in Goroutines, Acts(g) PROVE Turns'
  <2>1. \A a, b \in Mutating' : a = b
    BY <1>1, <1>2, StepAlone
  <2>2. \A h \in Goroutines : Turn(h)'
    BY <1>1, <1>2, OwnTurn, OthersTurn, Zenon
  <2>3. /\ Linked' \subseteq Published' /\ Closed(Published', next')
        /\ cleaned' \subseteq Published' \ Linked'
        /\ \A n \in Nodes : replaced'[n] # None => n \in Published' /\ replaced'[n] \in Published'
    BY <1>1, <1>2, ListTurn, Zenon
  <2> QED BY <2>1, <2>2, <2>3, ZenonT(60) DEF Turns
<1>3. ASSUME UNCHANGED <<head, next, local, cleaned, replaced>> PROVE Turns'
  <2>1. Linked' = Linked /\ Published' = Published /\ Mutating' = Mutating
    BY <1>3, Zenon DEF Linked, Published, Mutating, pc
  <2>2. \A g \in Goroutines : Covers(g) => Covers(g)'
    BY <1>3, <2>1 DEF Covers, Reads, Lineage, pc
  <2>3. \A g \in Goroutines : Turn(g)'
    BY <1>1, <1>3, <2>1, <2>2, ZenonT(60) DEF Turns, Turn
  <2> QED BY <1>1, <1>3, <2>1, <2>3, Zenon DEF Turns
<1>4. CASE \E n \in Nodes : SetMin(n)
  BY <1>3, <1>4 DEF SetMin, list, history
<1>5. CASE Finished \/ UNCHANGED vars
  BY <1>3, <1>5, Zenon DEF Finished, vars, list, history
<1> QED BY <1>1, <1>2, <1>4, <1>5 DEF Next, Acts

(* It holds of the list that NewStorage leaves. *)
LEMMA TurnsInit == Init => Turns
<1>1. SUFFICES ASSUME Init PROVE Turns
  OBVIOUS
<1>2. Inv /\ \A g \in Goroutines : local[g] = NewLocal
  BY <1>1, InvInit DEF Init
<1>3. Mutating = {} /\ Published = Opened /\ Allocated = Opened /\ cleaned = {}
      /\ \A n \in Nodes : replaced[n] = None
  <2>1. \A n \in Nodes : replaced[n] = None
    BY <1>1, Zenon DEF Init
  <2> QED BY <1>1, <1>2, <2>1, NodeFacts, Zenon DEF Mutating, Published, Allocated, NewLocal, Init, pc
<1>4. Linked \subseteq Opened /\ Closed(Opened, next)
  BY <1>2, <1>3, LinkedFacts, InvFacts, Zenon
<1>5. \A g \in Goroutines : Turn(g)
  BY <1>2 DEF Turn, NewLocal, Walking
<1> QED BY <1>3, <1>4, <1>5, Zenon DEF Turns

(* The callers take turns all along. *)
LEMMA TurnsAlways ==
    ASSUME Exclusive
    PROVE  Spec => []Turns
<1>1. Inv /\ Inv' /\ Turns /\ [Next]_vars => Turns'
  BY TurnsInductive
<1> QED BY <1>1, TurnsInit, InvAlways, PTL DEF Spec

(* While the calls that change the list take turns, as they do when the     *)
(* inserting goroutines, the flusher and the expiry ticker do not meet, a   *)
(* scan that overlaps any of them misses no partition that stays.           *)
THEOREM TurnsScanComplete == Exclusive /\ Spec => []ScanComplete
<1>1. SUFFICES ASSUME Exclusive PROVE Spec => []ScanComplete
  BY Zenon
<1>2. Turns => ScanComplete
  <2>1. SUFFICES ASSUME Turns, NEW g \in Goroutines, pc(g) = "done", local[g].op = "scan"
                 PROVE  \A n \in Linked : Lineage(n) \cap local[g].before # {} =>
                           Lineage(n) \cap local[g].visited # {}
    BY Zenon DEF ScanComplete
  <2>2. Covers(g) /\ Reads(g) = local[g].visited
    BY <2>1 DEF Turns, Turn, Reads, pc
  <2> QED BY <2>2, Zenon DEF Covers
<1>3. Spec => []Turns
  BY <1>1, TurnsAlways
<1> QED BY <1>2, <1>3, PTL
-----------------------------------------------------------------------------
(* The sequence of the list's partitions *)

(* Where a call stands in the chain when it relinks *)
LEMMA ChainPlace ==
    ASSUME Inv, Turns, NEW g \in Goroutines, pc(g) = "relink", NEW s, IsChain(s, head, next)
    PROVE  \E i \in 1..Len(s) :
              /\ s[i] = local[g].cur
              /\ i = 1 => local[g].prev = None
              /\ i # 1 => local[g].prev = s[i - 1] /\ local[g].prev # None
<1>1. /\ local[g].cur \in Linked /\ local[g].cur \in Nodes /\ head \in Nodes /\ None \notin Nodes
      /\ local[g].prev = None => head = local[g].cur
      /\ local[g].prev # None => local[g].prev \in Linked /\ next[local[g].prev] = local[g].cur
  BY RelinkFacts, InvFacts, Zenon
<1>2. DOMAIN s = 1..Len(s) /\ 1 \in 1..Len(s) /\ s[1] = head
  BY <1>1, ChainPlaces, Zenon
<1>3. \A n \in Linked : \E i \in 1..Len(s) : n = s[i]
  <2>1. Linked = {s[i] : i \in DOMAIN s}
    BY ChainFacts, Zenon
  <2> QED BY <1>2, <2>1, Zenon
<1>4. CASE local[g].prev = None
  BY <1>1, <1>2, <1>4, Zenon
<1>5. CASE local[g].prev # None
  <2>1. PICK j \in 1..Len(s) : local[g].prev = s[j]
    BY <1>1, <1>3, <1>5, Zenon
  <2>2. next[s[j]] = local[g].cur /\ next[s[j]] # None
    BY <1>1, <1>5, <2>1, Zenon
  <2>3. PICK i \in 1..Len(s) : i # 1 /\ i - 1 = j /\ s[i] = next[s[j]]
    BY <2>2, ChainNext, SMT
  <2> QED BY <1>5, <2>1, <2>2, <2>3, Zenon
<1> QED BY <1>4, <1>5, Zenon

(* The three accesses that change the list *)
Relinks(g) == SetHead(g) \/ RemoveNode(g) \/ SwapNode(g)

(* A step leaves the sequence of partitions alone, or it inserts, removes   *)
(* or swaps one.                                                            *)
LEMMA ChainStep ==
    ASSUME Inv, Inv', Turns, NEW g \in Goroutines, Acts(g), NEW s, IsChain(s, head, next)
    PROVE  \E t : /\ IsChain(t, head', next')
                  /\ \/ ~ Relinks(g) /\ t = s
                     \/ SetHead(g) /\ g \notin Linked /\ t = <<g>> \o s
                     \/ RemoveNode(g) /\ \E i \in DOMAIN s : t = Without(s, i)
                     \/ SwapNode(g) /\ \E old \in Linked : g \notin Linked /\ t = Replaced(s, old, g)
<1>1. /\ next \in [Nodes -> Nodes \cup {None}] /\ None \notin Nodes /\ g \in Nodes /\ Turn(g)
      /\ Linked \subseteq Allocated
  BY InvFacts, NodeFacts, LinkedFacts, Zenon DEF Turns
<1>2. /\ DOMAIN s = 1..Len(s) /\ \A i \in 1..Len(s) : s[i] \in Nodes /\ s[i] \in Linked
      /\ \A i, j \in 1..Len(s) : s[i] = s[j] => i = j
  <2>1. DOMAIN s = 1..Len(s) /\ \A i \in 1..Len(s) : s[i] \in Nodes
    BY ChainPlaces, Zenon
  <2>2. Linked = {s[i] : i \in DOMAIN s} /\ \A i, j \in DOMAIN s : s[i] = s[j] => i = j
    BY ChainFacts, Zenon
  <2> QED BY <2>1, <2>2, Zenon
<1>3. CASE ~ Relinks(g)
  <2>0. Quiet(g)
    BY <1>3, StepKind, Zenon DEF Relinks
  <2>1. head' = head /\ \A i \in 1..Len(s) : next'[s[i]] = next[s[i]]
    <3>1. head' = head /\ \A n \in Allocated : n \in Nodes => next'[n] = next[n]
      BY <1>1, <2>0, ZenonT(60) DEF Quiet
    <3> QED BY <1>1, <1>2, <3>1, Zenon
  <2>2. IsChain(s, head', next')
    BY <2>1, ChainSame, Zenon
  <2> QED BY <1>3, <2>2, Zenon
<1>4. CASE SetHead(g)
  <2>1. head' = g /\ next' = next /\ next[g] = head /\ g \notin Linked
    BY <1>1, <1>4, SetHeadLinks, UnseenFacts, ZenonT(60) DEF SetHead, Turn, pc
  <2>2. IsChain(<<g>> \o s, head', next')
    BY <1>1, <2>1, ChainCons, Zenon
  <2> QED BY <1>4, <2>1, <2>2, Zenon
<1>5. CASE RemoveNode(g)
  <2>1. pc(g) = "relink" /\ local[g].nxt = next[local[g].cur] /\ local[g].prev \in Nodes \cup {None}
    BY <1>5, RelinkFacts, ZenonT(60) DEF RemoveNode
  <2>2. PICK i \in 1..Len(s) : /\ s[i] = local[g].cur
                               /\ i = 1 => local[g].prev = None
                               /\ i # 1 => local[g].prev = s[i - 1] /\ local[g].prev # None
    BY <2>1, ChainPlace, Zenon
  <2>3. /\ i = 1 => next' = next /\ head' = next[s[i]]
        /\ i # 1 => next' = [next EXCEPT ![s[i - 1]] = next[s[i]]] /\ head' = head
    BY <1>5, <2>1, <2>2, Zenon DEF RemoveNode, Relink
  <2>4. Led(s, i, head, next, head', next', next[s[i]])
    BY <1>1, <1>2, <2>3, Zenon DEF Led
  <2>5. IsChain(Without(s, i), head', next')
    BY <1>1, <2>4, ChainWithout, Zenon
  <2> QED BY <1>2, <1>5, <2>5, Zenon
<1>6. CASE SwapNode(g)
  <2>1. pc(g) = "relink" /\ local[g].op = "swap"
    BY <1>6, Zenon DEF SwapNode
  <2>2. next[g] = next[local[g].cur] /\ g \notin Linked /\ local[g].cur \in Linked
    BY <2>1, RelinkFacts, ZenonT(60)
  <2>3. PICK i \in 1..Len(s) : /\ s[i] = local[g].cur
                               /\ i = 1 => local[g].prev = None
                               /\ i # 1 => local[g].prev = s[i - 1] /\ local[g].prev # None
    BY <2>1, ChainPlace, Zenon
  <2>4. /\ i = 1 => next' = next /\ head' = g
        /\ i # 1 => next' = [next EXCEPT ![s[i - 1]] = g] /\ head' = head
    BY <1>6, <2>3, Zenon DEF SwapNode, Relink
  <2>5. (\A j \in 1..Len(s) : s[j] # g) /\ next[g] = next[s[i]]
    BY <1>2, <2>2, <2>3, ZenonT(60)
  <2>6. Led(s, i, head, next, head', next', g)
    BY <1>1, <1>2, <2>4, Zenon DEF Led
  <2>7. IsChain(Replaced(s, s[i], g), head', next')
    BY <1>1, <2>5, <2>6, ChainReplaced, Zenon
  <2> QED BY <1>6, <2>2, <2>3, <2>7, Zenon
<1> QED BY <1>3, <1>4, <1>5, <1>6, Zenon DEF Relinks

(* A step of the list is a step of the sequence, or leaves it alone.        *)
LEMMA ChainImplements ==
    ASSUME Inv, Inv', Unrivalled', Turns, Chained, [Next]_vars
    PROVE  Chained' /\ [Abstract!Next]_Chain
<1>1. PICK s : s = Chain
  BY Zenon
<1>2. IsChain(s, head, next) /\ Linked = {s[i] : i \in DOMAIN s} /\ s \in Seq(Linked)
  BY <1>1, ChainFacts, Zenon DEF Chained
<1>3. Linked \subseteq Nodes
  BY LinkedFacts, Zenon
<1>4. ASSUME NEW t, IsChain(t, head', next') PROVE Chained' /\ Chain' = t
  <2>1. t = Chain'
    BY <1>4, Zenon DEF Unrivalled
  <2> QED BY <1>4, <2>1, Zenon DEF Chained
<1>5. ASSUME NEW g \in Goroutines, Acts(g) PROVE Chained' /\ [Abstract!Next]_Chain
  <2>1. PICK t : /\ IsChain(t, head', next')
                 /\ \/ t = s
                    \/ g \notin Linked /\ t = <<g>> \o s
                    \/ \E i \in DOMAIN s : t = Without(s, i)
                    \/ \E old \in Linked : g \notin Linked /\ t = Replaced(s, old, g)
    BY <1>2, <1>5, ChainStep, ZenonT(60)
  <2>2. Chained' /\ Chain' = t
    BY <1>4, <2>1, Zenon
  <2>3. g \in Nodes
    BY NodeFacts, Zenon
  <2>4. Linked = Abstract!Listed
    BY <1>1, <1>2, Zenon DEF Abstract!Listed
  <2>5. CASE t = s
    BY <1>1, <2>2, <2>5, Zenon
  <2>6. CASE g \notin Linked /\ t = <<g>> \o s
    <3>1. Abstract!Insert(g)
      BY <1>1, <2>2, <2>4, <2>6, Zenon DEF Abstract!Insert
    <3> QED BY <2>2, <2>3, <3>1, Zenon DEF Abstract!Next
  <2>7. ASSUME NEW i \in DOMAIN s, t = Without(s, i) PROVE [Abstract!Next]_Chain
    <3>1. s[i] \in Nodes
      BY <1>2, <1>3, Zenon
    <3>2. Abstract!Remove(s[i])
      BY <1>1, <2>2, <2>7, Zenon DEF Abstract!Remove, Without
    <3> QED BY <3>1, <3>2, Zenon DEF Abstract!Next
  <2>8. ASSUME NEW old \in Linked, g \notin Linked, t = Replaced(s, old, g) PROVE [Abstract!Next]_Chain
    <3>1. Abstract!Swap(old, g)
      BY <1>1, <2>2, <2>4, <2>8, Zenon DEF Abstract!Swap, Replaced
    <3> QED BY <1>3, <2>3, <2>8, <3>1, Zenon DEF Abstract!Next
  <2> QED BY <2>1, <2>2, <2>5, <2>6, <2>7, <2>8, Zenon
<1>6. ASSUME UNCHANGED <<head, next>> PROVE Chained' /\ [Abstract!Next]_Chain
  <2>1. IsChain(s, head', next')
    BY <1>2, <1>6, Zenon
  <2> QED BY <1>1, <1>4, <2>1, Zenon
<1>7. CASE \E n \in Nodes : SetMin(n)
  BY <1>6, <1>7, Zenon DEF SetMin, list
<1>8. CASE Finished \/ UNCHANGED vars
  BY <1>6, <1>8 DEF Finished, vars, list
<1> QED BY <1>5, <1>7, <1>8, Zenon DEF Next, Acts

(* While the calls that change the list take turns, the list is the         *)
(* sequence its interface speaks of: whatever scans and first inserts do    *)
(* beside them, insert, remove and swap change it in the one access that    *)
(* relinks it, and no other access does.                                    *)
THEOREM TurnsRefine == Exclusive /\ Spec => RefinesSequence
<1>1. SUFFICES ASSUME Exclusive PROVE Spec => Abstract!Spec
  BY Zenon DEF RefinesSequence
<1>2. Inv /\ Inv' /\ Unrivalled' /\ Turns /\ Chained /\ [Next]_vars => Chained' /\ [Abstract!Next]_Chain
  BY ChainImplements
<1>3. Spec => []Turns
  BY <1>1, TurnsAlways
<1> QED BY <1>2, <1>3, ChainInit, InvUnrivalled, InvAlways, PTL DEF Spec, Abstract!Spec
-----------------------------------------------------------------------------
(* The number of partitions *)

(* What a call that has relinked the list is still to add to numPartitions  *)
Due(g) ==
    IF local[g].pc = "addNum" THEN 1
    ELSE IF local[g].op = "remove" /\ local[g].pc \in {"setTail", "subNum"} THEN -1 ELSE 0

(* Between calls numPartitions is the length of the list. *)
Counted ==
    /\ numPartitions \in Int
    /\ \A g \in Goroutines : Due(g) # 0 => numPartitions + Due(g) = Len(Chain)
    /\ (\A g \in Goroutines : Due(g) = 0) => numPartitions = Len(Chain)

(* A call that relinks the list owes numPartitions the difference until it  *)
(* has added it.                                                            *)
LEMMA DueStep ==
    ASSUME Inv, NEW g \in Goroutines, Acts(g)
    PROVE  \/ SetHead(g) /\ Due(g) = 0 /\ Due(g)' = 1 /\ numPartitions' = numPartitions
           \/ AddNum(g) /\ Due(g) = 1 /\ Due(g)' = 0 /\ numPartitions' = numPartitions + 1
           \/ RemoveNode(g) /\ Due(g) = 0 /\ Due(g)' = -1 /\ numPartitions' = numPartitions
           \/ SubNum(g) /\ Due(g) = -1 /\ Due(g)' = 0 /\ numPartitions' = numPartitions - 1
           \/ ~ SetHead(g) /\ ~ RemoveNode(g) /\ Due(g)' = Due(g) /\ numPartitions' = numPartitions
<1>1. local \in [Goroutines -> Local] /\ local[g] \in Local /\ Walk(g)
  BY Zenon DEF Inv, TypeOK
<1>2. CASE SetHead(g)
  <2>1. local[g].pc = "setHead" /\ local[g].op = "insert" /\ local'[g].pc = "addNum"
    BY <1>1, <1>2, Zenon DEF SetHead, Goto, Continue, Local, Walk, pc
  <2> QED BY <1>2, <2>1, Zenon DEF SetHead, Due
<1>3. CASE AddNum(g)
  <2>1. local[g].pc = "addNum" /\ local'[g].pc = "done"
    BY <1>1, <1>3, Zenon DEF AddNum, Goto, Continue, Local, pc
  <2> QED BY <1>3, <2>1, Zenon DEF AddNum, Due
<1>4. CASE RemoveNode(g)
  <2>1. /\ local[g].pc = "relink" /\ local'[g].pc \in {"setTail", "subNum"} /\ local'[g].op = "remove"
    BY <1>1, <1>4, Zenon DEF RemoveNode, Relink, Goto, Continue, Local, pc
  <2> QED BY <1>4, <2>1, Zenon DEF RemoveNode, Due
<1>5. CASE SubNum(g)
  <2>1. local[g].pc = "subNum" /\ local[g].op = "remove" /\ local'[g].pc = "clean"
    BY <1>1, <1>5, Zenon DEF SubNum, Goto, Continue, Local, Walk, pc
  <2> QED BY <1>5, <2>1, Zenon DEF SubNum, Due
<1>6. ASSUME Due(g)' = Due(g), numPartitions' = numPartitions, local[g].pc \notin {"setHead", "relink"}
      PROVE  ~ SetHead(g) /\ ~ RemoveNode(g)
  BY <1>6, Zenon DEF SetHead, RemoveNode, pc
<1>7. CASE Insert(g)
  <2>1. local[g].pc = "idle" /\ local'[g].pc = "setHead"
    BY <1>1, <1>7, Zenon DEF Insert, Continue, Local, pc
  <2> QED BY <1>6, <1>7, <2>1, Zenon DEF Insert, Due, list
<1>8. CASE Call(g)
  <2>1. local[g].pc = "idle" /\ local'[g].pc \in {"newIterator", "done"}
    BY <1>1, <1>8 DEF Call, Continue, Local, pc
  <2> QED BY <1>6, <1>8, <2>1, Zenon DEF Call, Due, list
<1>9. CASE Scan(g) \/ ScanOn(g)
  <2>1. local[g].pc \in {"idle", "scan"} /\ local'[g].pc \in {"scan", "done"}
    <3>1. CASE Scan(g)
      BY <1>1, <3>1, Zenon DEF Scan, Visit, Continue, Local, pc
    <3>2. CASE ScanOn(g)
      BY <1>1, <3>2, Zenon DEF ScanOn, Visit, Continue, Local, pc
    <3> QED BY <1>9, <3>1, <3>2, Zenon
  <2> QED BY <1>6, <1>9, <2>1, Zenon DEF Scan, ScanOn, Due, list
<1>10. CASE NewIterator(g) \/ LoadMin(g) \/ Compare(g) \/ Advance(g) \/ NewNode(g) \/ ReadNext(g)
  <2>1. /\ local[g].pc \in {"newIterator", "loadMin", "compare", "advance", "matched", "readNext"}
        /\ local'[g].pc \in Walking \cup {"done"}
    <3>1. CASE NewIterator(g)
      <4>1. local[g].pc = "newIterator" /\ local'[g].pc = IF head = None THEN "done" ELSE "loadMin"
        BY <1>1, <3>1 DEF NewIterator, Continue, Local, pc
      <4> QED BY <4>1, Zenon DEF Walking
    <3>2. CASE LoadMin(g)
      BY <1>1, <3>2, Zenon DEF LoadMin, Continue, Local, Walking, pc
    <3>5. CASE Compare(g)
      BY <1>1, <3>5, ZenonT(60) DEF Compare, Goto, Continue, Local, Walking, pc
    <3>3. CASE Advance(g)
      <4>1. /\ local[g].pc = "advance"
            /\ local'[g].pc = IF next[local[g].cur] = None THEN "done" ELSE "loadMin"
        BY <1>1, <3>3 DEF Advance, Continue, Local, pc
      <4> QED BY <4>1, Zenon DEF Walking
    <3>4. CASE NewNode(g)
      BY <1>1, <3>4, Zenon DEF NewNode, Goto, Continue, Local, Walking, pc
    <3>6. CASE ReadNext(g)
      BY <1>1, <3>6, Zenon DEF ReadNext, Continue, Local, Walking, pc
    <3> QED BY <1>10, <3>1, <3>2, <3>3, <3>4, <3>5, <3>6, Zenon
  <2> QED BY <1>6, <1>10, <2>1, Zenon DEF NewIterator, LoadMin, Compare, Advance, NewNode, ReadNext,
          Due, Walking, list
<1>11. CASE SwapNode(g)
  <2>1. /\ local[g].pc = "relink" /\ local[g].op = "swap" /\ local'[g].op = "swap"
        /\ local'[g].pc \in {"setTail", "done"}
    BY <1>1, <1>11, Zenon DEF SwapNode, Relink, Goto, Continue, Local, pc
  <2> QED BY <1>11, <2>1, Zenon DEF SwapNode, SetHead, RemoveNode, Due, pc
<1>12. CASE SetTail(g)
  <2>1. /\ local[g].pc = "setTail" /\ local'[g].op = local[g].op
        /\ \/ local[g].op = "remove" /\ local'[g].pc = "subNum"
           \/ local[g].op = "swap" /\ local'[g].pc = "done"
    BY <1>1, <1>12, Zenon DEF SetTail, Goto, Continue, Local, pc
  <2> QED BY <1>6, <1>12, <2>1, Zenon DEF SetTail, Due
<1>13. CASE Clean(g)
  <2>1. local[g].pc = "clean" /\ local'[g].pc = "done"
    BY <1>1, <1>13, Zenon DEF Clean, Goto, Continue, Local, pc
  <2> QED BY <1>6, <1>13, <2>1, Zenon DEF Clean, Due, list
<1> QED BY <1>2, <1>3, <1>4, <1>5, <1>7, <1>8, <1>9, <1>10, <1>11, <1>12, <1>13, Zenon DEF Acts, Step

(* The length of the list changes with the relinking. *)
LEMMA ChainLength ==
    ASSUME Inv, Inv', Turns, Chained, NEW g \in Goroutines, Acts(g)
    PROVE  /\ Len(Chain) \in Nat
           /\ Len(Chain)' = IF SetHead(g) THEN Len(Chain) + 1
                            ELSE IF RemoveNode(g) THEN Len(Chain) - 1 ELSE Len(Chain)
<1>1. PICK s : s = Chain /\ IsChain(s, head, next)
  BY Zenon DEF Chained
<1>2. s \in Seq(Nodes)
  BY <1>1, Zenon DEF IsChain
<1>3. PICK t : /\ IsChain(t, head', next')
               /\ \/ ~ Relinks(g) /\ t = s
                  \/ SetHead(g) /\ t = <<g>> \o s
                  \/ RemoveNode(g) /\ \E i \in DOMAIN s : t = Without(s, i)
                  \/ SwapNode(g) /\ \E old \in Linked : t = Replaced(s, old, g)
  BY <1>1, ChainStep, ZenonT(60)
<1>4. t = Chain'
  <2>1. (Inv => Unrivalled)'
    BY InvUnrivalled, PTL
  <2> QED BY <1>3, <2>1, Zenon DEF Unrivalled
<1>5. Len(<<g>> \o s) = Len(s) + 1 /\ Len(s) \in Nat
  <2>1. g \in Nodes
    BY NodeFacts, Zenon
  <2> QED BY <1>2, <2>1, SMT
<1>6. \A i \in DOMAIN s : Len(Without(s, i)) = Len(s) - 1
  BY <1>2 DEF Without
<1>7. \A old : Len(Replaced(s, old, g)) = Len(s)
  BY <1>2 DEF Replaced
<1>8. /\ ~ (SetHead(g) /\ RemoveNode(g)) /\ ~ (SetHead(g) /\ SwapNode(g))
      /\ ~ (RemoveNode(g) /\ SwapNode(g))
  BY Zenon DEF SetHead, RemoveNode, SwapNode, pc
<1> QED BY <1>1, <1>3, <1>4, <1>5, <1>6, <1>7, <1>8, Zenon DEF Relinks

(* What one call owes and the list's length change together. *)
LEMMA CountedStep ==
    ASSUME Inv, Inv', Turns, Exclusive, Chained, Counted, NEW g \in Goroutines, Acts(g)
    PROVE  Counted'
<1>1. \A h \in Goroutines : h # g => Due(h)' = Due(h)
  <2>1. \A h \in Goroutines : h # g => local'[h] = local[h]
    BY StepAlone, Zenon
  <2> QED BY <2>1, Zenon DEF Due
<1>2. ASSUME g \in Mutating PROVE \A h \in Goroutines : h # g => Due(h) = 0
  <2>1. SUFFICES ASSUME NEW h \in Goroutines, h # g, Due(h) # 0 PROVE FALSE
    BY Zenon
  <2>2. local[h].pc \in {"addNum", "setTail", "subNum"} /\ Walk(h)
    BY <2>1, Zenon DEF Due, Inv
  <2>3. h \in Mutating
    BY <2>2, Zenon DEF Walk, Mutating, pc
  <2> QED BY <1>2, <2>1, <2>3, Zenon DEF Turns
<1>3. PICK n, m : n = Len(Chain) /\ m = Len(Chain)'
  BY Zenon
<1>4. n \in Nat /\ m = IF SetHead(g) THEN n + 1 ELSE IF RemoveNode(g) THEN n - 1 ELSE n
  BY <1>3, ChainLength, Zenon
<1>5. CASE ~ SetHead(g) /\ ~ RemoveNode(g) /\ Due(g)' = Due(g) /\ numPartitions' = numPartitions
  <2>1. m = n
    BY <1>4, <1>5, Zenon
  <2>2. \A h \in Goroutines : Due(h)' = Due(h)
    BY <1>1, <1>5, Zenon
  <2> QED BY <1>3, <1>5, <2>1, <2>2, Zenon DEF Counted
<1>6. ASSUME g \in Mutating, numPartitions' \in Int, numPartitions' + Due(g)' = m, numPartitions' + 0 = numPartitions'
      PROVE  Counted'
  <2>1. \A h \in Goroutines : h # g => Due(h)' = 0
    BY <1>1, <1>2, <1>6, Zenon
  <2>2. \A h \in Goroutines : Due(h)' # 0 => numPartitions' + Due(h)' = Len(Chain)'
    BY <1>3, <1>6, <2>1, Zenon
  <2>3. Due(g)' = 0 => numPartitions' = m
    BY <1>6, Zenon
  <2> QED BY <1>3, <1>6, <2>2, <2>3, Zenon DEF Counted
<1>7. ASSUME g \in Mutating PROVE numPartitions \in Int /\ numPartitions + Due(g) = n
  <2>1. numPartitions \in Int /\ (Due(g) # 0 => numPartitions + Due(g) = n)
    BY <1>3, Zenon DEF Counted
  <2>2. Due(g) = 0 => numPartitions = n
    BY <1>2, <1>3, <1>7, Zenon DEF Counted
  <2> QED BY <1>4, <2>1, <2>2
<1>8. SetHead(g) \/ AddNum(g) \/ RemoveNode(g) \/ SubNum(g) => g \in Mutating
  BY Zenon DEF SetHead, AddNum, RemoveNode, SubNum, Mutating, Inv, Walk, pc
<1>9. AddNum(g) \/ SubNum(g) => ~ SetHead(g) /\ ~ RemoveNode(g)
  BY Zenon DEF SetHead, AddNum, RemoveNode, SubNum, pc
<1>10. SetHead(g) => ~ RemoveNode(g)
  BY Zenon DEF SetHead, RemoveNode, pc
<1>11. CASE SetHead(g) /\ Due(g) = 0 /\ Due(g)' = 1 /\ numPartitions' = numPartitions
  BY <1>4, <1>6, <1>7, <1>8, <1>11
<1>12. CASE AddNum(g) /\ Due(g) = 1 /\ Due(g)' = 0 /\ numPartitions' = numPartitions + 1
  BY <1>4, <1>6, <1>7, <1>8, <1>9, <1>12
<1>13. CASE RemoveNode(g) /\ Due(g) = 0 /\ Due(g)' = -1 /\ numPartitions' = numPartitions
  BY <1>4, <1>6, <1>7, <1>8, <1>10, <1>13
<1>14. CASE SubNum(g) /\ Due(g) = -1 /\ Due(g)' = 0 /\ numPartitions' = numPartitions - 1
  BY <1>4, <1>6, <1>7, <1>8, <1>9, <1>14
<1> QED BY <1>5, <1>11, <1>12, <1>13, <1>14, DueStep, Zenon

LEMMA CountedInductive ==
    ASSUME Exclusive
    PROVE  Inv /\ Inv' /\ Turns /\ Chained /\ Counted /\ [Next]_vars => Counted'
<1>1. SUFFICES ASSUME Inv, Inv', Turns, Chained, Counted, [Next]_vars PROVE Counted'
  BY Zenon
<1>2. ASSUME NEW g \in Goroutines, Acts(g) PROVE Counted'
  BY <1>1, <1>2, CountedStep, Zenon
<1>3. ASSUME UNCHANGED <<head, next, numPartitions, local>> PROVE Counted'
  <2>1. Chain' = Chain
    <3>1. IsChain(Chain, head', next')
      BY <1>1, <1>3, Zenon DEF Chained
    <3>2. (Inv => Unrivalled)'
      BY InvUnrivalled, PTL
    <3> QED BY <1>1, <3>1, <3>2, Zenon DEF Unrivalled
  <2>2. \A g \in Goroutines : Due(g)' = Due(g)
    BY <1>3, Zenon DEF Due
  <2> QED BY <1>1, <1>3, <2>1, <2>2, Zenon DEF Counted
<1>4. CASE \E n \in Nodes : SetMin(n)
  BY <1>3, <1>4, Zenon DEF SetMin, list, history
<1>5. CASE Finished \/ UNCHANGED vars
  BY <1>3, <1>5, Zenon DEF Finished, vars, list, history
<1> QED BY <1>1, <1>2, <1>4, <1>5, Zenon DEF Next, Acts

LEMMA CountedInit == Init => Counted
<1>1. SUFFICES ASSUME Init PROVE Counted
  OBVIOUS
<1>2. \A g \in Goroutines : Due(g) = 0
  BY <1>1 DEF Init, NewLocal, Due
<1>3. Len(Chain) = NumOpened /\ NumOpened \in Nat
  <2>1. Chain = [i \in 1..NumOpened |-> NumOpened + 1 - i]
    BY <1>1, ChainInit, Zenon DEF Abstract!Init
  <2>2. NumOpened \in Nat
    BY NumOpenedAssumption
  <2> QED BY <2>1, <2>2
<1>4. numPartitions = NumOpened
  BY <1>1, Zenon DEF Init
<1> QED BY <1>2, <1>3, <1>4 DEF Counted

(* No call finds the list empty that is not. *)
Sized == Mutating = {} /\ Linked # {} => ~ (numPartitions <= 0)

LEMMA SizedAlways ==
    ASSUME Exclusive
    PROVE  Spec => []Sized
<1>1. Inv /\ Chained /\ Counted => Sized
  <2>1. SUFFICES ASSUME Inv, Chained, Counted, Mutating = {}, Linked # {} PROVE ~ (numPartitions <= 0)
    BY Zenon DEF Sized
  <2>2. \A g \in Goroutines : Due(g) = 0
    <3>1. SUFFICES ASSUME NEW g \in Goroutines, Due(g) # 0 PROVE FALSE
      BY Zenon
    <3>2. local[g].pc \in {"addNum", "setTail", "subNum"} /\ Walk(g)
      BY <2>1, <3>1, Zenon DEF Due, Inv
    <3> QED BY <2>1, <3>2, Zenon DEF Walk, Mutating, pc
  <2>3. numPartitions = Len(Chain)
    BY <2>1, <2>2, Zenon DEF Counted
  <2>4. Chain \in Seq(Linked) /\ Linked = {Chain[i] : i \in DOMAIN Chain}
    BY <2>1, ChainFacts, Zenon DEF Chained
  <2>5. PICK s : s = Chain
    BY Zenon
  <2>6. s \in Seq(Linked) /\ DOMAIN s # {} /\ numPartitions = Len(s)
    BY <2>1, <2>3, <2>4, <2>5, Zenon
  <2> QED BY <2>6
<1>2. Inv /\ Inv' /\ Turns /\ Chained /\ Counted /\ [Next]_vars => Counted'
  BY CountedInductive
<1>3. Inv /\ Inv' /\ Unrivalled' /\ Turns /\ Chained /\ [Next]_vars => Chained'
  BY ChainImplements, Zenon
<1> QED BY <1>1, <1>2, <1>3, TurnsAlways, ChainInit, CountedInit, InvUnrivalled, InvAlways, PTL DEF Spec
-----------------------------------------------------------------------------
(* Partitions with different minima *)

(* The minima the partitions get tell them apart. *)
MinsDiffer == \A m, n \in Nodes : MinOf[m] = MinOf[n] => m = n

Found == {"matched", "readNext", "relink", "setTail", "subNum", "clean", "done"}

(* A walk for a partition that has a minimum has it ahead until it is there. *)
Aim(g) ==
    LET l == local[g]
    IN  /\ l.op = "swap" => l.target \in l.before
        /\ Named(g) =>
              /\ l.target \in Nodes /\ min[l.target] # 0
              /\ l.pc \in Walking \cup {"newIterator"} => l.target \in Linked
              /\ l.pc \in {"loadMin", "compare", "advance"} => l.target \in Reach(l.cur, next)
              /\ l.pc = "compare" =>
                    l.curMin \in {0, min[l.cur]} /\ (l.cur = l.target => l.curMin = min[l.cur])
              /\ l.pc = "advance" => l.cur # l.target
              /\ l.pc \in Found => l.cur = l.target

(* Every minimum is that of a generation, and the swaps are as named. *)
Aims ==
    /\ \A n \in Nodes : min[n] # 0 =>
          n \in Allocated /\ \E r \in Allocated : rank[r] = rank[n] /\ min[n] = MinOf[r]
    /\ SwapsTarget
    /\ \A g \in Goroutines : Aim(g)

(* samePartitions is then equality on the partitions of the list that have  *)
(* a minimum.                                                               *)
LEMMA SameMin ==
    ASSUME Inv, Aims, MinsDiffer, NEW x \in Linked, NEW y \in Linked, min[x] = min[y], min[x] # 0
    PROVE  x = y
<1>1. x \in Nodes /\ y \in Nodes /\ Allocated \subseteq Nodes
  BY LinkedFacts, InvFacts, Zenon
<1>2. PICK r \in Allocated : rank[r] = rank[x] /\ min[x] = MinOf[r]
  BY <1>1, Zenon DEF Aims
<1>3. PICK s \in Allocated : rank[s] = rank[y] /\ min[y] = MinOf[s]
  BY <1>1 DEF Aims
<1>4. r = s
  BY <1>1, <1>2, <1>3, Zenon DEF MinsDiffer
<1> QED BY <1>2, <1>3, <1>4, LinkedRanks, Zenon

(* Only a call that allocates a node sets its minimum. *)
LEMMA MinStep ==
    ASSUME Inv, NEW g \in Goroutines, Acts(g)
    PROVE  /\ min' = min \/ Insert(g) \/ NewNode(g)
           /\ Insert(g) \/ NewNode(g) =>
                 /\ g \notin Allocated /\ Quiet(g)
                 /\ \A n \in Nodes : n # g => min'[n] = min[n]
<1>1. /\ Walk(g) /\ min \in [Nodes -> Nat] /\ g \in Nodes /\ g \notin Opened
  BY NodeFacts DEF Inv, TypeOK
<1>2. min' = min \/ Insert(g) \/ NewNode(g)
  BY Zenon DEF Acts, Call, Scan, Step, SetHead, AddNum, NewIterator, LoadMin, Compare,
     Advance, ReadNext, RemoveNode, SwapNode, SetTail, SubNum, Clean, ScanOn
<1>3. ASSUME Insert(g)
      PROVE  g \notin Allocated /\ Quiet(g) /\ \A n \in Nodes : n # g => min'[n] = min[n]
  <2>1. g \notin Allocated
    BY <1>1, <1>3 DEF Insert, Allocated, Walk, NewLocal, pc
  <2>2. Quiet(g)
    BY <1>1, <1>3, <2>1, Zenon DEF Insert, Quiet, list
  <2>3. \A n \in Nodes : n # g => min'[n] = min[n]
    BY <1>1, <1>3, Zenon DEF Insert
  <2> QED BY <2>1, <2>2, <2>3, Zenon
<1>4. ASSUME NewNode(g)
      PROVE  g \notin Allocated /\ Quiet(g) /\ \A n \in Nodes : n # g => min'[n] = min[n]
  <2>1. g \notin Allocated
    BY <1>1, <1>4 DEF NewNode, Allocated, pc
  <2>2. Quiet(g)
    BY <1>1, <1>4, <2>1, Zenon DEF NewNode, Quiet, list
  <2>3. \A n \in Nodes : n # g => min'[n] = min[n]
    BY <1>1, <1>4, Zenon DEF NewNode
  <2> QED BY <2>1, <2>2, <2>3
<1> QED BY <1>2, <1>3, <1>4, Zenon

(* A minimum once set stays. *)
LEMMA MinKept ==
    ASSUME Inv, Aims, NEW g \in Goroutines, Acts(g), NEW n \in Nodes, min[n] # 0
    PROVE  min'[n] = min[n]
<1>1. n \in Allocated
  BY Zenon DEF Aims
<1>2. CASE Insert(g) \/ NewNode(g)
  BY <1>1, <1>2, MinStep, Zenon
<1> QED BY <1>2, MinStep, Zenon

(* A call keeps to what it was called with. *)
LEMMA NameKept ==
    ASSUME Inv, NEW g \in Goroutines, Step(g)
    PROVE  /\ local'[g].op = local[g].op /\ local'[g].target = local[g].target
           /\ local'[g].before = local[g].before
<1>1. local \in [Goroutines -> Local] /\ local[g] \in Local
  BY Zenon DEF Inv, TypeOK
<1>2. CASE SetHead(g)
  BY <1>1, <1>2, Zenon DEF SetHead, Goto, Continue, Local
<1>3. CASE AddNum(g)
  BY <1>1, <1>3, Zenon DEF AddNum, Goto, Continue, Local
<1>4. CASE NewIterator(g)
  BY <1>1, <1>4, Zenon DEF NewIterator, Continue, Local
<1>5. CASE LoadMin(g)
  BY <1>1, <1>5, Zenon DEF LoadMin, Continue, Local
<1>6. CASE Compare(g)
  BY <1>1, <1>6, Zenon DEF Compare, Goto, Continue, Local
<1>7. CASE Advance(g)
  BY <1>1, <1>7, Zenon DEF Advance, Continue, Local
<1>8. CASE NewNode(g)
  BY <1>1, <1>8, Zenon DEF NewNode, Goto, Continue, Local
<1>9. CASE ReadNext(g)
  BY <1>1, <1>9, Zenon DEF ReadNext, Continue, Local
<1>10. CASE RemoveNode(g)
  BY <1>1, <1>10, Zenon DEF RemoveNode, Relink, Goto, Continue, Local
<1>11. CASE SwapNode(g)
  BY <1>1, <1>11, Zenon DEF SwapNode, Relink, Goto, Continue, Local
<1>12. CASE SetTail(g)
  BY <1>1, <1>12, Zenon DEF SetTail, Goto, Continue, Local
<1>13. CASE SubNum(g)
  BY <1>1, <1>13, Zenon DEF SubNum, Goto, Continue, Local
<1>14. CASE Clean(g)
  BY <1>1, <1>14, Zenon DEF Clean, Goto, Continue, Local
<1>15. CASE ScanOn(g)
  BY <1>1, <1>15, Zenon DEF ScanOn, Visit, Continue, Local
<1> QED BY <1>2, <1>3, <1>4, <1>5, <1>6, <1>7, <1>8, <1>9, <1>10, <1>11, <1>12, <1>13, <1>14, <1>15, Zenon DEF Step

(* A call begins with its target in the list, and does not give up at once. *)
LEMMA CallAims ==
    ASSUME Inv, Sized, Exclusive, NEW g \in Goroutines, Call(g)
    PROVE  Aim(g)'
<1>1. local \in [Goroutines -> Local] /\ local[g] \in Local /\ Linked \subseteq Nodes
  BY LinkedFacts, Zenon DEF Inv, TypeOK
<1>2. Mutating = {} /\ Linked' = Linked /\ min' = min
  BY Zenon DEF Call, MayMutate, Linked, list
<1>3. PICK op \in {"remove", "swap"}, t \in Targets :
         /\ op = "swap" => min[t] # 0
         /\ local' = [local EXCEPT ![g] =
                       [local[g] EXCEPT !.pc = IF numPartitions <= 0 THEN "done" ELSE "newIterator",
                                        !.op = op, !.target = t,
                                        !.before = {n \in {t} : min[n] # 0}]]
  BY Zenon DEF Call, Continue
<1>4. t \in Linked
  BY Zenon DEF Targets
<1>5. ~ (numPartitions <= 0)
  BY <1>2, <1>4, Zenon DEF Sized
<1>6. /\ local'[g].pc = "newIterator" /\ local'[g].op = op /\ local'[g].target = t
      /\ local'[g].before = {n \in {t} : min[n] # 0}
  BY <1>1, <1>3, <1>5 DEF Local
<1>7. local'[g].pc \notin {"loadMin", "compare", "advance"} /\ local'[g].pc \notin Found
  BY <1>6, Zenon DEF Found
<1>8. Named(g)' => min'[t] # 0
  BY <1>2, <1>6, Zenon DEF Named
<1>9. op = "swap" => t \in local'[g].before
  BY <1>3, <1>6, Zenon
<1>10. t \in Nodes /\ t \in Linked'
  BY <1>1, <1>2, <1>4, Zenon
<1>11. local'[g].op = "swap" => local'[g].target \in local'[g].before
  BY <1>6, <1>9, Zenon
<1> QED BY <1>6, <1>7, <1>8, <1>10, <1>11, Zenon DEF Aim

(* A walk gets to its target. *)
LEMMA WalkAims ==
    ASSUME Inv, Inv', Turns, Aims, MinsDiffer, NEW g \in Goroutines, Step(g)
    PROVE  Aim(g)'
<1>1. /\ local \in [Goroutines -> Local] /\ local[g] \in Local /\ Walk(g) /\ Turn(g) /\ Aim(g) /\ Acts(g)
      /\ next \in [Nodes -> Nodes \cup {None}] /\ Linked \subseteq Nodes /\ None \notin Nodes
  BY LinkedFacts, InvFacts, Zenon DEF Inv, TypeOK, Turns, Aims, Acts
<1>2. PICK t : t = local[g].target
  OBVIOUS
<1>3. /\ local'[g].op = local[g].op /\ local'[g].target = t
      /\ local'[g].before = local[g].before /\ Named(g)' = Named(g)
  BY <1>2, NameKept, Zenon DEF Named
<1>4. CASE ~ Named(g)
  BY <1>1, <1>2, <1>3, <1>4, Zenon DEF Aim
<1>5. SUFFICES ASSUME Named(g) PROVE Aim(g)'
  BY <1>4, Zenon
<1>6. /\ local[g].op \in {"remove", "swap"} /\ t \in local[g].before
      /\ t \in Nodes /\ min[t] # 0 /\ min'[t] # 0
      /\ local[g].pc \in Walking \cup {"newIterator"} => t \in Linked
      /\ local[g].pc \in {"loadMin", "compare", "advance"} => t \in Reach(local[g].cur, next)
      /\ local[g].pc = "compare" =>
            local[g].curMin \in {0, min[local[g].cur]} /\ (local[g].cur = t => local[g].curMin = min[local[g].cur])
      /\ local[g].pc = "advance" => local[g].cur # t
      /\ local[g].pc \in Found => local[g].cur = t
  <2>1. t \in Nodes /\ min[t] # 0
    BY <1>1, <1>2, <1>5, Zenon DEF Aim
  <2>2. min'[t] = min[t]
    BY <1>1, <2>1, MinKept, Zenon
  <2> QED BY <1>1, <1>2, <1>5, <2>1, <2>2, Zenon DEF Aim, Named
<1>7. ASSUME local'[g].pc \in {"setTail", "subNum", "clean", "done"}, local'[g].cur = t
      PROVE  Aim(g)'
  <2>1. local'[g].pc \notin Walking \cup {"newIterator"} /\ local'[g].pc \notin {"loadMin", "compare", "advance"}
    BY <1>7, Zenon DEF Walking
  <2> QED BY <1>3, <1>6, <1>7, <2>1, Zenon DEF Aim
<1>8. ASSUME Linked' = Linked, t \in Linked, local'[g].pc \in {"matched", "readNext", "relink"}, local'[g].cur = t
      PROVE  Aim(g)'
  <2>1. local'[g].pc \notin {"loadMin", "compare", "advance"}
    BY <1>8, Zenon
  <2> QED BY <1>3, <1>6, <1>8, <2>1, Zenon DEF Aim
<1>9. ASSUME UNCHANGED <<head, next>>, t \in Linked, local'[g].pc \in {"loadMin", "compare", "advance"},
             t \in Reach(local'[g].cur, next),
             local'[g].pc = "compare" => local'[g].curMin = min'[local'[g].cur],
             local'[g].pc = "advance" => local'[g].cur # t
      PROVE  Aim(g)'
  <2>1. local'[g].pc \notin Found
    BY <1>9, Zenon DEF Found
  <2>2. t \in Linked' /\ t \in Reach(local'[g].cur, next')
    BY <1>9, Zenon DEF Linked
  <2> QED BY <1>3, <1>6, <1>9, <2>1, <2>2, Zenon DEF Aim
<1>10. CASE SetHead(g) \/ AddNum(g) \/ ScanOn(g)
  BY <1>1, <1>6, <1>10, Zenon DEF SetHead, AddNum, ScanOn, Walk, pc
<1>11. CASE NewIterator(g)
  <2>1. t \in Linked
    BY <1>6, <1>11, Zenon DEF NewIterator, pc
  <2>2. head # None /\ Linked = Reach(head, next)
    BY <2>1, LinkedFacts, Zenon
  <2>3. local'[g].pc = "loadMin" /\ local'[g].cur = head /\ UNCHANGED <<head, next>>
    BY <1>1, <1>11, <2>2, Zenon DEF NewIterator, Continue, Local, list
  <2> QED BY <1>9, <2>1, <2>2, <2>3, Zenon
<1>12. CASE LoadMin(g)
  <2>1. /\ local[g].pc = "loadMin" /\ local'[g].pc = "compare" /\ local'[g].cur = local[g].cur
        /\ local'[g].curMin = min[local[g].cur] /\ UNCHANGED <<head, next, min>>
    BY <1>1, <1>12, Zenon DEF LoadMin, Continue, Local, list, pc
  <2> QED BY <1>6, <1>9, <2>1, Zenon DEF Walking
<1>13. CASE Compare(g)
  <2>1. /\ local[g].pc = "compare" /\ local'[g].cur = local[g].cur /\ UNCHANGED <<head, next, min>>
        /\ local'[g].pc = IF local[g].curMin = min[t] THEN "matched" ELSE "advance"
    BY <1>1, <1>2, <1>13 DEF Compare, Goto, Continue, Local, list, pc
  <2>2. local[g].cur \in Linked /\ t \in Linked
    BY <1>1, <1>6, <2>1, Zenon DEF Turn, Walking
  <2>3. CASE local[g].curMin = min[t]
    <3>1. local[g].cur = t
      BY <1>6, <2>1, <2>2, <2>3, SameMin, Zenon
    <3>2. Linked' = Linked
      BY <2>1, Zenon DEF Linked
    <3> QED BY <1>8, <2>1, <2>2, <2>3, <3>1, <3>2, Zenon
  <2>4. CASE local[g].curMin # min[t]
    <3>1. local[g].cur # t /\ local'[g].pc = "advance"
      BY <1>6, <2>1, <2>4, Zenon
    <3> QED BY <1>6, <1>9, <2>1, <2>2, <3>1, Zenon
  <2> QED BY <2>3, <2>4, Zenon
<1>14. CASE Advance(g)
  <2>1. /\ local[g].pc = "advance" /\ local'[g].cur = next[local[g].cur] /\ UNCHANGED <<head, next>>
        /\ local'[g].pc = IF next[local[g].cur] = None THEN "done" ELSE "loadMin"
    BY <1>1, <1>14 DEF Advance, Continue, Local, list, pc
  <2>2. local[g].cur \in Nodes /\ t \in Linked
    BY <1>1, <1>6, <2>1, Zenon DEF Turn, Walking
  <2>3. Reach(local[g].cur, next) =
           {local[g].cur} \cup (IF next[local[g].cur] = None THEN {} ELSE Reach(next[local[g].cur], next))
    BY <1>1, <2>2, ReachNext, Zenon
  <2>4. next[local[g].cur] # None /\ t \in Reach(next[local[g].cur], next)
    BY <1>6, <2>1, <2>3, Zenon
  <2> QED BY <1>9, <2>1, <2>2, <2>4, Zenon
<1>15. CASE NewNode(g)
  <2>1. local[g].pc = "matched" /\ local'[g].pc = "readNext" /\ local'[g].cur = local[g].cur
    BY <1>1, <1>15, Zenon DEF NewNode, Goto, Continue, Local, pc
  <2>2. Linked' = Linked
    BY <1>1, <1>15, MinStep, QuietReach, Zenon
  <2>3. local[g].cur = t /\ t \in Linked
    BY <1>6, <2>1, Zenon DEF Found, Walking
  <2> QED BY <1>8, <2>1, <2>2, <2>3, Zenon
<1>16. CASE ReadNext(g)
  <2>1. /\ local[g].pc \in {"matched", "readNext"} /\ local'[g].pc = "relink" /\ local'[g].cur = local[g].cur
        /\ UNCHANGED <<head, next>>
    BY <1>1, <1>16, Zenon DEF ReadNext, Continue, Local, list, pc
  <2>2. local[g].cur = t /\ t \in Linked /\ Linked' = Linked
    BY <1>6, <2>1, Zenon DEF Found, Walking, Linked
  <2> QED BY <1>8, <2>1, <2>2, Zenon
<1>17. CASE RemoveNode(g) \/ SwapNode(g)
  <2>1. /\ local[g].pc = "relink" /\ local'[g].pc \in {"setTail", "subNum", "done"}
        /\ local'[g].cur = local[g].cur
    <3>1. CASE RemoveNode(g)
      BY <1>1, <3>1, Zenon DEF RemoveNode, Relink, Goto, Continue, Local, pc
    <3>2. CASE SwapNode(g)
      BY <1>1, <3>2, Zenon DEF SwapNode, Relink, Goto, Continue, Local, pc
    <3> QED BY <1>17, <3>1, <3>2, Zenon
  <2> QED BY <1>6, <1>7, <2>1, Zenon DEF Found
<1>18. CASE SetTail(g) \/ SubNum(g) \/ Clean(g)
  <2>1. /\ local[g].pc \in {"setTail", "subNum", "clean"} /\ local'[g].pc \in {"subNum", "clean", "done"}
        /\ local'[g].cur = local[g].cur
    <3>1. CASE SetTail(g)
      <4>1. PICK label \in {"subNum", "done"} : local' = [local EXCEPT ![g] = [local[g] EXCEPT !.pc = label]]
        BY <3>1, Zenon DEF SetTail, Goto, Continue
      <4>2. local'[g] = [local[g] EXCEPT !.pc = label]
        BY <1>1, <4>1, Zenon
      <4>3. local'[g].pc = label /\ local'[g].cur = local[g].cur
        BY <1>1, <4>2, Zenon DEF Local
      <4>4. local[g].pc = "setTail"
        BY <3>1, Zenon DEF SetTail, pc
      <4> QED BY <4>3, <4>4
    <3>2. CASE SubNum(g)
      BY <1>1, <3>2, Zenon DEF SubNum, Goto, Continue, Local, pc
    <3>3. CASE Clean(g)
      BY <1>1, <3>3, Zenon DEF Clean, Goto, Continue, Local, pc
    <3> QED BY <1>18, <3>1, <3>2, <3>3, Zenon
  <2> QED BY <1>6, <1>7, <2>1, Zenon DEF Found
<1> QED BY <1>10, <1>11, <1>12, <1>13, <1>14, <1>15, <1>16, <1>17, <1>18, Zenon DEF Step

(* The other calls keep to their targets. *)
LEMMA OthersAim ==
    ASSUME Inv, Turns, Aims, Exclusive, NEW g \in Goroutines, Acts(g),
           NEW h \in Goroutines, h # g
    PROVE  Aim(h)'
<1>1. /\ local'[h] = local[h] /\ Aim(h) /\ Walk(h)
      /\ UNCHANGED <<head, next, min>> \/ \A k \in Mutating : k = g
  BY StepAlone DEF Aims, Inv
<1>2. PICK l : l = local[h]
  OBVIOUS
<1>3. CASE UNCHANGED <<head, next, min>>
  <2>1. Linked' = Linked
    BY <1>3, Zenon DEF Linked
  <2> QED BY <1>1, <1>2, <1>3, <2>1, Zenon DEF Aim, Named
<1>4. CASE \A k \in Mutating : k = g
  <2>1. ASSUME Named(h) PROVE l.pc = "done" /\ min'[l.target] # 0
    <3>1. l.pc \in {"idle", "done"}
      BY <1>2, <1>4, <2>1, Zenon DEF Mutating, Named, pc
    <3>2. l.pc # "idle"
      <4>1. l.pc = "idle" => l = NewLocal
        BY <1>1, <1>2, Zenon DEF Walk
      <4>2. NewLocal.op \notin {"remove", "swap"}
        BY DEF NewLocal
      <4>3. l.op \in {"remove", "swap"}
        BY <1>2, <2>1, Zenon DEF Named
      <4> QED BY <4>1, <4>2, <4>3, Zenon
    <3>3. l.target \in Nodes /\ min[l.target] # 0
      BY <1>1, <1>2, <2>1, Zenon DEF Aim
    <3> QED BY <3>1, <3>2, <3>3, MinKept, Zenon
  <2>2. l.pc = "done" => l.pc \notin Walking \cup {"newIterator"} /\ l.pc \notin {"loadMin", "compare", "advance"}
    BY Zenon DEF Walking
  <2>3. Named(h)' = Named(h)
    BY <1>1, Zenon DEF Named
  <2> QED BY <1>1, <1>2, <2>1, <2>2, <2>3, Zenon DEF Aim
<1> QED BY <1>1, <1>3, <1>4, Zenon

(* The minima stay those of the generations, and a swap puts its node for   *)
(* its target.                                                              *)
LEMMA ListAim ==
    ASSUME Inv, Inv', Turns, Aims, NEW g \in Goroutines, Acts(g)
    PROVE  /\ \A n \in Nodes : min'[n] # 0 =>
                 n \in Allocated' /\ \E r \in Allocated' : rank'[r] = rank'[n] /\ min'[n] = MinOf[r]
           /\ SwapsTarget'
<1>1. /\ local \in [Goroutines -> Local] /\ local[g] \in Local /\ Walk(g) /\ Turn(g) /\ Aim(g)
      /\ min \in [Nodes -> Nat] /\ rank \in [Nodes -> Nat] /\ g \in Nodes /\ None \notin Nodes
      /\ replaced \in [Nodes -> Nodes \cup {None}] /\ Goroutines \subseteq Nodes
  BY NodeFacts, ZenonT(60) DEF Inv, TypeOK, Turns, Aims
<1>2. /\ Linked \subseteq Allocated /\ Linked \subseteq Nodes
      /\ \A n \in Nodes : min[n] # 0 =>
            n \in Allocated /\ \E r \in Allocated : rank[r] = rank[n] /\ min[n] = MinOf[r]
  BY LinkedFacts, Zenon DEF Aims
<1>3. Steady(g)
  BY OwnStep DEF Acts
<1>4. local[g].op = "swap" /\ local[g].pc \in {"matched", "relink"} => local[g].target = local[g].cur
  BY <1>1, Zenon DEF Aim, Named, Found
<1>5. ASSUME NEW n \in Nodes, min'[n] # 0
      PROVE  n \in Allocated' /\ \E r \in Allocated' : rank'[r] = rank'[n] /\ min'[n] = MinOf[r]
  <2>1. CASE min'[n] = min[n]
    BY <1>2, <1>3, <1>5, <2>1, ZenonT(60) DEF Steady
  <2>2. CASE min'[n] # min[n]
    <3>1. n = g /\ (Insert(g) \/ NewNode(g))
      BY <2>2, <1>5, MinStep, Zenon
    <3>2. CASE Insert(g)
      <4>1. g \in Allocated'
        BY <1>1, <3>2, Zenon DEF Insert, Continue, Local, Allocated
      <4>2. min'[g] \in {0, MinOf[g]}
        BY <1>1, <3>2, Zenon DEF Insert
      <4> QED BY <1>5, <3>1, <4>1, <4>2, Zenon
    <3>3. CASE NewNode(g)
      <4>1. g \in Allocated'
        BY <1>1, <3>3, Zenon DEF NewNode, Goto, Continue, Local, Allocated
      <4>2. /\ min'[g] = min[local[g].target] /\ rank'[g] = rank[local[g].cur]
            /\ local[g].target = local[g].cur /\ local[g].cur \in Linked
        BY <1>1, <1>4, <3>3, Zenon DEF NewNode, Turn, Walking, pc
      <4>3. PICK r \in Allocated : rank[r] = rank[local[g].cur] /\ min[local[g].cur] = MinOf[r]
        BY <1>2, <1>5, <3>1, <4>2, Zenon
      <4>4. r \in Allocated' /\ rank'[r] = rank[r]
        BY <1>3, <4>3, Zenon DEF Steady
      <4> QED BY <3>1, <4>1, <4>2, <4>3, <4>4, Zenon
    <3> QED BY <3>1, <3>2, <3>3, Zenon
  <2> QED BY <2>1, <2>2, Zenon
<1>6. ASSUME NEW h \in Goroutines, replaced'[h] # None PROVE replaced'[h] = local'[h].target
  <2>1. SwapsTarget /\ (h # g => local'[h] = local[h])
    BY <1>3, Zenon DEF Aims, Steady
  <2>2. CASE SwapNode(g) /\ h = g
    <3>1. /\ replaced'[g] = local[g].cur /\ local'[g].target = local[g].target
          /\ local[g].pc = "relink" /\ local[g].op = "swap"
      BY <1>1, <2>2, Zenon DEF SwapNode, Relink, Goto, Continue, Local, pc
    <3> QED BY <1>4, <2>2, <3>1, Zenon
  <2>3. CASE SwapNode(g) /\ h # g
    BY <1>1, <1>6, <2>1, <2>3, Zenon DEF SwapNode, SwapsTarget
  <2>4. CASE ~ SwapNode(g)
    <3>1. replaced' = replaced
      BY <2>4, StepKind, Zenon DEF Quiet, SetHead, RemoveNode, history
    <3>2. h = g => local[g].pc \in {"addNum", "setTail", "done"}
      <4>1. h = g => g \in Published /\ g \notin Opened
        BY <1>1, <1>6, <3>1, NodeFacts, Zenon DEF Turns
      <4> QED BY <4>1, Zenon DEF Published, pc
    <3>3. h = g => AddNum(g) \/ SetTail(g)
      BY <2>4, <3>2, ZenonT(60) DEF Acts, Insert, Call, Scan, Step, SetHead, NewIterator, LoadMin, Compare, Advance,
         NewNode, ReadNext, RemoveNode, SubNum, Clean, ScanOn, pc
    <3>4. h = g => local'[g].target = local[g].target
      BY <1>1, <3>3 DEF AddNum, SetTail, Goto, Continue, Local
    <3> QED BY <1>6, <2>1, <3>1, <3>4, Zenon DEF SwapsTarget
  <2> QED BY <2>2, <2>3, <2>4, Zenon
<1> QED BY <1>5, <1>6, Zenon DEF SwapsTarget

(* The first rows of a partition give it a minimum of its own. *)
LEMMA SetMinAims ==
    ASSUME Inv, Turns, Aims, NEW n \in Nodes, SetMin(n)
    PROVE  Aims'
<1>1. /\ min \in [Nodes -> Nat] /\ n \in Published /\ min[n] = 0 /\ min' = [min EXCEPT ![n] = MinOf[n]]
      /\ MinOf[n] # 0 /\ UNCHANGED <<head, next, local, rank, replaced>>
  BY MinOfAssumption, Zenon DEF SetMin, Inv, TypeOK, list, history
<1>2. Linked' = Linked /\ Allocated' = Allocated /\ Linked \subseteq Nodes
  BY <1>1, LinkedFacts, Zenon DEF Linked, Allocated
<1>3. n \in Allocated
  BY <1>1, Zenon DEF Published, Allocated, Inv, Links
<1>4. \A m \in Nodes : min'[m] = IF m = n THEN MinOf[n] ELSE min[m]
  BY <1>1, Zenon
<1>5. \A m \in Nodes : min'[m] # 0 =>
         m \in Allocated' /\ \E r \in Allocated' : rank'[r] = rank'[m] /\ min'[m] = MinOf[r]
  BY <1>1, <1>2, <1>3, <1>4, Zenon DEF Aims
<1>6. ASSUME NEW g \in Goroutines PROVE Aim(g)'
  <2>1. PICK l : l = local[g]
    OBVIOUS
  <2>2. Aim(g) /\ Turn(g) /\ local'[g] = l /\ Named(g)' = Named(g)
    BY <1>1, <2>1, Zenon DEF Aims, Turns, Named
  <2>3. l.pc = "compare" => l.cur \in Nodes
    BY <1>2, <2>1, <2>2, Zenon DEF Turn, Walking
  <2>4. ASSUME Named(g) PROVE min'[l.target] # 0
    BY <1>1, <1>4, <2>1, <2>2, <2>4, Zenon DEF Aim
  <2>5. ASSUME Named(g), l.pc = "compare"
        PROVE  l.curMin \in {0, min'[l.cur]} /\ (l.cur = l.target => l.curMin = min'[l.cur])
    <3>1. l.curMin \in {0, min[l.cur]} /\ (l.cur = l.target => l.curMin = min[l.cur] /\ min[l.cur] # 0)
      BY <2>1, <2>2, <2>5, Zenon DEF Aim
    <3>2. CASE l.cur = n
      BY <1>1, <3>1, <3>2, Zenon
    <3>3. CASE l.cur # n
      BY <1>4, <2>3, <2>5, <3>1, <3>3, Zenon
    <3> QED BY <3>2, <3>3, Zenon
  <2> QED BY <1>1, <1>2, <2>1, <2>2, <2>4, <2>5, Zenon DEF Aim
<1>7. SwapsTarget'
  BY <1>1, Zenon DEF Aims, SwapsTarget
<1> QED BY <1>5, <1>6, <1>7, Zenon DEF Aims

(* With different minima the walks end at their targets, inductively.       *)
LEMMA AimsInductive ==
    ASSUME Exclusive, MinsDiffer
    PROVE  Inv /\ Inv' /\ Turns /\ Sized /\ Aims /\ [Next]_vars => Aims'
<1>1. SUFFICES ASSUME Inv, Inv', Turns, Sized, Aims, [Next]_vars PROVE Aims'
  BY Zenon
<1>2. ASSUME NEW g \in Goroutines, Acts(g) PROVE Aims'
  <2>1. local \in [Goroutines -> Local] /\ local[g] \in Local
    BY <1>1, Zenon DEF Inv, TypeOK
  <2>2. ASSUME Insert(g) PROVE Aim(g)'
    <3>1. local'[g].op = "insert"
      BY <2>1, <2>2, Zenon DEF Insert, Continue, Local
    <3> QED BY <3>1, Zenon DEF Aim, Named
  <2>3. ASSUME Scan(g) PROVE Aim(g)'
    <3>1. local'[g].op = "scan"
      BY <2>1, <2>3, Zenon DEF Scan, Visit, Continue, Local
    <3> QED BY <3>1, Zenon DEF Aim, Named
  <2>4. Aim(g)'
    BY <1>1, <1>2, <2>2, <2>3, CallAims, WalkAims, Zenon DEF Acts
  <2>5. \A h \in Goroutines : Aim(h)'
    BY <1>1, <1>2, <2>4, OthersAim, Zenon
  <2>6. /\ \A n \in Nodes : min'[n] # 0 =>
              n \in Allocated' /\ \E r \in Allocated' : rank'[r] = rank'[n] /\ min'[n] = MinOf[r]
        /\ SwapsTarget'
    BY <1>1, <1>2, ListAim, Zenon
  <2> QED BY <2>5, <2>6, Zenon DEF Aims
<1>3. CASE \E n \in Nodes : SetMin(n)
  BY <1>1, <1>3, SetMinAims
<1>4. CASE Finished \/ UNCHANGED vars
  <2>1. UNCHANGED <<head, next, min, local, rank, replaced>>
    BY <1>4, Zenon DEF Finished, vars, list, history
  <2>2. Linked' = Linked /\ Allocated' = Allocated
    BY <2>1, Zenon DEF Linked, Allocated
  <2>3. \A g \in Goroutines : Aim(g)'
    BY <1>1, <2>1, <2>2, Zenon DEF Aims, Aim, Named
  <2>4. SwapsTarget'
    BY <1>1, <2>1, Zenon DEF Aims, SwapsTarget
  <2> QED BY <1>1, <2>1, <2>2, <2>3, <2>4, Zenon DEF Aims
<1> QED BY <1>1, <1>2, <1>3, <1>4, Zenon DEF Next, Acts

(* At first every partition of the list has its own minimum. *)
LEMMA AimsInit == Init => Aims
<1>1. SUFFICES ASSUME Init PROVE Aims
  OBVIOUS
<1>2. \A g \in Goroutines : local[g] = NewLocal
  BY <1>1 DEF Init
<1>3. Allocated = Opened
  BY <1>2 DEF Allocated, NewLocal
<1>4. \A n \in Nodes : min[n] = (IF n \in Opened THEN MinOf[n] ELSE 0)
  BY <1>1, Zenon DEF Init
<1>5. \A g \in Goroutines : Aim(g)
  BY <1>2 DEF Aim, Named, NewLocal
<1>6. SwapsTarget
  BY <1>1, NodeFacts DEF Init, SwapsTarget
<1> QED BY <1>3, <1>4, <1>5, <1>6, Zenon DEF Aims

(* samePartitions compares minima.  While the calls take turns and the      *)
(* minima tell the partitions apart, remove and swap find the partition     *)
(* they were called with if it had a minimum when the call began, and take  *)
(* no other one out of the list, although first inserts may set the minima  *)
(* of other partitions in the middle of a comparison.  A partition that     *)
(* remove has cleaned is out of the list, and swap puts the new one in the  *)
(* place of the old one.                                                    *)
THEOREM TurnsHitTargets == Exclusive /\ MinsDiffer /\ Spec => []TargetsHit
<1>1. SUFFICES ASSUME Exclusive, MinsDiffer PROVE Spec => []TargetsHit
  OBVIOUS
<1>2. Turns /\ Aims => TargetsHit
  <2>1. SUFFICES ASSUME Turns, Aims PROVE FindsTarget /\ RemovedGone
    BY Zenon DEF Aims, TargetsHit
  <2>2. RemovedGone
    BY <2>1, Zenon DEF Turns, RemovedGone
  <2>3. FindsTarget
    BY <2>1, Zenon DEF Aims, Aim, Found, FindsTarget, pc
  <2> QED BY <2>2, <2>3
<1>3. Inv /\ Inv' /\ Turns /\ Sized /\ Aims /\ [Next]_vars => Aims'
  BY <1>1, AimsInductive
<1>4. Spec => []Turns /\ []Sized
  BY <1>1, TurnsAlways, SizedAlways
<1> QED BY <1>2, <1>3, <1>4, AimsInit, InvAlways, PTL DEF Spec
=============================================================================
