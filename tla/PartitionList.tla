--------------------------- MODULE PartitionList ---------------------------
(***************************************************************************)
(* The linked list of partition_list.go: insert, remove, swap and scans by *)
(* iterator, one action per access to the list or to a node, in any        *)
(* interleaving.                                                           *)
(*                                                                         *)
(* Every goroutine makes one call.  insert and swap allocate one node for  *)
(* a partition of its own, so node and partition are named by the          *)
(* goroutine; NumOpened more partitions, named 1..NumOpened from the       *)
(* oldest, are those NewStorage has inserted before anyone else runs.      *)
(***************************************************************************)
EXTENDS Integers, Sequences

CONSTANTS
    Goroutines,
    NumOpened,
    MinOf,          \* the minimum timestamp a partition gets with its first rows
    Exclusive,      \* whether the insert, remove and swap calls take turns
    None            \* nil

Opened == 1..NumOpened
Nodes == Goroutines \cup Opened

ASSUME GoroutinesAssumption == Goroutines \cap Nat = {} /\ None \notin Goroutines \cup Nat
ASSUME NumOpenedAssumption == NumOpened \in Nat
ASSUME MinOfAssumption == MinOf \in [Nodes -> Nat \ {0}]
ASSUME ExclusiveAssumption == Exclusive \in BOOLEAN

VARIABLES
    head, tail, numPartitions,  \* the fields of partitionListImpl
    next,                       \* the next field of every node
    min,                        \* minTimestamp of every partition, 0 while it is empty
    local,                      \* program counter and local variables of a call
    cleaned,                    \* the partitions remove has cleaned
    rank,                       \* history: the generation of a node
    replaced                    \* history: replaced[n] is the node that swap put n for

list == <<head, tail, numPartitions>>
history == <<rank, replaced>>
vars == <<list, next, min, local, cleaned, history>>

(* visited and before are history variables of a scan, the nodes it has     *)
(* read and the nodes that were linked when it began; before is of a remove *)
(* or swap its target, unless that was empty when the call began.           *)
NewLocal == [pc |-> "idle", op |-> "none", target |-> None, cur |-> None, prev |-> None,
             nxt |-> None, curMin |-> 0, visited |-> {}, before |-> {}]

Init ==
    /\ head = IF NumOpened = 0 THEN None ELSE NumOpened
    /\ tail = None /\ numPartitions = NumOpened
    /\ next = [n \in Nodes |-> IF n \in Opened /\ n # 1 THEN n - 1 ELSE None]
    /\ min = [n \in Nodes |-> IF n \in Opened THEN MinOf[n] ELSE 0]
    /\ local = [g \in Goroutines |-> NewLocal]
    /\ cleaned = {}
    /\ rank = [n \in Nodes |-> IF n \in Opened THEN n - 1 ELSE 0]
    /\ replaced = [n \in Nodes |-> None]

pc(g) == local[g].pc
Continue(g, l) == local' = [local EXCEPT ![g] = l]
Goto(g, label) == Continue(g, [local[g] EXCEPT !.pc = label])
Mutating == {g \in Goroutines : pc(g) \notin {"idle", "done"} /\ local[g].op # "scan"}

(* The nodes that links lead to from n on: the least set with n that they   *)
(* do not leave.                                                            *)
Closed(S, links) == \A n \in S : links[n] # None => links[n] \in S
Reach(n, links) ==
    {m \in Nodes : \A S \in SUBSET Nodes : n \in S /\ Closed(S, links) => m \in S}

(* The nodes an iterator started now would visit. *)
Linked == IF head = None THEN {} ELSE Reach(head, next)

(* The partitions a caller may have met in the list. *)
Published == {g \in Goroutines : local[g].op = "insert" /\ pc(g) \in {"addNum", "done"}}
                 \cup {g \in Goroutines : replaced[g] # None /\ pc(g) \in {"setTail", "done"}}
                 \cup Opened

(* Callers that take turns: one starts when no other one is changing the    *)
(* list, and hands over a partition that is in the list.                    *)
MayMutate == Exclusive => Mutating = {}
Targets == {n \in Published : Exclusive => n \in Linked}

-----------------------------------------------------------------------------
(* insert *)

(* The node is allocated and linked to the head read under the read lock.   *)
(* A disk partition comes with its minimum, a memory partition is empty.    *)
Insert(g) ==
    /\ pc(g) = "idle" /\ MayMutate
    /\ next' = [next EXCEPT ![g] = head]
    /\ \E m \in {0, MinOf[g]} : min' = [min EXCEPT ![g] = m]
    /\ rank' = [rank EXCEPT ![g] = IF head = None THEN 0 ELSE rank[head] + 1]
    /\ Continue(g, [local[g] EXCEPT !.pc = "setHead", !.op = "insert"])
    /\ UNCHANGED <<list, cleaned, replaced>>

SetHead(g) ==
    /\ pc(g) = "setHead"
    /\ head' = g
    /\ Goto(g, "addNum")
    /\ UNCHANGED <<tail, numPartitions, next, min, cleaned, history>>

AddNum(g) ==
    /\ pc(g) = "addNum"
    /\ numPartitions' = numPartitions + 1
    /\ Goto(g, "done")
    /\ UNCHANGED <<head, tail, next, min, cleaned, history>>

(* The first rows of an empty partition set its minimum (insertRows). *)
SetMin(n) ==
    /\ n \in Published /\ min[n] = 0
    /\ min' = [min EXCEPT ![n] = MinOf[n]]
    /\ UNCHANGED <<list, next, local, cleaned, history>>

-----------------------------------------------------------------------------
(* The walk that remove, swap and every scan share. *)

(* remove and swap give up on an empty list.  flushPartitions swaps only a  *)
(* partition whose rows it has flushed; it removes one it found empty.      *)
Call(g) ==
    /\ pc(g) = "idle"
    /\ MayMutate
    /\ \E op \in {"remove", "swap"}, t \in Targets :
          /\ op = "swap" => min[t] # 0
          /\ Continue(g, [local[g] EXCEPT !.pc = IF numPartitions <= 0 THEN "done" ELSE "newIterator",
                                          !.op = op, !.target = t,
                                          !.before = {n \in {t} : min[n] # 0}])
    /\ UNCHANGED <<list, next, min, cleaned, history>>

(* newIterator reads the head; its first next() only leaves the dummy node. *)
NewIterator(g) ==
    /\ pc(g) = "newIterator"
    /\ Continue(g, [local[g] EXCEPT !.pc = IF head = None THEN "done" ELSE "loadMin",
                                    !.cur = head])
    /\ UNCHANGED <<list, next, min, cleaned, history>>

(* samePartitions loads the minimum of the current partition ... *)
LoadMin(g) ==
    /\ pc(g) = "loadMin"
    /\ Continue(g, [local[g] EXCEPT !.pc = "compare", !.curMin = min[local[g].cur]])
    /\ UNCHANGED <<list, next, min, cleaned, history>>

(* Mutant: the first partition that is not older matches. *)
Compare_NotOlder(g) ==
    /\ pc(g) = "compare"
    /\ Goto(g, IF local[g].curMin >= min[local[g].target] THEN "matched" ELSE "advance")
    /\ UNCHANGED <<list, next, min, cleaned, history>>

(* ... and then the target's, to compare them. *)
Compare(g) ==
    /\ pc(g) = "compare"
    /\ Goto(g, IF local[g].curMin = min[local[g].target] THEN "matched" ELSE "advance")
    /\ UNCHANGED <<list, next, min, cleaned, history>>

(* Mutant: prev is not kept. *)
Advance_NoPrev(g) ==
    /\ pc(g) = "advance"
    /\ LET n == next[local[g].cur]
       IN  Continue(g, [local[g] EXCEPT !.pc = IF n = None THEN "done" ELSE "loadMin",
                                        !.cur = n])
    /\ UNCHANGED <<list, next, min, cleaned, history>>

(* Mutant: the iterator stays where it is. *)
Advance_Stays(g) ==
    /\ pc(g) = "advance"
    /\ LET n == local[g].cur
       IN  Continue(g, [local[g] EXCEPT !.pc = IF n = None THEN "done" ELSE "loadMin",
                                        !.cur = n])
    /\ UNCHANGED <<list, next, min, cleaned, history>>

(* Past a mismatch the iterator moves on; at the end of the list the call   *)
(* fails with "the given partition was not found".                          *)
Advance(g) ==
    /\ pc(g) = "advance"
    /\ LET n == next[local[g].cur]
       IN  Continue(g, [local[g] EXCEPT !.pc = IF n = None THEN "done" ELSE "loadMin",
                                        !.prev = local[g].cur, !.cur = n])
    /\ UNCHANGED <<list, next, min, cleaned, history>>

(* Mutant: the new node is put in front of the current one. *)
NewNode_InFront(g) ==
    /\ pc(g) = "matched" /\ local[g].op = "swap"
    /\ next' = [next EXCEPT ![g] = local[g].cur]
    /\ min' = [min EXCEPT ![g] = min[local[g].target]]
    /\ rank' = [rank EXCEPT ![g] = rank[local[g].cur]]
    /\ Goto(g, "readNext")
    /\ UNCHANGED <<list, cleaned, replaced>>

(* swap allocates the new node with the current one's next. *)
NewNode(g) ==
    /\ pc(g) = "matched" /\ local[g].op = "swap"
    /\ next' = [next EXCEPT ![g] = next[local[g].cur]]
    /\ min' = [min EXCEPT ![g] = min[local[g].target]]
    /\ rank' = [rank EXCEPT ![g] = rank[local[g].cur]]
    /\ Goto(g, "readNext")
    /\ UNCHANGED <<list, cleaned, replaced>>

(* iterator.next(): what follows the current node. *)
ReadNext(g) ==
    /\ \/ pc(g) = "readNext"
       \/ pc(g) = "matched" /\ local[g].op = "remove"
    /\ Continue(g, [local[g] EXCEPT !.pc = "relink", !.nxt = next[local[g].cur]])
    /\ UNCHANGED <<list, next, min, cleaned, history>>

(* The three cases of the switch put n where the current node was: the      *)
(* head, the tail, the middle.                                              *)
Relink(g, n, then) ==
    LET prev == local[g].prev
    IN  /\ IF prev = None
           THEN head' = n /\ UNCHANGED next
           ELSE next' = [next EXCEPT ![prev] = n] /\ UNCHANGED head
        /\ Goto(g, IF prev # None /\ local[g].nxt = None THEN "setTail" ELSE then)

(* Mutant: the removed node loses its link. *)
RemoveNode_Unlinks(g) ==
    /\ pc(g) = "relink" /\ local[g].op = "remove"
    /\ LET prev == local[g].prev
           unlinked == [next EXCEPT ![local[g].cur] = None]
       IN  /\ IF prev = None THEN head' = local[g].nxt /\ next' = unlinked
              ELSE next' = [unlinked EXCEPT ![prev] = local[g].nxt] /\ UNCHANGED head
           /\ Goto(g, IF prev # None /\ local[g].nxt = None THEN "setTail" ELSE "subNum")
    /\ UNCHANGED <<tail, numPartitions, min, cleaned, history>>

RemoveNode(g) ==
    /\ pc(g) = "relink" /\ local[g].op = "remove"
    /\ Relink(g, local[g].nxt, "subNum")
    /\ UNCHANGED <<tail, numPartitions, min, cleaned, history>>

SwapNode(g) ==
    /\ pc(g) = "relink" /\ local[g].op = "swap"
    /\ Relink(g, g, "done")
    /\ replaced' = [replaced EXCEPT ![g] = local[g].cur]
    /\ UNCHANGED <<tail, numPartitions, min, cleaned, rank>>

SetTail(g) ==
    /\ pc(g) = "setTail"
    /\ \/ local[g].op = "remove" /\ tail' = local[g].prev /\ Goto(g, "subNum")
       \/ local[g].op = "swap" /\ tail' = g /\ Goto(g, "done")
    /\ UNCHANGED <<head, numPartitions, next, min, cleaned, history>>

SubNum(g) ==
    /\ pc(g) = "subNum"
    /\ numPartitions' = numPartitions - 1
    /\ Goto(g, "clean")
    /\ UNCHANGED <<head, tail, next, min, cleaned, history>>

(* Mutant: the iterator has moved on, and its value is cleaned. *)
Clean_Next(g) ==
    /\ pc(g) = "clean"
    /\ cleaned' = cleaned \cup {local[g].nxt}
    /\ Goto(g, "done")
    /\ UNCHANGED <<list, next, min, history>>

Clean(g) ==
    /\ pc(g) = "clean"
    /\ cleaned' = cleaned \cup {local[g].cur}
    /\ Goto(g, "done")
    /\ UNCHANGED <<list, next, min, history>>

-----------------------------------------------------------------------------
(* A scan: Select, flushPartitions, removeExpiredPartitions and String.     *)

Visit(g, n, l) ==
    Continue(g, [l EXCEPT !.pc = IF n = None THEN "done" ELSE "scan", !.cur = n,
                          !.visited = l.visited \cup ({n} \ {None})])

Scan(g) ==
    /\ pc(g) = "idle"
    /\ Visit(g, head, [local[g] EXCEPT !.op = "scan", !.before = Linked])
    /\ UNCHANGED <<list, next, min, cleaned, history>>

(* Mutant: a scan whose node has left the list starts over. *)
ScanOn_StartsOver(g) ==
    /\ pc(g) = "scan"
    /\ Visit(g, IF local[g].cur \in Linked THEN next[local[g].cur] ELSE head, local[g])
    /\ UNCHANGED <<list, next, min, cleaned, history>>

ScanOn(g) ==
    /\ pc(g) = "scan"
    /\ Visit(g, next[local[g].cur], local[g])
    /\ UNCHANGED <<list, next, min, cleaned, history>>

-----------------------------------------------------------------------------
(* What a call goes on with once it has begun *)
Step(g) ==
    \/ SetHead(g) \/ AddNum(g)
    \/ NewIterator(g) \/ LoadMin(g) \/ Compare(g) \/ Advance(g) \/ NewNode(g) \/ ReadNext(g)
    \/ RemoveNode(g) \/ SwapNode(g) \/ SetTail(g) \/ SubNum(g) \/ Clean(g)
    \/ ScanOn(g)

Finished == (\A g \in Goroutines : pc(g) = "done") /\ UNCHANGED vars

Next ==
    \/ \E g \in Goroutines : Insert(g) \/ Call(g) \/ Scan(g) \/ Step(g)
    \/ \E n \in Nodes : SetMin(n)
    \/ Finished

Spec == Init /\ [][Next]_vars

(* The Go scheduler runs every goroutine that has begun a call. *)
FairSpec == Spec /\ \A g \in Goroutines : WF_vars(Step(g))

-----------------------------------------------------------------------------
(* Properties *)

Labels == {"idle", "done", "setHead", "addNum", "newIterator", "loadMin", "compare",
           "advance", "matched", "readNext", "relink", "setTail", "subNum", "clean", "scan"}
Local == [pc : Labels, op : {"none", "insert", "remove", "swap", "scan"},
          target : Nodes \cup {None}, cur : Nodes \cup {None}, prev : Nodes \cup {None},
          nxt : Nodes \cup {None}, curMin : Nat, visited : SUBSET Nodes, before : SUBSET Nodes]

(* Every variable stays within its type. *)
TypeOK ==
    /\ head \in Nodes \cup {None} /\ tail \in Nodes \cup {None} /\ numPartitions \in Int
    /\ next \in [Nodes -> Nodes \cup {None}]
    /\ min \in [Nodes -> Nat]
    /\ local \in [Goroutines -> Local]
    /\ cleaned \subseteq Nodes
    /\ rank \in [Nodes -> Nat]
    /\ replaced \in [Nodes -> Nodes \cup {None}]

(* A link always leads to an older generation, whatever inserts, removes    *)
(* and swaps overlap: the list has no cycle, so no iterator runs for ever.  *)
Descending == \A n \in Nodes : next[n] # None => rank[next[n]] < rank[n]

(* No scan reads both a partition and the one swap put in its place, so a   *)
(* Select that overlaps the swap of a flush does not read the partition's   *)
(* points from memory and from disk.                                        *)
NoTwins ==
    \A g \in Goroutines : \A n \in local[g].visited : replaced[n] \notin local[g].visited

(* n and the nodes it has taken the place of *)
Lineage(n) == Reach(n, replaced)

(* A scan misses nothing that stays: of every partition that was in the     *)
(* list when the scan began and still is, itself or as its replacement, the *)
(* scan has read one.                                                       *)
ScanComplete ==
    \A g \in Goroutines : pc(g) = "done" /\ local[g].op = "scan" =>
        \A n \in Linked : Lineage(n) \cap local[g].before # {} => Lineage(n) \cap local[g].visited # {}

(* "insert appends a new node to the head": an inserted partition is in the *)
(* list until it is removed or swapped out.                                 *)
InsertsKept ==
    \A g \in Goroutines : pc(g) = "done" /\ local[g].op = "insert" =>
        \/ g \in Linked
        \/ \E h \in Goroutines : h # g /\ local[h].cur = g

(* "remove eliminates the given partition from the list." *)
RemovedGone == Mutating = {} => cleaned \cap Linked = {}

(* "swap replaces the old partition with the new one." *)
SwapsTarget == \A g \in Goroutines : replaced[g] # None => replaced[g] = local[g].target

(* A remove or swap whose partition had a minimum when it began *)
Named(g) == local[g].op \in {"remove", "swap"} /\ local[g].target \in local[g].before

(* It returns only after taking that partition, and no other, out of the    *)
(* list: it does not miss it, whatever minima are set meanwhile.            *)
FindsTarget ==
    \A g \in Goroutines :
        Named(g) /\ pc(g) \in {"setTail", "subNum", "clean", "done"} => local[g].cur = local[g].target

(* A remove or swap of a partition with a minimum finds it and hits no      *)
(* other one, a partition that was removed and cleaned is out of the list,  *)
(* and a partition swapped in stands for the one its caller named.          *)
TargetsHit == FindsTarget /\ RemovedGone /\ SwapsTarget

(* The nodes from the head on, one linked to the next *)
IsChain(s, first, links) ==
    /\ s \in Seq(Nodes)
    /\ IF first = None THEN s = <<>> ELSE s # <<>> /\ s[1] = first
    /\ \A i \in DOMAIN s : links[s[i]] = IF i = Len(s) THEN None ELSE s[i + 1]
(* Generations descend along the links to 0, so the head's bounds the length. *)
Longest == IF head = None THEN 0 ELSE rank[head] + 1
Chain == CHOOSE s \in UNION {[1..n -> Linked] : n \in 0..Longest} : IsChain(s, head, next)

Abstract == INSTANCE PartitionSequence WITH
    Partitions <- Nodes, partitions <- Chain,
    Opened <- [i \in 1..NumOpened |-> NumOpened + 1 - i]

(* Callers that take turns see the list of the interface's comments: each   *)
(* call changes the sequence in the one step that relinks it.               *)
RefinesSequence == Abstract!Spec

(* Every call returns. *)
CallsReturn == \A g \in Goroutines : pc(g) # "idle" ~> pc(g) = "done"
=============================================================================
