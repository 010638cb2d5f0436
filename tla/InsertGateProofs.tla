-------------------------- MODULE InsertGateProofs --------------------------
(* The theorems of InsertGate.  They hold for any number of callers, slots   *)
(* and timers, and any overlap of the calls with Close and the runtime.      *)
EXTENDS InsertGate, FiniteSetTheorems, TLAPS

Places == {"idle", "try", "get", "wait", "putAcquired", "putExpired", "insert", "return",
           "overloaded", "panic"}

(* The type invariant, without that the counters are not negative *)
Typed ==
    /\ pc \in [Callers -> Places]
    /\ timer \in [Callers -> Timers \cup {None}]
    /\ slots \in Int /\ wg \in Int /\ calls \in Nat
    /\ pool \subseteq Timers /\ made \subseteq Timers /\ overtaken \subseteq Timers
    /\ armed \in [Timers -> BOOLEAN]
    /\ sending \in [Timers -> SUBSET {"own", "stale"}]
    /\ tick \in [Timers -> {"none", "own", "stale"}]
    /\ closer \in {"open", "wait", "woken", "closing", "closed", "panic"}
    /\ early \subseteq Callers /\ late \in BOOLEAN

(* A call has a timer from Get to Put, and no two calls have the same. *)
Owned ==
    /\ \A g \in Callers : pc[g] \in {"wait", "putAcquired", "putExpired"} => timer[g] # None
    /\ \A g \in Callers : timer[g] # None => timer[g] \in made /\ timer[g] \notin pool
    /\ \A g, h \in Callers : g # h /\ timer[g] # None => timer[h] # timer[g]
    /\ pool \subseteq made

(* A timer in the pool is not active, and what it has sent or is sending is *)
(* known to have been overtaken by a Put; an active timer has not sent.     *)
Ticks ==
    /\ \A t \in pool : ~armed[t] /\ (tick[t] # "none" \/ sending[t] # {} => t \in overtaken)
    /\ \A t \in Timers : armed[t] => tick[t] # "own" /\ "own" \notin sending[t]
    /\ \A t \in Timers \ made : ~armed[t] /\ tick[t] = "none" /\ sending[t] = {}
    /\ \A g \in Callers : pc[g] # "panic"
    /\ OnlyLateTicks

(* The counters are those of the calls on their way. *)
Counted == slots = Cardinality(Holders) /\ wg = Cardinality(Running) /\ slots <= WorkersLimit

(* While Close waits, the calls it found running still run; a wake-up means *)
(* that they are over, and that all are unless one has begun since.         *)
Closing ==
    /\ early \subseteq Running
    /\ closer = "woken" /\ ~late => Running = {}
    /\ closer \in {"woken", "closing", "closed"} => early = {}
    /\ closer = "panic" => late

Inv == Typed /\ Owned /\ Ticks /\ Counted /\ Closing

-----------------------------------------------------------------------------
(* A step is one of a call, of a timer or of Close, or changes nothing. *)
LEMMA Steps ==
    ASSUME [Next]_vars
    PROVE  \/ \E g \in Callers :
                 \/ InsertRows(g) \/ TryAcquire(g) \/ AllBusy(g) \/ GetPooled(g) \/ GetNew(g)
                 \/ Acquire(g) \/ TimeOut(g) \/ Put(g) \/ InsertEnds(g) \/ Return(g)
           \/ \E t \in Timers : Fire(t) \/ Send(t)
           \/ Close \/ WaitReturns \/ CloseReturns
           \/ UNCHANGED vars
BY DEF Next, Step, Runtime, CloseStep, Finished

(* The type is kept by every step. *)
LEMMA TypedStep ==
    ASSUME Inv, [Next]_vars
    PROVE  Typed'
<1> USE DEF Inv, Typed, Places, gate, timers, closing, Goto
<1>1. ASSUME NEW g \in Callers, TryAcquire(g) \/ AllBusy(g) \/ Acquire(g)
      PROVE  Typed'
  BY <1>1 DEF TryAcquire, AllBusy, Acquire
<1>10. ASSUME NEW g \in Callers, InsertRows(g)
       PROVE  Typed'
  <2>1. late' \in BOOLEAN
    BY <1>10, Zenon DEF InsertRows
  <2> QED
    BY <1>10, <2>1 DEF InsertRows
<1>2. ASSUME NEW g \in Callers, GetPooled(g)
      PROVE  Typed'
  BY <1>2 DEF GetPooled, Reset
<1>3. ASSUME NEW g \in Callers, GetNew(g)
      PROVE  Typed'
  BY <1>3 DEF GetNew
<1>4. ASSUME NEW g \in Callers, TimeOut(g)
      PROVE  Typed'
  BY <1>4 DEF TimeOut
<1>5. ASSUME NEW g \in Callers, Put(g)
      PROVE  Typed'
  <2>1. timer[g] \in Timers
    BY <1>5 DEF Put, Owned
  <2> QED
    BY <1>5, <2>1 DEF Put
<1>6. ASSUME NEW g \in Callers, InsertEnds(g) \/ Return(g)
      PROVE  Typed'
  BY <1>6 DEF InsertEnds, Return
<1>7. ASSUME NEW t \in Timers, Fire(t)
      PROVE  Typed'
  BY <1>7 DEF Fire
<1>11. ASSUME NEW t \in Timers, Send(t)
       PROVE  Typed'
  <2>1. PICK s \in sending[t] :
            /\ sending' = [sending EXCEPT ![t] = @ \ {s}]
            /\ tick' = [tick EXCEPT ![t] = IF @ = "none" THEN s ELSE @]
    BY <1>11 DEF Send
  <2>2. s \in {"own", "stale"}
    BY <2>1
  <2>3. tick' \in [Timers -> {"none", "own", "stale"}]
    BY <2>1, <2>2
  <2>4. sending' \in [Timers -> SUBSET {"own", "stale"}]
    BY <2>1
  <2> QED
    BY <1>11, <2>3, <2>4 DEF Send
<1>8. ASSUME Close \/ WaitReturns \/ CloseReturns
      PROVE  Typed'
  BY <1>8 DEF Close, WaitReturns, CloseReturns, Running
<1>9. ASSUME UNCHANGED vars
      PROVE  Typed'
  BY <1>9 DEF vars
<1> QED
  BY <1>1, <1>2, <1>3, <1>4, <1>5, <1>6, <1>7, <1>8, <1>9, <1>10, <1>11, Steps

(* Get and Put hand a timer from the pool to one call and back. *)
LEMMA OwnedStep ==
    ASSUME Inv, [Next]_vars
    PROVE  Owned'
<1> USE DEF Inv, Typed, Places, Owned, gate, timers, closing, Goto
<1>1. ASSUME NEW g \in Callers,
             InsertRows(g) \/ TryAcquire(g) \/ AllBusy(g) \/ Acquire(g) \/ TimeOut(g)
             \/ InsertEnds(g) \/ Return(g)
      PROVE  Owned'
  BY <1>1 DEF InsertRows, TryAcquire, AllBusy, Acquire, TimeOut, InsertEnds, Return
<1>2. ASSUME NEW g \in Callers, GetPooled(g)
      PROVE  Owned'
  <2>1. PICK t \in pool : /\ pool' = pool \ {t} /\ timer' = [timer EXCEPT ![g] = t]
                          /\ \A h \in Callers \ {g} : pc'[h] = pc[h]
    BY <1>2 DEF GetPooled
  <2>2. made' = made
    BY <1>2 DEF GetPooled
  <2> QED
    BY <2>1, <2>2, TimersAssumption
<1>3. ASSUME NEW g \in Callers, GetNew(g)
      PROVE  Owned'
  BY <1>3, TimersAssumption DEF GetNew
<1>4. ASSUME NEW g \in Callers, Put(g)
      PROVE  Owned'
  BY <1>4 DEF Put
<1>5. ASSUME NEW t \in Timers, Fire(t) \/ Send(t)
      PROVE  Owned'
  BY <1>5 DEF Fire, Send
<1>6. ASSUME Close \/ WaitReturns \/ CloseReturns
      PROVE  Owned'
  BY <1>6 DEF Close, WaitReturns, CloseReturns
<1>7. ASSUME UNCHANGED vars
      PROVE  Owned'
  BY <1>7 DEF vars
<1> QED
  BY <1>1, <1>2, <1>3, <1>4, <1>5, <1>6, <1>7, Steps

(* A tick of the past is only in a timer that a Put has overtaken. *)
LEMMA TicksStep ==
    ASSUME Inv, [Next]_vars
    PROVE  Ticks'
<1> USE DEF Inv, Typed, Places, Ticks, OnlyLateTicks, gate, timers, closing, Goto
<1>1. ASSUME NEW g \in Callers,
             InsertRows(g) \/ TryAcquire(g) \/ AllBusy(g) \/ Acquire(g) \/ InsertEnds(g) \/ Return(g)
      PROVE  Ticks'
  BY <1>1 DEF InsertRows, TryAcquire, AllBusy, Acquire, InsertEnds, Return
<1>2. ASSUME NEW g \in Callers, GetPooled(g)
      PROVE  Ticks'
  <2>1. PICK t \in pool : /\ pool' = pool \ {t}
                          /\ pc' = [pc EXCEPT ![g] = IF armed[t] THEN "panic" ELSE "wait"]
                          /\ Reset(t)
    BY <1>2 DEF GetPooled
  <2>2. ~armed[t] /\ t \in Timers /\ t \in made /\ made' = made /\ overtaken' = overtaken
    BY <1>2, <2>1 DEF GetPooled, Owned
  <2>3. \A h \in Callers : pc'[h] # "panic"
    BY <2>1, <2>2
  <2>4. /\ \A u \in Timers \ {t} : armed'[u] = armed[u] /\ tick'[u] = tick[u] /\ sending'[u] = sending[u]
        /\ tick'[t] = (IF tick[t] = "none" THEN "none" ELSE "stale")
        /\ sending'[t] = (IF sending[t] = {} THEN {} ELSE {"stale"})
    BY <2>1, <2>2 DEF Reset
  <2>5. tick'[t] = "stale" \/ "stale" \in sending'[t] => t \in overtaken
    BY <2>2, <2>4
  <2> QED
    BY <2>1, <2>2, <2>3, <2>4, <2>5
<1>3. ASSUME NEW g \in Callers, GetNew(g)
      PROVE  Ticks'
  <2>1. PICK t \in Timers \ made : /\ made' = made \cup {t} /\ armed' = [armed EXCEPT ![t] = TRUE]
    BY <1>3 DEF GetNew
  <2> QED
    BY <1>3, <2>1 DEF GetNew, Owned
<1>4. ASSUME NEW g \in Callers, TimeOut(g)
      PROVE  Ticks'
  BY <1>4 DEF TimeOut, Owned
<1>5. ASSUME NEW g \in Callers, Put(g)
      PROVE  Ticks'
  <2>1. PICK t : t = timer[g]
    OBVIOUS
  <2>2. t \in Timers /\ t \in made /\ made' = made /\ sending' = sending
    BY <1>5, <2>1 DEF Put, Owned
  <2>3. /\ armed' = [armed EXCEPT ![t] = FALSE]
        /\ tick' = [tick EXCEPT ![t] = IF armed[t] THEN @ ELSE "none"]
        /\ overtaken' = IF sending[t] # {} THEN overtaken \cup {t} ELSE overtaken
        /\ pool' = pool \cup {t}
    BY <1>5, <2>1 DEF Put
  <2>4. tick'[t] # "none" \/ sending'[t] # {} => t \in overtaken'
    BY <2>2, <2>3
  <2>5. \A h \in Callers : pc'[h] # "panic"
    BY <1>5 DEF Put
  <2> QED
    BY <2>2, <2>3, <2>4, <2>5
<1>6. ASSUME NEW t \in Timers, Fire(t)
      PROVE  Ticks'
  BY <1>6 DEF Fire, Owned
<1>7. ASSUME NEW t \in Timers, Send(t)
      PROVE  Ticks'
  <2>1. PICK s \in sending[t] :
            /\ sending' = [sending EXCEPT ![t] = @ \ {s}]
            /\ tick' = [tick EXCEPT ![t] = IF @ = "none" THEN s ELSE @]
    BY <1>7 DEF Send
  <2> QED
    BY <1>7, <2>1 DEF Send
<1>8. ASSUME Close \/ WaitReturns \/ CloseReturns
      PROVE  Ticks'
  BY <1>8 DEF Close, WaitReturns, CloseReturns
<1>9. ASSUME UNCHANGED vars
      PROVE  Ticks'
  BY <1>9 DEF vars
<1> QED
  BY <1>1, <1>2, <1>3, <1>4, <1>5, <1>6, <1>7, <1>8, <1>9, Steps

(* The sets that are counted are finite. *)
LEMMA Finite ==
    /\ IsFiniteSet(Holders) /\ IsFiniteSet(Running)
    /\ Cardinality(Holders) \in Nat /\ Cardinality(Running) \in Nat
<1>1. Holders \in SUBSET Callers /\ Running \in SUBSET Callers
  BY DEF Holders, Running
<1> QED
  BY <1>1, CallersAssumption, FS_Subset, FS_CardinalityType

(* A slot is taken and given back, and the wait group entered and left, by  *)
(* the call that is counted for it.                                         *)
LEMMA CountedStep ==
    ASSUME Inv, [Next]_vars
    PROVE  Counted'
<1> USE DEF Inv, Typed, Places, Counted, gate, timers, closing, Goto
<1>1. ASSUME NEW g \in Callers, InsertRows(g)
      PROVE  Counted'
  <2>1. g \notin Running /\ Running' = Running \cup {g} /\ Holders' = Holders
    BY <1>1 DEF InsertRows, Running, Holders
  <2> QED
    BY <1>1, <2>1, Finite, FS_AddElement DEF InsertRows
<1>2. ASSUME NEW g \in Callers, TryAcquire(g) \/ Acquire(g)
      PROVE  Counted'
  <2>1. g \notin Holders /\ Running' = Running /\ Holders' = Holders \cup {g}
    BY <1>2 DEF TryAcquire, Acquire, Running, Holders
  <2>2. slots' = slots + 1 /\ slots < WorkersLimit /\ wg' = wg
    BY <1>2 DEF TryAcquire, Acquire
  <2>3. Cardinality(Holders \cup {g}) = Cardinality(Holders) + 1
    BY <2>1, Finite, FS_AddElement
  <2> QED
    BY <2>1, <2>2, <2>3, BoundsAssumption
<1>3. ASSUME NEW g \in Callers,
             AllBusy(g) \/ GetPooled(g) \/ GetNew(g) \/ TimeOut(g) \/ Put(g)
      PROVE  Counted'
  <2>1. UNCHANGED <<slots, wg>>
    BY <1>3 DEF AllBusy, GetPooled, GetNew, TimeOut, Put
  <2>2. Running' = Running /\ Holders' = Holders
    BY <1>3 DEF AllBusy, GetPooled, GetNew, TimeOut, Put, Running, Holders
  <2> QED
    BY <2>1, <2>2
<1>4. ASSUME NEW g \in Callers, InsertEnds(g)
      PROVE  Counted'
  <2>1. g \in Holders /\ Running' = Running /\ Holders' = Holders \ {g}
    BY <1>4 DEF InsertEnds, Running, Holders
  <2>2. Cardinality(Holders \ {g}) = Cardinality(Holders) - 1
    BY <2>1, Finite, FS_RemoveElement
  <2>3. slots' = slots - 1 /\ wg' = wg
    BY <1>4 DEF InsertEnds
  <2> QED
    BY <2>1, <2>2, <2>3, BoundsAssumption
<1>5. ASSUME NEW g \in Callers, Return(g)
      PROVE  Counted'
  <2>1. g \in Running /\ Running' = Running \ {g} /\ Holders' = Holders
    BY <1>5 DEF Return, Running, Holders
  <2> QED
    BY <1>5, <2>1, Finite, FS_RemoveElement DEF Return
<1>6. ASSUME \/ \E t \in Timers : Fire(t) \/ Send(t)
             \/ Close \/ WaitReturns \/ CloseReturns \/ UNCHANGED vars
      PROVE  Counted'
  <2>1. UNCHANGED <<pc, slots, wg>>
    BY <1>6 DEF Fire, Send, Close, WaitReturns, CloseReturns, vars
  <2> QED
    BY <2>1 DEF Running, Holders
<1> QED
  BY <1>1, <1>2, <1>3, <1>4, <1>5, <1>6, Steps

(* The last call to return is the one that wakes Close. *)
LEMMA ClosingStep ==
    ASSUME Inv, [Next]_vars
    PROVE  Closing'
<1> USE DEF Inv, Typed, Places, Closing, gate, timers, closing, Goto
<1>0. Running = {} <=> wg = 0
  BY Finite, FS_EmptySet DEF Counted
<1>1. ASSUME NEW g \in Callers, InsertRows(g)
      PROVE  Closing'
  <2>1. Running' = Running \cup {g}
    BY <1>1 DEF InsertRows, Running
  <2> QED
    BY <1>1, <2>1 DEF InsertRows
<1>2. ASSUME NEW g \in Callers,
             TryAcquire(g) \/ AllBusy(g) \/ GetPooled(g) \/ GetNew(g) \/ Acquire(g) \/ TimeOut(g)
             \/ Put(g) \/ InsertEnds(g)
      PROVE  Closing'
  <2>1. UNCHANGED <<closer, early, late>>
    BY <1>2 DEF TryAcquire, AllBusy, GetPooled, GetNew, Acquire, TimeOut, Put, InsertEnds
  <2>2. Running' = Running
    BY <1>2 DEF TryAcquire, AllBusy, GetPooled, GetNew, Acquire, TimeOut, Put, InsertEnds, Running
  <2> QED
    BY <2>1, <2>2
<1>3. ASSUME NEW g \in Callers, Return(g)
      PROVE  Closing'
  <2>1. g \in Running /\ Running' = Running \ {g}
    BY <1>3 DEF Return, Running
  <2>2. wg = 1 => Running' = {}
    <3>1. IsFiniteSet(Running \ {g}) /\ Cardinality(Running \ {g}) = Cardinality(Running) - 1
      BY <2>1, Finite, FS_RemoveElement
    <3>2. wg = 1 => Cardinality(Running \ {g}) = 0
      BY <3>1 DEF Counted
    <3> QED
      BY <2>1, <3>1, <3>2, FS_EmptySet
  <2> QED
    BY <1>3, <2>1, <2>2 DEF Return
<1>4. ASSUME Close
      PROVE  Closing'
  BY <1>0, <1>4 DEF Close, Running
<1>5. ASSUME WaitReturns
      PROVE  Closing'
  BY <1>0, <1>5 DEF WaitReturns, Running
<1>6. ASSUME CloseReturns
      PROVE  Closing'
  BY <1>6 DEF CloseReturns, Running
<1>7. ASSUME (\E t \in Timers : Fire(t) \/ Send(t)) \/ UNCHANGED vars
      PROVE  Closing'
  <2>1. UNCHANGED <<pc, closer, early, late>>
    BY <1>7 DEF Fire, Send, vars
  <2> QED
    BY <2>1 DEF Running
<1> QED
  BY <1>1, <1>2, <1>3, <1>4, <1>5, <1>6, <1>7, Steps

-----------------------------------------------------------------------------
(* Inv holds in every state. *)
LEMMA AlwaysInv == Spec => []Inv
<1>1. Init => Inv
  <2> SUFFICES ASSUME Init PROVE Inv
    OBVIOUS
  <2>1. Holders = {} /\ Running = {}
    BY DEF Init, Holders, Running
  <2>2. Counted
    <3>1. Cardinality(Holders) = 0 /\ Cardinality(Running) = 0
      BY <2>1, FS_EmptySet
    <3> QED
      BY <3>1, BoundsAssumption DEF Init, Counted
  <2>3. Typed
    <3>1. /\ armed \in [Timers -> BOOLEAN] /\ late \in BOOLEAN
          /\ sending \in [Timers -> SUBSET {"own", "stale"}]
      BY Zenon DEF Init
    <3>2. /\ pc \in [Callers -> Places] /\ timer \in [Callers -> Timers \cup {None}]
          /\ tick \in [Timers -> {"none", "own", "stale"}]
      BY DEF Init, Places
    <3> QED
      BY <3>1, <3>2 DEF Init, Typed
  <2>6. Owned
    BY DEF Init, Owned
  <2>4. Ticks
    BY DEF Init, Ticks, OnlyLateTicks
  <2>5. Closing
    BY DEF Init, Closing
  <2> QED
    BY <2>2, <2>3, <2>4, <2>5, <2>6 DEF Inv
<1>2. Inv /\ [Next]_vars => Inv'
  BY TypedStep, OwnedStep, TicksStep, CountedStep, ClosingStep DEF Inv
<1> QED
  BY <1>1, <1>2, PTL DEF Spec

(* The state of the gate stays within its type. *)
THEOREM TypeCorrect == Spec => []TypeOK
<1>1. Inv => TypeOK
  BY Finite DEF Inv, Typed, Places, Counted, TypeOK
<1> QED
  BY <1>1, AlwaysInv, PTL

(* However many goroutines call InsertRows, those inside insert are as many *)
(* as the elements of workersLimitCh, at most its capacity: no path through *)
(* the two selects loses a slot or takes one too many.                      *)
THEOREM SlotsAlwaysExact == Spec => []SlotsExact
<1>1. Inv => SlotsExact
  BY DEF Inv, Counted, SlotsExact
<1> QED
  BY <1>1, AlwaysInv, PTL

(* timerpool.Get never gets an active timer, so that its panic is out of    *)
(* reach, and two calls never wait on the same timer.                       *)
THEOREM PoolAlwaysInactive == Spec => []PoolInactive
<1>1. Inv => PoolInactive
  BY DEF Inv, Ticks, Owned, PoolInactive
<1> QED
  BY <1>1, AlwaysInv, PTL

(* Put leaves a tick behind only when the runtime is sending it meanwhile.  *)
THEOREM TicksOnlyLate == Spec => []OnlyLateTicks
<1>1. Inv => OnlyLateTicks
  BY DEF Inv, Ticks
<1> QED
  BY <1>1, AlwaysInv, PTL

(* Close goes on only after the calls that were running when it was called, *)
(* whatever calls begin meanwhile.                                          *)
THEOREM AlwaysGraceful == Spec => []Graceful
<1>1. Inv => Graceful
  BY DEF Inv, Closing, Graceful
<1> QED
  BY <1>1, AlwaysInv, PTL
=============================================================================
