----------------------------- MODULE InsertGate -----------------------------
(***************************************************************************)
(* The way into InsertRows and out of it: the slots of workersLimitCh, the *)
(* wait for one with a timer of internal/timerpool, the wait group, and    *)
(* the wait of Close for the calls that are running.  What a call does     *)
(* with its slot is in MemoryPartition and Storage.                        *)
(*                                                                         *)
(* A timer is one of go 1.20 (go.mod): it fires by leaving the heap first  *)
(* and sending to its buffered channel afterwards, so that Stop may find   *)
(* it neither active nor with a tick in its channel.                       *)
(***************************************************************************)
EXTENDS Integers, FiniteSets

CONSTANTS
    Callers,        \* the goroutines that call InsertRows
    Timers,         \* bound: the timers that exist
    WorkersLimit,   \* the capacity of workersLimitCh
    MaxCalls,       \* bound: InsertRows calls
    None            \* nil

ASSUME CallersAssumption == IsFiniteSet(Callers)
ASSUME TimersAssumption == None \notin Timers
ASSUME BoundsAssumption == WorkersLimit \in Nat \ {0} /\ MaxCalls \in Nat

VARIABLES
    pc, timer,              \* of an InsertRows call: where it is, and its timer
    slots,                  \* the elements of workersLimitCh
    wg,                     \* the counter of the wait group
    pool, made,             \* the timers in the pool, and all that NewTimer has made
    armed, sending, tick,   \* of a timer: active, fired without having sent, in the channel
    closer,                 \* where Close is
    calls,
    early, late,            \* history: the calls Close found running; whether one began after it
    overtaken               \* history: the timers put back while the runtime was sending

gate == <<slots, wg>>
timers == <<pool, made, armed, sending, tick, overtaken>>
closing == <<closer, early, late>>
vars == <<pc, timer, gate, timers, closing, calls>>

Init ==
    /\ pc = [g \in Callers |-> "idle"] /\ timer = [g \in Callers |-> None]
    /\ slots = 0 /\ wg = 0
    /\ pool = {} /\ made = {}
    /\ armed = [t \in Timers |-> FALSE] /\ tick = [t \in Timers |-> "none"]
    /\ sending = [t \in Timers |-> {}] /\ overtaken = {}
    /\ closer = "open" /\ early = {} /\ late = FALSE
    /\ calls = 0

Goto(g, label) == pc' = [pc EXCEPT ![g] = label]
Running == {g \in Callers : pc[g] # "idle"}

-----------------------------------------------------------------------------
(* InsertRows *)

InsertRows(g) ==
    /\ pc[g] = "idle" /\ calls < MaxCalls
    /\ wg' = wg + 1 /\ calls' = calls + 1
    /\ late' = (late \/ closer # "open")
    /\ Goto(g, "try")
    /\ UNCHANGED <<timer, slots, timers, closer, early>>

(* The first select takes a slot that is free at once ... *)
TryAcquire(g) ==
    /\ pc[g] = "try" /\ slots < WorkersLimit
    /\ slots' = slots + 1
    /\ Goto(g, "insert")
    /\ UNCHANGED <<timer, wg, timers, closing, calls>>

(* ... and has a default. *)
AllBusy(g) ==
    /\ pc[g] = "try" /\ slots = WorkersLimit
    /\ Goto(g, "get")
    /\ UNCHANGED <<timer, gate, timers, closing, calls>>

(* Reset makes what the timer has sent or is sending a tick of the past. *)
Reset(t) ==
    /\ armed' = [armed EXCEPT ![t] = TRUE]
    /\ sending' = [sending EXCEPT ![t] = IF @ = {} THEN @ ELSE {"stale"}]
    /\ tick' = [tick EXCEPT ![t] = IF @ = "none" THEN @ ELSE "stale"]

(* timerpool.Get panics when the timer it takes from the pool is active ... *)
GetPooled(g) ==
    /\ pc[g] = "get"
    /\ \E t \in pool :
          /\ pool' = pool \ {t} /\ timer' = [timer EXCEPT ![g] = t]
          /\ Goto(g, IF armed[t] THEN "panic" ELSE "wait")
          /\ Reset(t)
    /\ UNCHANGED <<gate, made, overtaken, closing, calls>>

(* ... and makes one when the pool gives none: a sync.Pool may forget. *)
GetNew(g) ==
    /\ pc[g] = "get"
    /\ \E t \in Timers \ made :
          /\ made' = made \cup {t} /\ timer' = [timer EXCEPT ![g] = t]
          /\ armed' = [armed EXCEPT ![t] = TRUE]
    /\ Goto(g, "wait")
    /\ UNCHANGED <<gate, pool, sending, tick, overtaken, closing, calls>>

(* Of two cases that are ready the second select takes either. *)
Acquire(g) ==
    /\ pc[g] = "wait" /\ slots < WorkersLimit
    /\ slots' = slots + 1
    /\ Goto(g, "putAcquired")
    /\ UNCHANGED <<timer, wg, timers, closing, calls>>

TimeOut(g) ==
    /\ pc[g] = "wait" /\ tick[timer[g]] # "none"
    /\ tick' = [tick EXCEPT ![timer[g]] = "none"]
    /\ Goto(g, "putExpired")
    /\ UNCHANGED <<timer, gate, pool, made, armed, sending, overtaken, closing, calls>>

(* Mutant: the timer is put back without being stopped. *)
Put_NoStop(g) ==
    /\ pc[g] \in {"putAcquired", "putExpired"}
    /\ LET t == timer[g]
       IN  /\ tick' = [tick EXCEPT ![t] = IF armed[t] THEN @ ELSE "none"]
           /\ overtaken' = IF sending[t] # {} THEN overtaken \cup {t} ELSE overtaken
           /\ pool' = pool \cup {t} /\ timer' = [timer EXCEPT ![g] = None]
    /\ Goto(g, IF pc[g] = "putAcquired" THEN "insert" ELSE "overloaded")
    /\ UNCHANGED <<gate, made, armed, sending, closing, calls>>

(* Mutant: the channel of a timer that has fired is not drained. *)
Put_NoDrain(g) ==
    /\ pc[g] \in {"putAcquired", "putExpired"}
    /\ LET t == timer[g]
       IN  /\ armed' = [armed EXCEPT ![t] = FALSE]
           /\ overtaken' = IF sending[t] # {} THEN overtaken \cup {t} ELSE overtaken
           /\ pool' = pool \cup {t} /\ timer' = [timer EXCEPT ![g] = None]
    /\ Goto(g, IF pc[g] = "putAcquired" THEN "insert" ELSE "overloaded")
    /\ UNCHANGED <<gate, made, tick, sending, closing, calls>>

(* timerpool.Put stops the timer, drains the channel of one that was not    *)
(* active any more, and puts it in the pool.                                *)
Put(g) ==
    /\ pc[g] \in {"putAcquired", "putExpired"}
    /\ LET t == timer[g]
       IN  /\ armed' = [armed EXCEPT ![t] = FALSE]
           /\ tick' = [tick EXCEPT ![t] = IF armed[t] THEN @ ELSE "none"]
           /\ overtaken' = IF sending[t] # {} THEN overtaken \cup {t} ELSE overtaken
           /\ pool' = pool \cup {t} /\ timer' = [timer EXCEPT ![g] = None]
    /\ Goto(g, IF pc[g] = "putAcquired" THEN "insert" ELSE "overloaded")
    /\ UNCHANGED <<gate, made, sending, closing, calls>>

(* Mutant: only an insertion without an error gives its slot back. *)
InsertEnds_OnSuccess(g) ==
    /\ pc[g] = "insert"
    /\ \E err \in BOOLEAN : slots' = IF err THEN slots ELSE slots - 1
    /\ Goto(g, "return")
    /\ UNCHANGED <<timer, wg, timers, closing, calls>>

(* insert returns, with or without an error, and gives the slot back. *)
InsertEnds(g) ==
    /\ pc[g] = "insert"
    /\ slots' = slots - 1
    /\ Goto(g, "return")
    /\ UNCHANGED <<timer, wg, timers, closing, calls>>

(* Mutant: a call that timed out does not leave the wait group. *)
Return_Overloaded(g) ==
    /\ pc[g] \in {"return", "overloaded"}
    /\ wg' = IF pc[g] = "return" THEN wg - 1 ELSE wg
    /\ closer' = IF closer = "wait" /\ wg' = 0 THEN "woken" ELSE closer
    /\ early' = early \ {g}
    /\ Goto(g, "idle")
    /\ UNCHANGED <<timer, slots, timers, late, calls>>

(* wg.Done; the last one wakes the Close that waits. *)
Return(g) ==
    /\ pc[g] \in {"return", "overloaded"}
    /\ wg' = wg - 1
    /\ closer' = IF closer = "wait" /\ wg = 1 THEN "woken" ELSE closer
    /\ early' = early \ {g}
    /\ Goto(g, "idle")
    /\ UNCHANGED <<timer, slots, timers, late, calls>>

-----------------------------------------------------------------------------
(* The runtime's side of a timer *)

Fire(t) ==
    /\ armed[t]
    /\ armed' = [armed EXCEPT ![t] = FALSE]
    /\ sending' = [sending EXCEPT ![t] = @ \cup {"own"}]
    /\ UNCHANGED <<pc, timer, gate, pool, made, tick, overtaken, closing, calls>>

(* A send to a channel that is full is dropped. *)
Send(t) ==
    /\ \E s \in sending[t] :
          /\ sending' = [sending EXCEPT ![t] = @ \ {s}]
          /\ tick' = [tick EXCEPT ![t] = IF @ = "none" THEN s ELSE @]
    /\ UNCHANGED <<pc, timer, gate, pool, made, armed, overtaken, closing, calls>>

-----------------------------------------------------------------------------
(* Close *)

(* Mutant: Close does not wait. *)
Close_NoWait ==
    /\ closer = "open"
    /\ closer' = "closing"
    /\ early' = Running
    /\ UNCHANGED <<pc, timer, gate, timers, late, calls>>

(* wg.Wait returns at once when no call is running. *)
Close ==
    /\ closer = "open"
    /\ closer' = IF wg = 0 THEN "closing" ELSE "wait"
    /\ early' = Running
    /\ UNCHANGED <<pc, timer, gate, timers, late, calls>>

(* Woken, Wait panics when the wait group is in use again. *)
WaitReturns ==
    /\ closer = "woken"
    /\ closer' = IF wg = 0 THEN "closing" ELSE "panic"
    /\ UNCHANGED <<pc, timer, gate, timers, early, late, calls>>

(* The rest of Close is in Storage. *)
CloseReturns ==
    /\ closer = "closing"
    /\ closer' = "closed"
    /\ UNCHANGED <<pc, timer, gate, timers, early, late, calls>>

-----------------------------------------------------------------------------
(* A panic ends the process. *)
Alive == closer # "panic" /\ \A g \in Callers : pc[g] # "panic"

Step(g) ==
    /\ Alive
    /\ \/ TryAcquire(g) \/ AllBusy(g) \/ GetPooled(g) \/ GetNew(g)
       \/ Acquire(g) \/ TimeOut(g) \/ Put(g) \/ InsertEnds(g) \/ Return(g)

Runtime(t) == Alive /\ (Fire(t) \/ Send(t))
CloseStep == Alive /\ (WaitReturns \/ CloseReturns)

Finished == UNCHANGED vars /\ (~Alive \/ (Running = {} /\ calls = MaxCalls /\ closer = "closed"))

Next ==
    \/ \E g \in Callers : Step(g) \/ (Alive /\ InsertRows(g))
    \/ \E t \in Timers : Runtime(t)
    \/ Alive /\ Close
    \/ CloseStep
    \/ Finished

Spec == Init /\ [][Next]_vars

(* The scheduler runs every goroutine that can go on, an insertion ends,    *)
(* and the runtime fires the timers that are due.                           *)
FairSpec ==
    /\ Spec
    /\ \A g \in Callers : WF_vars(Step(g))
    /\ \A t \in Timers : WF_vars(Runtime(t))
    /\ WF_vars(CloseStep)

-----------------------------------------------------------------------------
(* Properties *)

(* Every variable stays within its type. *)
TypeOK ==
    /\ pc \in [Callers -> {"idle", "try", "get", "wait", "putAcquired", "putExpired", "insert",
                           "return", "overloaded", "panic"}]
    /\ timer \in [Callers -> Timers \cup {None}]
    /\ slots \in Nat /\ wg \in Nat /\ calls \in Nat
    /\ pool \subseteq Timers /\ made \subseteq Timers /\ overtaken \subseteq Timers
    /\ armed \in [Timers -> BOOLEAN]
    /\ sending \in [Timers -> SUBSET {"own", "stale"}]
    /\ tick \in [Timers -> {"none", "own", "stale"}]
    /\ closer \in {"open", "wait", "woken", "closing", "closed", "panic"}
    /\ early \subseteq Callers /\ late \in BOOLEAN

Holders == {g \in Callers : pc[g] \in {"putAcquired", "insert"}}

(* "Limit the number of concurrent goroutines": the slots in use are those  *)
(* of the calls on their way through insert, never more than the limit; a   *)
(* call that timed out or returned has left none behind.                    *)
SlotsExact == slots = Cardinality(Holders) /\ slots <= WorkersLimit

(* A timer in the pool is not active, so that Get never panics with "active *)
(* timer trapped to the pool!", and no timer is in use twice.               *)
PoolInactive ==
    /\ \A t \in pool : ~armed[t]
    /\ \A g \in Callers : timer[g] # None =>
          timer[g] \notin pool /\ \A h \in Callers \ {g} : timer[h] # timer[g]
    /\ \A g \in Callers : pc[g] # "panic"

(* A tick outlives the call whose timer it is from only if the runtime was  *)
(* still sending it when Put had nothing to drain: the drain in Put catches *)
(* every other one, so a call times out after its own wait.                 *)
OnlyLateTicks ==
    \A t \in Timers : tick[t] = "stale" \/ "stale" \in sending[t] => t \in overtaken

(* "the timeout to wait when workers are busy": a call times out on the     *)
(* tick of its own wait.                                                    *)
OwnTimeout == \A g \in Callers : pc[g] = "wait" => tick[timer[g]] # "stale"

(* "wg must be incremented to guarantee all writes are done gracefully":    *)
(* when Close goes on, all calls it found running are over, and it panics   *)
(* only over a call that began after it.                                    *)
Graceful ==
    /\ closer \in {"closing", "closed"} => early = {}
    /\ closer = "panic" => late

(* Every call returns, with its rows inserted or an error, although slots   *)
(* may stay taken as long as its timeout, and Close gets past its wait.     *)
GateReturns ==
    /\ \A g \in Callers : pc[g] # "idle" ~> pc[g] = "idle" \/ ~Alive
    /\ closer = "wait" ~> closer = "closed" \/ ~Alive
=============================================================================
