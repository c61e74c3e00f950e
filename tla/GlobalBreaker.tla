---------------------------- MODULE GlobalBreaker ----------------------------
(***************************************************************************)
(* The breaker that suspends the worker bot's cron cycle: the class        *)
(* CircuitBreaker of worker-bot/src/circuit-breaker.js over one KV record, *)
(* the health monitor that counts into it (src/monitor-live.js), the       *)
(* operator's reset and the gate in runScheduledCycle (index.js).          *)
(*                                                                         *)
(* A monitor runs its checks, reads the record, changes its copy and puts  *)
(* it: two monitors, or a monitor and a reset, may do so at once.  A       *)
(* rejected get is answered with the default, closed, record; a rejected   *)
(* put is swallowed.  Monitors run when somebody posts to                  *)
(* /api/monitor/run, which nothing in the repository does by itself.       *)
(*                                                                         *)
(* recordLoss has no caller and is left out, with the loss fields that     *)
(* only it writes.  The failure count is kept up to Threshold, the only    *)
(* number it is compared with.                                             *)
(***************************************************************************)
EXTENDS Naturals

CONSTANTS
    Monitor,     \* runs of runLiveMonitor that may overlap
    Cycle,       \* runs of runScheduledCycle that may overlap
    Threshold,   \* failures that open the breaker
    MaxResets,   \* bound: resets by the operator
    MaxMishaps   \* bound: rejected operations and lost workers

ASSUME GlobalAssumption ==
    /\ Threshold \in Nat \ {0}
    /\ {MaxResets, MaxMishaps} \subseteq Nat
    /\ Monitor \intersect Cycle = {}

Breaker == [state : {"closed", "open", "half_open"}, failures : 0..Threshold]

VARIABLES
    record,   \* the value under circuit_breaker_state
    broken,   \* has a checked component failed for good?
    pc,       \* where each monitor is
    copy,     \* the record a monitor is about to put
    gate,     \* where each cycle is
    resets,   \* how often the operator has reset
    mishaps,  \* how much has gone wrong
    \* history, read by no action's guard:
    stale,     \* monitors whose copy is of a record replaced since
    misread,   \* monitors and cycles whose get was rejected
    counted,   \* failures counted since the last reset, up to Threshold
    overtaken, \* did a reset come between a monitor's get and its put?
    before     \* cycles that passed the gate before the breaker opened

vars == <<record, broken, pc, copy, gate, resets, mishaps, stale, misread,
          counted, overtaken, before>>

TypeOK ==
    /\ record \in Breaker
    /\ broken \in BOOLEAN
    /\ pc \in [Monitor -> {"idle", "well", "ill", "put"}]
    /\ copy \in [Monitor -> Breaker]
    /\ gate \in [Cycle -> {"idle", "trading"}]
    /\ resets \in 0..MaxResets
    /\ mishaps \in 0..MaxMishaps
    /\ stale \subseteq Monitor
    /\ misread \subseteq Monitor \union Cycle
    /\ counted \in 0..Threshold
    /\ overtaken \in BOOLEAN
    /\ before \subseteq Cycle

-----------------------------------------------------------------------------
\* Mutated form of Default: the state is named otherwise than where it is read.
DefaultReady == [state |-> "ready", failures |-> 0]

\* defaultState
Default == [state |-> "closed", failures |-> 0]

\* One more, as far as the count is told apart.
OneMore(n) == IF n < Threshold THEN n + 1 ELSE n

\* Mutated form of AfterFailure: one failure short of the threshold opens.
AfterFailureEarly(r) ==
    [state    |-> IF r.failures + 2 >= Threshold THEN "open" ELSE r.state,
     failures |-> OneMore(r.failures)]

\* Mutated form of AfterFailure: the count is compared but not raised.
AfterFailureUncounted(r) ==
    [r EXCEPT !.state = IF r.failures >= Threshold THEN "open" ELSE @]

\* recordFailure
AfterFailure(r) ==
    [state    |-> IF OneMore(r.failures) >= Threshold THEN "open" ELSE r.state,
     failures |-> OneMore(r.failures)]

\* recordSuccess returns at once on an open breaker.
Ignored(r) == r.state = "open"

\* recordSuccess
AfterSuccess(r) ==
    [state    |-> IF r.state = "half_open" THEN "closed" ELSE r.state,
     failures |-> 0]

\* isTradingAllowed
Allowed(r) == r.state # "open"

GoTo(m, label) == pc' = [pc EXCEPT ![m] = label]

\* Something goes wrong, within the bound.
Mishap == mishaps < MaxMishaps /\ mishaps' = mishaps + 1

-----------------------------------------------------------------------------
Init ==
    /\ record = Default
    /\ broken = FALSE
    /\ pc = [m \in Monitor |-> "idle"]
    /\ copy = [m \in Monitor |-> Default]
    /\ gate = [c \in Cycle |-> "idle"]
    /\ resets = 0
    /\ mishaps = 0
    /\ stale = {}
    /\ misread = {}
    /\ counted = 0
    /\ overtaken = FALSE
    /\ before = {}

\* The five checks of a monitor, D1, KV, R2, exchanges and engine, each of which
\* may fail; one that fails for good fails them all.
Check(m) ==
    /\ pc[m] = "idle"
    /\ \/ ~broken /\ GoTo(m, "well")
       \/ GoTo(m, "ill")
    /\ UNCHANGED <<record, broken, copy, gate, resets, mishaps, stale, misread,
                   counted, overtaken, before>>

\* The get of getState: the record, or the default when it is rejected.
Read(m, r) ==
    \/ /\ r = record
       /\ misread' = misread \ {m}
       /\ UNCHANGED mishaps
    \/ /\ r = Default
       /\ Mishap
       /\ misread' = misread \union {m}

\* Mutated form of ReadWell: a good check starts the record afresh.
ReadWellAfresh(m) ==
    /\ pc[m] = "well"
    /\ \E r \in {record, Default} : Read(m, r)
    /\ copy' = [copy EXCEPT ![m] = Default]
    /\ GoTo(m, "put")
    /\ stale' = stale \ {m}
    /\ UNCHANGED <<record, broken, gate, resets, counted, overtaken, before>>

\* The checks went well: recordSuccess as far as its put.
ReadWell(m) ==
    /\ pc[m] = "well"
    /\ \E r \in {record, Default} :
         /\ Read(m, r)
         /\ \/ Ignored(r) /\ GoTo(m, "idle") /\ UNCHANGED copy
            \/ /\ ~Ignored(r)
               /\ copy' = [copy EXCEPT ![m] = AfterSuccess(r)]
               /\ GoTo(m, "put")
    /\ stale' = stale \ {m}
    /\ UNCHANGED <<record, broken, gate, resets, counted, overtaken, before>>

\* A check failed: recordFailure as far as its put.
ReadIll(m) ==
    /\ pc[m] = "ill"
    /\ \E r \in {record, Default} :
         /\ Read(m, r)
         /\ copy' = [copy EXCEPT ![m] = AfterFailure(r)]
    /\ counted' = OneMore(counted)
    /\ GoTo(m, "put")
    /\ stale' = stale \ {m}
    /\ UNCHANGED <<record, broken, gate, resets, overtaken, before>>

\* Monitors between their get and their put, others than m.
Between(m) == {r \in Monitor \ {m} : pc[r] = "put"}

\* Cycles that are trading when the breaker opens were let through before.
Opens(r) ==
    before' = IF Allowed(record) /\ ~Allowed(r)
              THEN {c \in Cycle : gate[c] = "trading"} ELSE before

\* saveState; a rejected put is swallowed.
Write(m) ==
    /\ pc[m] = "put"
    /\ \/ /\ record' = copy[m]
          /\ stale' = (stale \ {m}) \union Between(m)
          /\ Opens(copy[m])
          /\ UNCHANGED mishaps
       \/ /\ Mishap
          /\ stale' = stale \ {m}
          /\ UNCHANGED <<record, before>>
    /\ GoTo(m, "idle")
    /\ UNCHANGED <<broken, copy, gate, resets, misread, counted, overtaken>>

\* The worker ends before its put.
Die(m) ==
    /\ pc[m] # "idle"
    /\ Mishap
    /\ GoTo(m, "idle")
    /\ stale' = stale \ {m}
    /\ UNCHANGED <<record, broken, copy, gate, resets, misread, counted, overtaken,
                   before>>

\* /api/admin/reset-breaker puts a fresh half-open record, /api/reset deletes the
\* key; neither looks at what is there.
Reset ==
    /\ resets < MaxResets
    /\ resets' = resets + 1
    /\ record' \in {Default, [Default EXCEPT !.state = "half_open"]}
    /\ stale' = stale \union {m \in Monitor : pc[m] = "put"}
    /\ counted' = 0
    /\ overtaken' = (overtaken \/ \E m \in Monitor : pc[m] = "put")
    /\ UNCHANGED <<broken, pc, copy, gate, mishaps, misread, before>>

\* Mutated form of PassGate: the answer is not looked at.
PassGateAlways(c) ==
    /\ gate[c] = "idle"
    /\ gate' = [gate EXCEPT ![c] = "trading"]
    /\ misread' = misread \ {c}
    /\ before' = before \ {c}
    /\ UNCHANGED <<record, broken, pc, copy, resets, mishaps, stale, counted,
                   overtaken>>

\* isTradingAllowed in runScheduledCycle; a refused cycle returns.
PassGate(c) ==
    /\ gate[c] = "idle"
    /\ \E r \in {record, Default} :
         /\ Read(c, r)
         /\ Allowed(r)
    /\ gate' = [gate EXCEPT ![c] = "trading"]
    /\ before' = before \ {c}
    /\ UNCHANGED <<record, broken, pc, copy, resets, stale, counted, overtaken>>

EndCycle(c) ==
    /\ gate[c] = "trading"
    /\ gate' = [gate EXCEPT ![c] = "idle"]
    /\ UNCHANGED <<record, broken, pc, copy, resets, mishaps, stale, misread,
                   counted, overtaken, before>>

\* A database, the engine or every exchange key is gone and does not come back.
BreakDown ==
    /\ ~broken
    /\ broken' = TRUE
    /\ UNCHANGED <<record, pc, copy, gate, resets, mishaps, stale, misread, counted,
                   overtaken, before>>

Next ==
    \/ \E m \in Monitor : Check(m) \/ ReadWell(m) \/ ReadIll(m) \/ Write(m) \/ Die(m)
    \/ \E c \in Cycle : PassGate(c) \/ EndCycle(c)
    \/ Reset
    \/ BreakDown

Spec == Init /\ [][Next]_vars

\* A monitor that was called goes on; nobody is obliged to call one.
FairSpec ==
    Spec /\ \A m \in Monitor : WF_vars(ReadWell(m) \/ ReadIll(m) \/ Write(m))

-----------------------------------------------------------------------------
(* What the breaker promises. *)

\* "Use /api/admin/reset-breaker to reset": no good check closes an open breaker.
\* A monitor does so only with a copy it made before the record changed, or of
\* the default it was given for a rejected get.
OpenUndoneNeedsCause ==
    [][\A m \in Monitor :
         Write(m) /\ ~Allowed(record) /\ Allowed(record')
            => m \in stale \union misread]_vars

\* An open breaker has counted Threshold failures since the operator's last reset,
\* however counts were lost to each other, unless that reset overtook a monitor
\* that had already read.
OpenWasEarned == ~Allowed(record) => counted = Threshold \/ overtaken

\* "Trading suspended": a cycle that trades while the breaker is open passed the
\* gate before it opened, or was answered the default for a rejected get.
SuspendedCyclesWereThrough ==
    \A c \in Cycle :
        gate[c] = "trading" /\ ~Allowed(record) => c \in before \union misread

\* While a component is down for good and monitors keep being called, the breaker
\* opens, again after every reset and every stale put.
OutageTrips ==
    ([]<><<\E m \in Monitor : Check(m)>>_vars) => (broken ~> ~Allowed(record))
=============================================================================
