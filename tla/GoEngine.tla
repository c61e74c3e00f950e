------------------------------- MODULE GoEngine -------------------------------
(***************************************************************************)
(* The trade bookkeeping of the Go engine (go-engine/cmd/hft/main.go).     *)
(* engine.execute is called by the scan loop, one call after the other, and*)
(* by every POST /api/execute, each in a goroutine of its own.  equity,    *)
(* dailyPnL, dailyTrades, lastTrade and the circuit breaker are plain      *)
(* fields with no lock, so every read and every write of one is a step:    *)
(* x += y is a load and a store, and the race of two of them loses one.    *)
(*                                                                         *)
(* The daily loss guard is left out: execute refuses an opportunity below  *)
(* MinNetProfitPct and books its estimate, so dailyPnL never falls.  Every *)
(* trade books one unit.  What the orders leave behind is the subject of   *)
(* TradeExecution; here they take time and feed the circuit breaker.       *)
(***************************************************************************)
EXTENDS Integers

CONSTANTS
    Loop,         \* executions started by the scan loop
    Post,         \* executions started by POST /api/execute
    Venue,        \* the exchanges executeLive can buy on
    NoVenue,      \* no order was sent yet
    MinGap,       \* MinSecondsBetweenTx, in ticks
    MaxFailures,  \* cbMaxFailures
    ResetWindow,  \* cbResetWindow, in ticks
    MaxTime,      \* bound: the clock stops here
    Restarts      \* may the process stop and start again?

Exec  == Loop \union Post
Entry == 1..3     \* e.equity, e.dailyPnL, e.dailyTrades, in the order execute adds to them

ASSUME EngineAssumption ==
    /\ Loop \intersect Post = {}
    /\ NoVenue \notin Venue
    /\ {MinGap, ResetWindow, MaxTime} \subseteq Nat
    /\ MaxFailures \in Nat \ {0}
    /\ Restarts \in BOOLEAN

VARIABLES
    now,       \* the clock
    live,      \* the mode of the configuration
    pc,        \* where each execution is
    seen,      \* what it read of lastTrade, later the time it is about to write
    venue,     \* the exchange it buys on
    entry,     \* the field it is adding to
    reg,       \* the value it loaded
    field,     \* equity (less the initial capital), dailyPnL and dailyTrades
    lastTrade, \* 0 is the zero time
    failures, lastFail, open,   \* the breaker of each venue
    \* history, read by no action's guard:
    added,     \* how often each field was added to since the process started
    failed,    \* failed buys the breaker of a venue counted since then
    ended,     \* the time each execution stamped
    shared,    \* executions that were in flight together with another
    restarted  \* was the process restarted?

locals  == <<seen, venue, entry, reg>>
books   == <<field, lastTrade>>
breaker == <<failures, lastFail, open>>
history == <<added, failed, ended, shared, restarted>>
vars == <<now, live, pc, locals, books, breaker, history>>

InFlight == {"guard", "buy", "fail", "tally", "count", "trip", "clear", "close", "sell",
             "load", "store", "stamp", "write"}
Over     == {"done", "refused", "dead"}

TypeOK ==
    /\ now \in Nat
    /\ live \in BOOLEAN
    /\ pc \in [Exec -> {"idle"} \union InFlight \union Over]
    /\ seen \in [Exec -> Nat]
    /\ venue \in [Exec -> Venue \union {NoVenue}]
    /\ entry \in [Exec -> Entry]
    /\ reg \in [Exec -> Nat]
    /\ field \in [Entry -> Nat]
    /\ lastTrade \in Nat
    /\ failures \in [Venue -> Nat]
    /\ lastFail \in [Venue -> Nat]
    /\ open \in [Venue -> BOOLEAN]
    /\ added \in [Entry -> Nat]
    /\ failed \in [Venue -> Nat]
    /\ ended \in [Exec -> Nat]
    /\ shared \subseteq Exec
    /\ restarted \in BOOLEAN

-----------------------------------------------------------------------------
GoTo(e, label) == pc' = [pc EXCEPT ![e] = label]

Active == {e \in Exec : pc[e] \in InFlight}

\* The process starts at a time the zero time is long before.
Init ==
    /\ now = MinGap
    /\ live \in BOOLEAN
    /\ pc = [e \in Exec |-> "idle"]
    /\ seen = [e \in Exec |-> 0]
    /\ venue = [e \in Exec |-> NoVenue]
    /\ entry = [e \in Exec |-> 1]
    /\ reg = [e \in Exec |-> 0]
    /\ field = [i \in Entry |-> 0]
    /\ lastTrade = 0
    /\ failures = [v \in Venue |-> 0]
    /\ lastFail = [v \in Venue |-> 0]
    /\ open = [v \in Venue |-> FALSE]
    /\ added = [i \in Entry |-> 0]
    /\ failed = [v \in Venue |-> 0]
    /\ ended = [e \in Exec |-> 0]
    /\ shared = {}
    /\ restarted = FALSE

\* execute is called with an opportunity worth taking and reads lastTrade.
Enter(e) ==
    /\ pc[e] = "idle"
    /\ e \in Loop => Active \intersect Loop = {}
    /\ seen' = [seen EXCEPT ![e] = lastTrade]
    /\ shared' = IF Active = {} THEN shared ELSE shared \union Active \union {e}
    /\ GoTo(e, "guard")
    /\ UNCHANGED <<now, live, venue, entry, reg, books, breaker, added, failed,
                   ended, restarted>>

\* time.Since(lastTrade) is too little.
Refuse(e) ==
    /\ pc[e] = "guard"
    /\ now - seen[e] < MinGap
    /\ GoTo(e, "refused")
    /\ UNCHANGED <<now, live, locals, books, breaker, history>>

\* Mutated form of Admit: the guard left out.
AdmitAll(e) ==
    /\ pc[e] = "guard"
    /\ GoTo(e, IF live THEN "buy" ELSE "load")
    /\ UNCHANGED <<now, live, locals, books, breaker, history>>

\* It is enough: a live trade places its orders, a paper trade is booked.
Admit(e) ==
    /\ pc[e] = "guard"
    /\ ~(now - seen[e] < MinGap)
    /\ GoTo(e, IF live THEN "buy" ELSE "load")
    /\ UNCHANGED <<now, live, locals, books, breaker, history>>

-----------------------------------------------------------------------------
(* executeLive and the circuit breaker *)

\* The buy order resolves or fails; on a venue executeLive does not know there
\* is no order at all.
Buy(e) ==
    /\ pc[e] = "buy"
    /\ \/ \E v \in Venue : /\ venue' = [venue EXCEPT ![e] = v]
                           /\ GoTo(e, "clear") \/ GoTo(e, "fail")
       \/ GoTo(e, "sell") /\ UNCHANGED venue
    /\ UNCHANGED <<now, live, seen, entry, reg, books, breaker, history>>

\* recordFailure: failures older than the window are forgotten, and in a statement
\* of its own the counter is loaded.
ForgetFailures(e) ==
    /\ pc[e] = "fail"
    /\ LET v == venue[e]
           old == now - lastFail[v] > ResetWindow
       IN  /\ failures' = IF old THEN [failures EXCEPT ![v] = 0] ELSE failures
           /\ open' = IF old THEN [open EXCEPT ![v] = FALSE] ELSE open
    /\ GoTo(e, "tally")
    /\ UNCHANGED <<now, live, locals, books, lastFail, history>>

LoadFailures(e) ==
    /\ pc[e] = "tally"
    /\ reg' = [reg EXCEPT ![e] = failures[venue[e]]]
    /\ GoTo(e, "count")
    /\ UNCHANGED <<now, live, seen, venue, entry, books, breaker, history>>

CountFailure(e) ==
    /\ pc[e] = "count"
    /\ failures' = [failures EXCEPT ![venue[e]] = reg[e] + 1]
    /\ lastFail' = [lastFail EXCEPT ![venue[e]] = now]
    /\ failed' = [failed EXCEPT ![venue[e]] = @ + 1]
    /\ GoTo(e, "trip")
    /\ UNCHANGED <<now, live, locals, books, open, added, ended, shared, restarted>>

\* Mutated form of TripBreaker: one failure too early.
TripEarly(e) ==
    /\ pc[e] = "trip"
    /\ open' = IF failures[venue[e]] + 1 >= MaxFailures
               THEN [open EXCEPT ![venue[e]] = TRUE] ELSE open
    /\ GoTo(e, "load")
    /\ UNCHANGED <<now, live, locals, books, failures, lastFail, history>>

\* The counter is read again; executeLive returns and the trade is booked.
TripBreaker(e) ==
    /\ pc[e] = "trip"
    /\ open' = IF failures[venue[e]] >= MaxFailures
               THEN [open EXCEPT ![venue[e]] = TRUE] ELSE open
    /\ GoTo(e, "load")
    /\ UNCHANGED <<now, live, locals, books, failures, lastFail, history>>

\* recordSuccess
ClearFailures(e) ==
    /\ pc[e] = "clear"
    /\ failures' = [failures EXCEPT ![venue[e]] = 0]
    /\ GoTo(e, "close")
    /\ UNCHANGED <<now, live, locals, books, lastFail, open, history>>

CloseBreaker(e) ==
    /\ pc[e] = "close"
    /\ open' = [open EXCEPT ![venue[e]] = FALSE]
    /\ GoTo(e, "sell")
    /\ UNCHANGED <<now, live, locals, books, failures, lastFail, history>>

\* The sell order resolves, or fails with a line in the log.
Sell(e) ==
    /\ pc[e] = "sell"
    /\ GoTo(e, "load")
    /\ UNCHANGED <<now, live, locals, books, breaker, history>>

-----------------------------------------------------------------------------
(* the books *)

Load(e) ==
    /\ pc[e] = "load"
    /\ reg' = [reg EXCEPT ![e] = field[entry[e]]]
    /\ GoTo(e, "store")
    /\ UNCHANGED <<now, live, seen, venue, entry, books, breaker, history>>

\* Mutated forms of Store: the profit added twice; one field too many.
StoreTwice(e) ==
    /\ pc[e] = "store"
    /\ field' = [field EXCEPT ![entry[e]] = reg[e] + 2]
    /\ added' = [added EXCEPT ![entry[e]] = @ + 1]
    /\ \/ entry[e] < 3 /\ entry' = [entry EXCEPT ![e] = @ + 1] /\ GoTo(e, "load")
       \/ entry[e] = 3 /\ GoTo(e, "stamp") /\ UNCHANGED entry
    /\ UNCHANGED <<now, live, seen, venue, reg, lastTrade, breaker, failed, ended,
                   shared, restarted>>
StoreOn(e) ==
    /\ pc[e] = "store"
    /\ field' = [field EXCEPT ![entry[e]] = reg[e] + 1]
    /\ added' = [added EXCEPT ![entry[e]] = @ + 1]
    /\ entry' = [entry EXCEPT ![e] = @ + 1]
    /\ GoTo(e, IF entry[e] < 3 THEN "load" ELSE "stamp")
    /\ UNCHANGED <<now, live, seen, venue, reg, lastTrade, breaker, failed, ended,
                   shared, restarted>>

Store(e) ==
    /\ pc[e] = "store"
    /\ field' = [field EXCEPT ![entry[e]] = reg[e] + 1]
    /\ added' = [added EXCEPT ![entry[e]] = @ + 1]
    /\ \/ entry[e] < 3 /\ entry' = [entry EXCEPT ![e] = @ + 1] /\ GoTo(e, "load")
       \/ entry[e] = 3 /\ GoTo(e, "stamp") /\ UNCHANGED entry
    /\ UNCHANGED <<now, live, seen, venue, reg, lastTrade, breaker, failed, ended,
                   shared, restarted>>

\* time.Now() is taken, then written.
Stamp(e) ==
    /\ pc[e] = "stamp"
    /\ seen' = [seen EXCEPT ![e] = now]
    /\ ended' = [ended EXCEPT ![e] = now]
    /\ GoTo(e, "write")
    /\ UNCHANGED <<now, live, venue, entry, reg, books, breaker, added, failed,
                   shared, restarted>>

WriteLastTrade(e) ==
    /\ pc[e] = "write"
    /\ lastTrade' = seen[e]
    /\ GoTo(e, "done")
    /\ UNCHANGED <<now, live, locals, field, breaker, history>>

-----------------------------------------------------------------------------
\* The process ends, on a signal (main returns without waiting for the API
\* server) or by a fatal error (two goroutines in the breaker's map at once), and
\* is started again with nothing in memory.  Bound: one restart.
Restart ==
    /\ Restarts /\ ~restarted
    /\ pc' = [e \in Exec |-> IF e \in Active THEN "dead" ELSE pc[e]]
    /\ field' = [i \in Entry |-> 0]
    /\ lastTrade' = 0
    /\ failures' = [v \in Venue |-> 0]
    /\ lastFail' = [v \in Venue |-> 0]
    /\ open' = [v \in Venue |-> FALSE]
    /\ added' = [i \in Entry |-> 0]
    /\ failed' = [v \in Venue |-> 0]
    /\ restarted' = TRUE
    /\ UNCHANGED <<now, live, locals, ended, shared>>

Tick ==
    /\ now < MaxTime
    /\ now' = now + 1
    /\ UNCHANGED <<live, pc, locals, books, breaker, history>>

Quiescent ==
    /\ now = MaxTime
    /\ \A e \in Exec : pc[e] \in Over
    /\ UNCHANGED vars

Step(e) ==
    \/ Refuse(e) \/ Admit(e)
    \/ Buy(e) \/ Sell(e)
    \/ ForgetFailures(e) \/ LoadFailures(e) \/ CountFailure(e) \/ TripBreaker(e)
    \/ ClearFailures(e) \/ CloseBreaker(e)
    \/ Load(e) \/ Store(e)
    \/ Stamp(e) \/ WriteLastTrade(e)

Next ==
    \/ \E e \in Exec : Enter(e) \/ Step(e)
    \/ Restart
    \/ Tick
    \/ Quiescent

Spec == Init /\ [][Next]_vars

-----------------------------------------------------------------------------
(* What is left of the guards and the books when nothing is locked. *)

\* An execution is admitted less than MinSecondsBetweenTx after another one
\* stamped its end only if that one was in flight together with some execution,
\* or the process was restarted.
SpacingLostOnlyByOverlap ==
    [][\A e, f \in Exec :
         /\ Admit(e)
         /\ pc[f] = "done"
         /\ now - ended[f] < MinGap
         => f \in shared \/ restarted]_vars

\* Whatever races, the books never show more than was traded since the process
\* started, and they are exact as long as no two executions were in flight
\* together.
BooksOnlyLoseByOverlap ==
    /\ \A i \in Entry : field[i] <= added[i]
    /\ shared = {} => \A i \in Entry : field[i] = added[i]

\* The breaker of a venue opens only after cbMaxFailures failed buys on it,
\* however its counter is raced for.
OpenBreakerHadFailures ==
    \A v \in Venue : open[v] => failed[v] >= MaxFailures
=============================================================================
