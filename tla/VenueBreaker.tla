---------------------------- MODULE VenueBreaker ----------------------------
(***************************************************************************)
(* The per-venue circuit breaker record of worker-bot/src/orchestrator.js: *)
(* what recordCBFailure and recordCBSuccess make of it and when            *)
(* isCircuitOpen says to leave the venue alone.  Pure functions of a       *)
(* record and a time; ScanBody says who calls them when.                   *)
(***************************************************************************)
EXTENDS Integers

CONSTANTS
    MaxFailures,     \* MAX_CB_FAILURES
    FatalFailures,   \* CB_MAX_FATAL_THRESHOLD
    ResetWindow,     \* CB_RESET_WINDOW_MS, in ticks
    Cooldown,        \* CB_COOLDOWN_MS, in ticks
    FatalCooldown    \* CB_FATAL_COOLDOWN_MS, in ticks

ASSUME BreakerAssumption ==
    /\ {MaxFailures, FatalFailures} \subseteq Nat \ {0}
    /\ MaxFailures <= FatalFailures
    /\ {ResetWindow, Cooldown, FatalCooldown} \subseteq Nat \ {0}

Venue == [failures : Nat, lastFailure : Int, open : BOOLEAN, cooldownUntil : Nat]

\* A venue the stored object does not mention: time 0 of the code, long before
\* any window.
NoRecord == [failures |-> 0, lastFailure |-> -1 - ResetWindow,
             open |-> FALSE, cooldownUntil |-> 0]

IsOpen(v, time) ==
    \/ v.cooldownUntil > time
    \/ v.open /\ time - v.lastFailure < Cooldown

\* recordCBFailure: a quiet window forgives, the threshold opens the circuit, the
\* fatal threshold opens it for longer and starts the count again.
AfterFailure(v, time) ==
    LET kept  == IF time - v.lastFailure > ResetWindow THEN NoRecord ELSE v
        count == kept.failures + 1
    IN  [failures      |-> IF count >= FatalFailures THEN 0 ELSE count,
         lastFailure   |-> time,
         open          |-> kept.open \/ count >= MaxFailures,
         cooldownUntil |-> IF count >= FatalFailures THEN time + FatalCooldown
                           ELSE IF count >= MaxFailures THEN time + Cooldown
                           ELSE kept.cooldownUntil]

\* Mutated form of AfterSuccess: the record is replaced, not changed.
AfterSuccessReplaced(v) == [failures |-> 0, open |-> FALSE]

\* Mutated form of AfterSuccess: the circuit is closed and the count kept.
AfterSuccessUncounted(v) == [v EXCEPT !.open = FALSE, !.cooldownUntil = 0]

\* recordCBSuccess
AfterSuccess(v) == [v EXCEPT !.failures = 0, !.open = FALSE, !.cooldownUntil = 0]
=============================================================================
