---------------------------- MODULE MCScanBody ----------------------------
(* A small instance of ScanBody for TLC. *)
EXTENDS ScanBody, TLC

CONSTANTS btc, p1

MCSymbolOf == p1 :> btc

\* One failure short of opening, at the edge of the reset window or within it.
MCStoredRecords ==
    [failures : {2}, lastFailure : {-1, 0}, open : {FALSE}, cooldownUntil : {0}]

\* Scans differ only in their token.
ScanSymmetry == Permutations(Scan)

\* What a guard or a property can still tell apart.  An excuse is never taken
\* back, and with one the properties ask neither for its kind nor for what the
\* writers of the breaker knew, so it is enough to know whether anything was
\* known; without one, nobody asks for the latest record after a mishap, nor for
\* the failures in a row after a mishap or a death.  The start of a scan that has
\* ended is read by nobody.
LiveView ==
    <<now, kv, lagging, pc, [s \in Scan |-> IF pc[s] \in Ended THEN 0 ELSE t0[s]],
      wiped, cb, outbox, edit, copy, skip, recorded, fetchVars, ledgerVars, at, upsets,
      IF Excused THEN <<past = {}, served = {}, mishaps = {}>>
      ELSE <<past, ahead, served, mishaps, IF mishaps = {} THEN latest ELSE NoRecord>>,
      IF Excused \/ mishaps # {} \/ \E s \in Scan : pc[s] = "dead" THEN 0 ELSE streak>>
===========================================================================
