---------------------------- MODULE MCTradingState ----------------------------
(* Small instances of TradingState for TLC. *)
EXTENDS TradingState, TLC

CONSTANTS c1, c2, t1, a1, r1, r2, r3

\* Records the store may hold when the instance begins.
Running     == [Default EXCEPT !.enabled = TRUE, !.paper = TRUE, !.dayStart = DayLength]
Live        == [Running EXCEPT !.paper = FALSE]
LiveDrifted == [Live EXCEPT !.core = FALSE, !.locked = TRUE]
Yesterday   == [Running EXCEPT !.pnl = -Cap, !.stopped = TRUE, !.dayStart = 0]

RunningRecords == {Running}
LiveRecords    == {Live}
MixedRecords   == {LiveDrifted, Yesterday, NoState}

Loss       == {-1}
GainOrLoss == {-1, 1}

\* Who may send what, and who waits for whom.
AnyCommand == [r \in Request |-> Commands]
NoneAfter  == [p \in Proc |-> {}]

\* The emergency sequence of the operations checklist, each command issued when
\* the one before it was answered.
EmergencyKinds ==
    (r1 :> {"stop"}) @@ (r2 :> {"mode/paper"}) @@ (r3 :> {"spot-lock/enable"})
EmergencyOrder ==
    [p \in Proc |-> CASE p = r2 -> {r1} [] p = r3 -> {r2} [] OTHER -> {}]

\* A cycle that begins when the one before it has ended.
NoCommand    == [r \in Request |-> {}]
SerialCycles == [p \in Proc |-> IF p = c2 THEN {c1} ELSE {}]

\* What can still matter of a state: an invocation that has ended leaves its
\* locals behind, which no action reads again and no property tells apart.
Active(p) == pc[p] # "end" \/ (p \in Scanner /\ saving[p] # "no")

LiveView ==
    <<now, kv, pc, saving, outgoing, settled, orders, asked,
      [p \in Proc |-> IF Active(p) THEN st[p] ELSE Default],
      [c \in Cron |-> IF Active(c) THEN <<base[c], stamp[c]>> ELSE <<0, 0>>],
      [t \in Topics |-> {p \in knows[t] : Active(p)}]>>
===============================================================================
